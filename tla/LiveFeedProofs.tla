--------------------------- MODULE LiveFeedProofs ---------------------------
(***************************************************************************)
(* Proofs about the live feed: what the watcher broadcasts, what every     *)
(* connection is sent of it, and how many sockets a page holds, for every  *)
(* number of sockets, streams, pages and rows and whatever faults strike.  *)
(***************************************************************************)
EXTENDS LiveFeed, SequenceTheorems, TLAPS

-----------------------------------------------------------------------------
(* The steps of the backend, one after another: LiveFeed's Next is one of  *)
(* them, or a fault between it and the pages, or a step of the pages alone. *)

WatcherStep ==
  \/ Initialize \/ Fetch \/ FetchFails \/ TakeRow \/ LookupFails \/ EndPoll

ServerStep ==
  \/ \E k \in Kinds : Insert(k)
  \/ WatcherStep \/ Push
  \/ \E s \in Sockets : Send(s) \/ Accept(s) \/ Join(s) \/ Lose(s) \/ Leave(s)
  \/ \E q \in Streams : Subscribe(q) \/ EnterStream(q) \/ Deliver(q) \/ Abandon(q)
  \/ Restart

\* A connection breaks or is never made: for the backend only the count of
\* faults changes.
Broken ==
  /\ faults < MaxFaults /\ faults' = faults + 1
  /\ UNCHANGED <<rows, mark, watch, clientVars, castVars>>

LEMMA NextSplits ==
  ASSUME Next
  PROVE  ServerStep \/ Broken \/ UNCHANGED vars
<1>1. CASE Watches \/ Happens
  BY <1>1 DEF Watches, Happens, Server, ServerStep, WatcherStep
<1>2. CASE \E s \in Sockets : Sends(s)
  BY <1>2 DEF Sends, Server, ServerStep
<1>3. CASE \E c \in Clients : Serves(c)
  BY <1>3 DEF Serves, Server, ServerStep, Clients
<1>4. CASE PageMounts \/ PageUnmounts \/ TimerFires
  BY <1>4 DEF PageMounts, PageUnmounts, TimerFires
<1>5. CASE \E s \in Sockets : Accepts(s) \/ Hangs(s)
  BY <1>5 DEF Accepts, Hangs, ServerStep
<1>6. CASE \E s \in Sockets : Opens(s) \/ Closes(s)
  BY <1>6 DEF Opens, Closes
<1>7. CASE ConstructorThrows \/ \E s \in Sockets : Breaks(s)
  BY <1>7 DEF ConstructorThrows, Breaks, Fault, Broken
<1> QED
  BY <1>1, <1>2, <1>3, <1>4, <1>5, <1>6, <1>7 DEF Next

-----------------------------------------------------------------------------
(* The invariant, in four parts.                                           *)

(***************************************************************************)
(* The watcher: a poll in progress has a mark at its table and holds the   *)
(* ids that follow it; what was broadcast was counted from a mark.         *)
(***************************************************************************)
WatchInv ==
  /\ watch.pc # "sleep" =>
       /\ mark["dns_activity"] # None /\ mark[Table] # None
       /\ \A i \in DOMAIN watch.batch :
            watch.batch[i] = mark[Table] + i /\ watch.batch[i] <= rows[Table]
  /\ mark["dns_activity"] = None => \A k \in Kinds : mark[k] = None
  /\ \A i \in DOMAIN sent : mark[sent[i].kind] # None

(***************************************************************************)
(* The broadcast: it has sockets to serve only while it holds the lock,    *)
(* all of them registered, and the queues lack just the event it is at.    *)
(***************************************************************************)
CastInv ==
  /\ todo \subseteq active
  /\ watch.pc # "send" => todo = {} /\ pushed = Len(sent)
  /\ watch.pc = "send" => pushed + 1 = Len(sent)

(***************************************************************************)
(* The connections: what a client has seen is the feed from its place on.  *)
(***************************************************************************)
Follows(seen, start, feed) ==
  /\ start + Len(seen) <= Len(feed)
  /\ \A i \in 1 .. Len(seen) : seen[i] = feed[start + i]

SocketsInv ==
  \A s \in Sockets :
    /\ conn[s] \in {"out", "joining"} => got[s] = <<>> /\ from[s] = 0
    /\ Follows(got[s], from[s], sent)
StreamsInv ==
  \A q \in Streams :
    /\ conn[q] # "out" => Follows(got[q] \o queue[q], from[q], sent)
    /\ conn[q] # "out" /\ q \in subs => from[q] + Len(got[q]) + Len(queue[q]) = pushed

FeedInv ==
  /\ TypeOK /\ WatchInv /\ CastInv /\ FeedInOrder
  /\ SocketsInv /\ StreamsInv /\ StreamIsComplete

-----------------------------------------------------------------------------
(* The tables.                                                             *)

LEMMA ToSetFacts ==
  /\ ToSet(<<>>) = {}
  /\ \A S : \A s \in Seq(S) : \A i \in 1 .. Len(s) : s[i] \in ToSet(s)
  BY DEF ToSet

LEMMA Tables ==
  /\ Kinds = {"dns_activity", "safety_alert", "device_status"}
  /\ DOMAIN Kind = 1 .. 3 /\ \A i \in 1 .. 3 : Kind[i] \in Kinds
  /\ Kind[1] = "dns_activity"
<1>1. Kind = <<"dns_activity", "safety_alert", "device_status">> /\ DOMAIN Kind = 1 .. 3
  BY DEF Kind
<1>2. 1 .. 3 = {1, 2, 3}
  OBVIOUS
<1>3. Kinds = {Kind[i] : i \in DOMAIN Kind}
  BY DEF Kinds, ToSet
<1> QED
  BY <1>1, <1>2, <1>3

LEMMA EventFields ==
  ASSUME NEW e
  PROVE  e \in Event <=> /\ e = [kind |-> e.kind, id |-> e.id]
                         /\ e.kind \in Kinds /\ e.id \in 1 .. MaxRows[e.kind]
  BY DEF Event

LEMMA FeedInit == RealtimeInit => FeedInv
<1> SUFFICES ASSUME RealtimeInit PROVE FeedInv
  OBVIOUS
<1> USE RealtimeAssumption DEF RealtimeInit, Clients
<1>1. TypeOK
  BY DEF TypeOK, RowsOK, CastOK, ConnOK, SeenOK, Poll, Asleep
<1>2. WatchInv
  BY DEF WatchInv, Asleep
<1>3. CastInv
  BY DEF CastInv, Asleep
<1>4. FeedInOrder
  BY DEF FeedInOrder
<1>5. SocketsInv
  BY DEF SocketsInv, Follows
<1>6. StreamsInv /\ StreamIsComplete
  BY DEF StreamsInv, StreamIsComplete
<1> QED
  BY <1>1, <1>2, <1>3, <1>4, <1>5, <1>6 DEF FeedInv

-----------------------------------------------------------------------------
(* What the watcher does to marks, batch and feed.                         *)

LEMMA TableType ==
  ASSUME TypeOK
  PROVE  Table \in Kinds
  BY Tables DEF TypeOK, Poll, Table

LEMMA BatchType ==
  ASSUME TypeOK, NEW k \in Kinds, mark[k] # None
  PROVE  /\ Fresh(k) \in Seq(Nat)
         /\ \A i \in DOMAIN Fresh(k) : Fresh(k)[i] = mark[k] + i /\ Fresh(k)[i] <= rows[k]
<1> DEFINE n == IF rows[k] - mark[k] < Limit[k] THEN rows[k] - mark[k] ELSE Limit[k]
<1>1. mark[k] \in Nat /\ rows[k] \in Nat /\ mark[k] <= rows[k] /\ Limit[k] \in Nat
  BY RealtimeAssumption DEF TypeOK, RowsOK
<1>2. n \in Nat /\ mark[k] + n <= rows[k]
  BY <1>1
<1>3. Fresh(k) = [i \in 1 .. n |-> mark[k] + i]
  BY DEF Fresh
<1> HIDE DEF n
<1> QED
  BY <1>1, <1>2, <1>3

\* The row taken is the one after the mark, and a member of its table.
LEMMA TakeRowFacts ==
  ASSUME FeedInv, TakeRow
  PROVE  /\ Table \in Kinds /\ mark[Table] \in Nat
         /\ Head(watch.batch) = mark[Table] + 1 /\ mark[Table] + 1 <= rows[Table]
         /\ [kind |-> Table, id |-> mark[Table] + 1] \in Event
         /\ mark' = [mark EXCEPT ![Table] = mark[Table] + 1]
         /\ sent' = Append(sent, [kind |-> Table, id |-> mark[Table] + 1])
         /\ watch' = [watch EXCEPT !.pc = "send", !.batch = Tail(watch.batch)]
         /\ watch.pc = "row" /\ watch.batch # <<>> /\ watch.batch \in Seq(Nat)
         /\ todo' = active /\ dead' = {}
         /\ UNCHANGED <<rows, clientVars, pushed, faults>>
<1>1. Table \in Kinds /\ watch.batch \in Seq(Nat)
  BY TableType DEF FeedInv, TypeOK, Poll
<1>2. watch.pc = "row" /\ watch.batch # <<>>
  BY DEF TakeRow, TakeRowTo
<1>3. Head(watch.batch) = watch.batch[1] /\ 1 \in DOMAIN watch.batch
  BY <1>1, <1>2
<1>4. /\ mark[Table] # None /\ Head(watch.batch) = mark[Table] + 1
      /\ Head(watch.batch) <= rows[Table]
  BY <1>2, <1>3 DEF FeedInv, WatchInv
<1>5. mark[Table] \in Nat /\ rows[Table] <= MaxRows[Table] /\ MaxRows[Table] \in Nat
      /\ rows[Table] \in Nat
  BY <1>1, <1>4, RealtimeAssumption DEF FeedInv, TypeOK, RowsOK
<1>6. [kind |-> Table, id |-> mark[Table] + 1] \in Event
  BY <1>1, <1>4, <1>5, EventFields
<1> QED
  BY <1>1, <1>2, <1>4, <1>5, <1>6 DEF TakeRow, TakeRowTo

LEMMA LookupFailsFacts ==
  ASSUME FeedInv, LookupFails
  PROVE  /\ Table \in Kinds /\ mark[Table] \in Nat /\ mark[Table] + 1 <= rows[Table]
         /\ mark' = [mark EXCEPT ![Table] = mark[Table] + 1]
         /\ watch.pc = "row" /\ watch' = Asleep /\ faults' = faults + 1 /\ faults < MaxFaults
         /\ UNCHANGED <<rows, clientVars, castVars>>
<1>1. Table \in Kinds /\ watch.batch \in Seq(Nat)
  BY TableType DEF FeedInv, TypeOK, Poll
<1>2. watch.pc = "row" /\ watch.batch # <<>>
  BY DEF LookupFails
<1>3. Head(watch.batch) = watch.batch[1] /\ 1 \in DOMAIN watch.batch
  BY <1>1, <1>2
<1>4. /\ mark[Table] # None /\ Head(watch.batch) = mark[Table] + 1
      /\ Head(watch.batch) <= rows[Table]
  BY <1>2, <1>3 DEF FeedInv, WatchInv
<1>5. mark[Table] \in Nat
  BY <1>1, <1>4 DEF FeedInv, TypeOK, RowsOK
<1> QED
  BY <1>1, <1>2, <1>4, <1>5 DEF LookupFails, Fault

LEMMA InitializeFacts ==
  ASSUME FeedInv, Initialize
  PROVE  /\ watch.pc = "sleep" /\ mark["dns_activity"] = None /\ sent = <<>>
         /\ mark' \in [Kinds -> Nat \cup {None}]
         /\ \A k \in Kinds : mark'[k] # None => mark'[k] = rows[k]
         /\ mark'["dns_activity"] = None => \A k \in Kinds : mark'[k] = None
         /\ faults' \in {faults, faults + 1} /\ (faults' # faults => faults < MaxFaults)
         /\ UNCHANGED <<rows, watch, clientVars, castVars>>
<1>1. /\ watch.pc = "sleep" /\ mark["dns_activity"] = None
      /\ UNCHANGED <<rows, watch, clientVars, castVars>>
  BY DEF Initialize, Wake
<1>2. \A k \in Kinds : mark[k] = None
  BY <1>1 DEF FeedInv, WatchInv
<1>3. sent = <<>>
  <2>1. \A i \in DOMAIN sent : sent[i].kind \in Kinds
    BY EventFields DEF FeedInv, TypeOK, CastOK
  <2>2. DOMAIN sent = {}
    BY <1>2, <2>1 DEF FeedInv, WatchInv
  <2> QED
    BY <2>2 DEF FeedInv, TypeOK, CastOK
<1>4. PICK j \in 0 .. 3 :
        /\ mark' = [k \in Kinds |-> IF k \in ToSet(SubSeq(Kind, 1, j)) THEN rows[k] ELSE mark[k]]
        /\ IF j = 3 THEN UNCHANGED faults ELSE Fault("read")
  BY DEF Initialize
<1>5. mark' \in [Kinds -> Nat \cup {None}] /\ \A k \in Kinds : mark'[k] # None => mark'[k] = rows[k]
  BY <1>2, <1>4 DEF FeedInv, TypeOK, RowsOK
<1>6. mark'["dns_activity"] = None => \A k \in Kinds : mark'[k] = None
  <2>1. CASE j = 0
    <3>1. SubSeq(Kind, 1, j) = <<>>
      BY <2>1, SubSeqEmpty
    <3>2. ToSet(SubSeq(Kind, 1, j)) = {}
      BY <3>1, ToSetFacts
    <3> QED
      BY <1>2, <1>4, <3>2
  <2>2. CASE j # 0
    <3>1. j \in 1 .. 3 /\ \A i \in 1 .. j : Kind[i] \in Kinds
      BY <2>2, Tables
    <3>2. /\ SubSeq(Kind, 1, j) \in Seq(Kinds) /\ Len(SubSeq(Kind, 1, j)) = j
          /\ SubSeq(Kind, 1, j)[1] = Kind[1]
      BY <3>1, SubSeqProperties
    <3>3. "dns_activity" \in ToSet(SubSeq(Kind, 1, j))
      <4> DEFINE prefix == SubSeq(Kind, 1, j)
      <4>1. prefix \in Seq(Kinds) /\ 1 \in 1 .. Len(prefix) /\ prefix[1] = "dns_activity"
        BY <3>1, <3>2, Tables
      <4> HIDE DEF prefix
      <4>2. "dns_activity" \in ToSet(prefix)
        BY <4>1, ToSetFacts
      <4> QED
        BY <4>2 DEF prefix
    <3>4. mark'["dns_activity"] = rows["dns_activity"] /\ rows["dns_activity"] \in Nat
      BY <1>4, <3>3, Tables DEF FeedInv, TypeOK, RowsOK
    <3> QED
      BY <3>4, RealtimeAssumption
  <2> QED
    BY <2>1, <2>2
<1>7. faults' \in {faults, faults + 1} /\ (faults' # faults => faults < MaxFaults)
  BY <1>4 DEF Fault
<1> QED
  BY <1>1, <1>3, <1>5, <1>6, <1>7

LEMMA FetchFacts ==
  ASSUME FeedInv, Fetch
  PROVE  \E i \in 1 .. 3 :
           /\ mark["dns_activity"] # None /\ mark[Kind[i]] # None /\ watch.pc # "send"
           /\ watch' = [pc |-> "row", step |-> i, batch |-> Fresh(Kind[i])]
           /\ UNCHANGED <<rows, mark, clientVars, castVars, faults>>
<1> PICK i \in 1 .. 3 :
      /\ Due(i) /\ mark[Kind[i]] # None
      /\ watch' = [pc |-> "row", step |-> i, batch |-> Fresh(Kind[i])]
  BY DEF Fetch
<1>1. mark["dns_activity"] # None /\ watch.pc # "send"
  BY DEF Due, Wake, FeedInv, WatchInv
<1> QED
  BY <1>1 DEF Fetch

\* A poll that ends, by an exception or at its last table.
LEMMA PollEnds ==
  ASSUME FeedInv, FetchFails \/ EndPoll
  PROVE  /\ watch.pc # "send" /\ watch' = Asleep
         /\ faults' \in {faults, faults + 1} /\ (faults' # faults => faults < MaxFaults)
         /\ UNCHANGED <<rows, mark, clientVars, castVars>>
  BY DEF FetchFails, EndPoll, Due, Wake, Fault

-----------------------------------------------------------------------------
(* Each part of the invariant, step by step.                               *)

\* What every step is, for the parts that are about the backend.
Step == ServerStep \/ Broken \/ UNCHANGED vars

LEMMA LastOfFeed ==
  ASSUME TypeOK, sent # <<>>
  PROVE  Last(sent) = sent[Len(sent)] /\ Last(sent) \in Event /\ Len(sent) \in Nat \ {0}
  BY DEF Last, TypeOK, CastOK

\* The rows, the marks and the count of faults.
LEMMA RowsStep == FeedInv /\ Step => RowsOK'
<1> SUFFICES ASSUME FeedInv, Step PROVE RowsOK'
  OBVIOUS
<1>0. RowsOK /\ MaxFaults \in Nat /\ MaxRows \in [Kinds -> Nat]
  BY RealtimeAssumption DEF FeedInv, TypeOK, RowsOK
<1>1. ASSUME NEW k \in Kinds, Insert(k) PROVE RowsOK'
  BY <1>0, <1>1 DEF Insert, RowsOK
<1>2. CASE Initialize
  BY <1>0, <1>2, InitializeFacts DEF RowsOK
<1>3. CASE Fetch
  BY <1>0, <1>3, FetchFacts DEF RowsOK
<1>4. CASE FetchFails \/ EndPoll
  BY <1>0, <1>4, PollEnds DEF RowsOK
<1>5. ASSUME NEW k \in Kinds, mark[k] \in Nat, mark[k] + 1 <= rows[k], UNCHANGED rows,
             mark' = [mark EXCEPT ![k] = mark[k] + 1]
      PROVE  /\ mark' \in [Kinds -> Nat \cup {None}]
             /\ \A j \in Kinds : rows'[j] <= MaxRows[j] /\ (mark'[j] # None => mark'[j] <= rows'[j])
  BY <1>0, <1>5 DEF RowsOK
<1>6. CASE TakeRow
  <2>1. /\ Table \in Kinds /\ mark[Table] \in Nat /\ mark[Table] + 1 <= rows[Table]
        /\ UNCHANGED <<rows, faults>> /\ mark' = [mark EXCEPT ![Table] = mark[Table] + 1]
    BY <1>6, TakeRowFacts
  <2> HIDE DEF Table
  <2> QED
    BY <1>0, <1>5, <2>1 DEF RowsOK
<1>7. CASE LookupFails
  <2>1. /\ Table \in Kinds /\ mark[Table] \in Nat /\ mark[Table] + 1 <= rows[Table]
        /\ UNCHANGED rows /\ mark' = [mark EXCEPT ![Table] = mark[Table] + 1]
        /\ faults' = faults + 1 /\ faults < MaxFaults
    BY <1>7, LookupFailsFacts
  <2> QED
    BY <1>0, <1>5, <2>1 DEF RowsOK
<1>8. CASE Restart
  BY <1>0, <1>8 DEF Restart, Fault, RowsOK
<1>9. CASE Broken
  BY <1>0, <1>9 DEF Broken, RowsOK
<1>10. CASE Push \/ UNCHANGED vars
  BY <1>0, <1>10 DEF Push, vars, RowsOK
<1>11. ASSUME NEW s \in Sockets, Send(s) \/ Accept(s) \/ Join(s) \/ Lose(s) \/ Leave(s)
       PROVE  RowsOK'
  BY <1>0, <1>11 DEF Send, SendTo, Accept, Join, Lose, Leave, RowsOK
<1>12. ASSUME NEW q \in Streams, Subscribe(q) \/ EnterStream(q) \/ Deliver(q) \/ Abandon(q)
       PROVE  RowsOK'
  BY <1>0, <1>12 DEF Subscribe, EnterStream, Deliver, Abandon, RowsOK
<1> QED
  BY <1>1, <1>2, <1>3, <1>4, <1>6, <1>7, <1>8, <1>9, <1>10, <1>11, <1>12
  DEF Step, ServerStep, WatcherStep

LEMMA PollType ==
  /\ Asleep \in Poll
  /\ \A i \in 1 .. 3 : \A b \in Seq(Nat) : [pc |-> "row", step |-> i, batch |-> b] \in Poll
  /\ \A w \in Poll : [w EXCEPT !.pc = "row"] \in Poll
  /\ \A w \in Poll : w.batch # <<>> => [w EXCEPT !.pc = "send", !.batch = Tail(w.batch)] \in Poll
<1>1. Asleep \in Poll
  BY DEF Asleep, Poll
<1>2. \A i \in 1 .. 3 : \A b \in Seq(Nat) : [pc |-> "row", step |-> i, batch |-> b] \in Poll
  BY DEF Poll
<1>3. \A w \in Poll : [w EXCEPT !.pc = "row"] \in Poll
  BY DEF Poll
<1>4. ASSUME NEW w \in Poll, w.batch # <<>>
      PROVE  [w EXCEPT !.pc = "send", !.batch = Tail(w.batch)] \in Poll
  <2>1. Tail(w.batch) \in Seq(Nat)
    BY <1>4, HeadTailProperties DEF Poll
  <2> QED
    BY <2>1 DEF Poll
<1> QED
  BY <1>1, <1>2, <1>3, <1>4

LEMMA PollStep == FeedInv /\ Step => watch' \in Poll
<1> SUFFICES ASSUME FeedInv, Step PROVE watch' \in Poll
  OBVIOUS
<1>0. watch \in Poll
  BY DEF FeedInv, TypeOK
<1>1. ASSUME NEW k \in Kinds, Insert(k) PROVE watch' \in Poll
  BY <1>0, <1>1 DEF Insert
<1>2. CASE Initialize
  BY <1>0, <1>2, InitializeFacts
<1>3. CASE Fetch
  <2> PICK i \in 1 .. 3 :
        /\ mark["dns_activity"] # None /\ mark[Kind[i]] # None /\ watch.pc # "send"
        /\ watch' = [pc |-> "row", step |-> i, batch |-> Fresh(Kind[i])]
        /\ UNCHANGED <<rows, mark, clientVars, castVars, faults>>
    BY <1>3, FetchFacts
  <2>1. Fresh(Kind[i]) \in Seq(Nat)
    BY Tables, BatchType DEF FeedInv
  <2> QED
    BY <2>1, PollType
<1>4. CASE FetchFails \/ EndPoll
  BY <1>4, PollEnds, PollType
<1>5. CASE TakeRow
  BY <1>0, <1>5, TakeRowFacts, PollType
<1>6. CASE LookupFails
  BY <1>6, LookupFailsFacts, PollType
<1>7. CASE Push \/ Broken \/ Restart \/ UNCHANGED vars
  BY <1>0, <1>7, PollType DEF Push, Broken, Restart, vars
<1>8. ASSUME NEW s \in Sockets, Send(s) \/ Accept(s) \/ Join(s) \/ Lose(s) \/ Leave(s)
       PROVE  watch' \in Poll
  BY <1>0, <1>8 DEF Send, SendTo, Accept, Join, Lose, Leave
<1>9. ASSUME NEW q \in Streams, Subscribe(q) \/ EnterStream(q) \/ Deliver(q) \/ Abandon(q)
       PROVE  watch' \in Poll
  BY <1>0, <1>9 DEF Subscribe, EnterStream, Deliver, Abandon
<1> QED
  BY <1>1, <1>2, <1>3, <1>4, <1>5, <1>6, <1>7, <1>8, <1>9
  DEF Step, ServerStep, WatcherStep

LEMMA CastTypeStep == FeedInv /\ Step => CastOK'
<1> SUFFICES ASSUME FeedInv, Step PROVE CastOK'
  OBVIOUS
<1>0. CastOK /\ active \subseteq Sockets
  BY DEF FeedInv, TypeOK, ConnOK
<1>1. CASE \/ Initialize \/ Fetch \/ FetchFails \/ EndPoll \/ LookupFails
  <2>1. UNCHANGED castVars
    BY <1>1, InitializeFacts, FetchFacts, PollEnds, LookupFailsFacts
  <2> QED
    BY <1>0, <2>1 DEF CastOK, castVars
<1>2. CASE TakeRow
  <2>1. /\ [kind |-> Table, id |-> mark[Table] + 1] \in Event
        /\ sent' = Append(sent, [kind |-> Table, id |-> mark[Table] + 1])
        /\ todo' = active /\ dead' = {} /\ UNCHANGED pushed
    BY <1>2, TakeRowFacts
  <2>2. sent' \in Seq(Event) /\ Len(sent') = Len(sent) + 1 /\ Len(sent) \in Nat
    BY <1>0, <2>1, AppendProperties DEF CastOK
  <2> QED
    BY <1>0, <2>1, <2>2 DEF CastOK
<1>3. CASE Push
  BY <1>0, <1>3 DEF Push, CastOK
<1>4. CASE Restart
  BY <1>4 DEF Restart, CastOK
<1>5. ASSUME NEW s \in Sockets, Send(s) PROVE CastOK'
  BY <1>0, <1>5 DEF Send, SendTo, CastOK
<1>6. CASE \/ \E k \in Kinds : Insert(k)
           \/ \E s \in Sockets : Accept(s) \/ Join(s) \/ Lose(s) \/ Leave(s)
           \/ \E q \in Streams : Subscribe(q) \/ EnterStream(q) \/ Deliver(q) \/ Abandon(q)
           \/ Broken \/ UNCHANGED vars
  <2>1. UNCHANGED castVars
    BY <1>6 DEF Insert, Accept, Join, Lose, Leave, Subscribe, EnterStream, Deliver, Abandon,
                Broken, vars, castVars
  <2> QED
    BY <1>0, <2>1 DEF CastOK, castVars
<1> QED
  BY <1>1, <1>2, <1>3, <1>4, <1>5, <1>6 DEF Step, ServerStep, WatcherStep

\* Steps that connections take without the watcher, and those it takes without them.
LEMMA OthersConn ==
  ASSUME FeedInv, \/ \E k \in Kinds : Insert(k)
                  \/ WatcherStep \/ Broken \/ UNCHANGED vars
  PROVE  UNCHANGED clientVars
  BY InitializeFacts, FetchFacts, PollEnds, LookupFailsFacts, TakeRowFacts
  DEF Insert, WatcherStep, Broken, vars, clientVars

LEMMA ConnStep == FeedInv /\ Step => ConnOK'
<1> SUFFICES ASSUME FeedInv, Step PROVE ConnOK'
  OBVIOUS
<1>0. ConnOK
  BY DEF FeedInv, TypeOK
<1>1. CASE \/ \E k \in Kinds : Insert(k)
           \/ WatcherStep \/ Broken \/ UNCHANGED vars
  BY <1>0, <1>1, OthersConn DEF clientVars, ConnOK
<1>2. CASE Push
  BY <1>0, <1>2 DEF Push, ConnOK
<1>3. ASSUME NEW s \in Sockets, Send(s) \/ Accept(s) \/ Join(s) \/ Lose(s) \/ Leave(s)
      PROVE  ConnOK'
  BY <1>0, <1>3 DEF Send, SendTo, Accept, Join, Lose, Leave, ConnOK, Clients
<1>4. ASSUME NEW q \in Streams, Subscribe(q) \/ EnterStream(q) \/ Deliver(q) \/ Abandon(q)
      PROVE  ConnOK'
  BY <1>0, <1>4 DEF Subscribe, EnterStream, Deliver, Abandon, ConnOK, Clients
<1>5. CASE Restart
  BY <1>5 DEF Restart, ConnOK
<1> QED
  BY <1>1, <1>2, <1>3, <1>4, <1>5 DEF Step, ServerStep

LEMMA SeenStep == FeedInv /\ Step => SeenOK'
<1> SUFFICES ASSUME FeedInv, Step PROVE SeenOK'
  OBVIOUS
<1>0. SeenOK
  BY DEF FeedInv, TypeOK
<1>0a. /\ MaxQueue \in Nat \ {0} /\ Len(sent) \in Nat /\ pushed \in Nat
       /\ sent # <<>> => Last(sent) \in Event
  BY RealtimeAssumption, LastOfFeed DEF FeedInv, TypeOK, CastOK
<1>1. CASE \/ \E k \in Kinds : Insert(k)
           \/ WatcherStep \/ Broken \/ UNCHANGED vars
  BY <1>0, <1>1, OthersConn DEF clientVars, SeenOK
<1>2. CASE Push
  <2>1. sent # <<>>
    BY <1>2 DEF Push, FeedInv, CastInv, TypeOK, CastOK
  <2>2. ASSUME NEW q \in Streams
        PROVE  queue'[q] \in Seq(Event) /\ Len(queue'[q]) <= MaxQueue
    <3>1. queue[q] \in Seq(Event) /\ Len(queue[q]) \in Nat /\ Len(queue[q]) <= MaxQueue
      BY <1>0 DEF SeenOK
    <3>2. CASE q \in subs \ Full
      <4>1. queue'[q] = Append(queue[q], Last(sent)) /\ ~(Len(queue[q]) >= MaxQueue)
        BY <1>2, <3>2 DEF Push, Offered, Full
      <4>2. Len(queue'[q]) = Len(queue[q]) + 1 /\ queue'[q] \in Seq(Event)
        BY <1>0a, <2>1, <3>1, <4>1, AppendProperties
      <4> QED
        BY <1>0a, <3>1, <4>1, <4>2
    <3>3. CASE q \notin subs \ Full
      BY <1>2, <3>1, <3>3 DEF Push, Offered
    <3> QED
      BY <3>2, <3>3
  <2>3. queue' = [q \in Streams |-> queue'[q]] /\ UNCHANGED <<got, from>>
    BY <1>2 DEF Push, Offered
  <2> QED
    BY <1>0, <2>2, <2>3 DEF SeenOK
<1>3. ASSUME NEW s \in Sockets, Send(s) PROVE SeenOK'
  <2>1. sent # <<>>
    BY <1>3 DEF Send, SendTo, FeedInv, CastInv, TypeOK, CastOK
  <2>2. s \in Clients => got[s] \in Seq(Event) /\ Append(got[s], Last(sent)) \in Seq(Event)
    BY <1>0, <1>0a, <2>1, AppendProperties DEF SeenOK
  <2> QED
    BY <1>0, <1>3, <2>2 DEF Send, SendTo, SeenOK, Clients
<1>4. ASSUME NEW s \in Sockets, Accept(s) \/ Join(s) \/ Lose(s) \/ Leave(s) PROVE SeenOK'
  <2>1. CASE Accept(s) \/ Lose(s)
    BY <1>0, <2>1 DEF Accept, Lose, SeenOK
  <2>2. CASE Join(s)
    BY <1>0, <1>0a, <2>2 DEF Join, SeenOK, Clients
  <2>3. CASE Leave(s)
    BY <1>0, <2>3 DEF Leave, Forget, SeenOK, Clients
  <2> QED
    BY <1>4, <2>1, <2>2, <2>3
<1>e. ASSUME NEW q \in Streams, queue' = [queue EXCEPT ![q] = <<>>]
      PROVE  queue' \in [Streams -> Seq(Event)] /\ \A r \in Streams : Len(queue'[r]) <= MaxQueue
  <2>1. <<>> \in Seq(Event) /\ Len(<<>>) = 0 /\ 0 <= MaxQueue
    BY <1>0a
  <2>2. queue \in [Streams -> Seq(Event)] /\ \A r \in Streams : Len(queue[r]) <= MaxQueue
    BY <1>0 DEF SeenOK
  <2>3. \A r \in Streams : queue'[r] = IF r = q THEN <<>> ELSE queue[r]
    BY <1>e, <2>2
  <2>4. \A r \in Streams : Len(queue'[r]) <= MaxQueue
    BY <2>1, <2>2, <2>3
  <2>5. queue' \in [Streams -> Seq(Event)]
    BY <1>e, <2>1, <2>2
  <2> QED
    BY <2>4, <2>5
<1>5. ASSUME NEW q \in Streams, Subscribe(q) \/ EnterStream(q) PROVE SeenOK'
  <2>1. CASE EnterStream(q)
    BY <1>0, <2>1 DEF EnterStream, SeenOK
  <2>2. CASE Subscribe(q)
    <3>1. /\ queue' = [queue EXCEPT ![q] = <<>>] /\ got' = [got EXCEPT ![q] = <<>>]
          /\ from' = [from EXCEPT ![q] = pushed]
      BY <2>2 DEF Subscribe
    <3>2. got' \in [Clients -> Seq(Event)] /\ from' \in [Clients -> Nat]
      BY <1>0, <1>0a, <3>1 DEF SeenOK, Clients
    <3> QED
      BY <1>e, <3>1, <3>2 DEF SeenOK
  <2> QED
    BY <1>5, <2>1, <2>2
<1>6. ASSUME NEW q \in Streams, Abandon(q) PROVE SeenOK'
  <2>1. queue' = queue \/ queue' = [queue EXCEPT ![q] = <<>>]
    BY <1>6 DEF Abandon
  <2>2. queue' \in [Streams -> Seq(Event)] /\ \A r \in Streams : Len(queue'[r]) <= MaxQueue
    <3>1. CASE queue' = queue
      BY <1>0, <3>1 DEF SeenOK
    <3> QED
      BY <1>e, <2>1, <3>1
  <2>3. got' = [got EXCEPT ![q] = <<>>] /\ from' = [from EXCEPT ![q] = 0]
    BY <1>6 DEF Abandon, Forget
  <2> QED
    BY <1>0, <2>2, <2>3 DEF SeenOK, Clients
<1>7. ASSUME NEW q \in Streams, Deliver(q) PROVE SeenOK'
  <2>1. queue[q] \in Seq(Event) /\ queue[q] # <<>> /\ Len(queue[q]) <= MaxQueue
        /\ got[q] \in Seq(Event)
    BY <1>0, <1>7 DEF Deliver, SeenOK, Clients
  <2>2. Head(queue[q]) \in Event /\ Tail(queue[q]) \in Seq(Event)
        /\ Len(Tail(queue[q])) = Len(queue[q]) - 1 /\ Len(queue[q]) \in Nat
    BY <2>1, HeadTailProperties
  <2>3. Append(got[q], Head(queue[q])) \in Seq(Event)
    BY <2>1, <2>2, AppendProperties
  <2>4. Len(Tail(queue[q])) <= MaxQueue
    BY <1>0a, <2>1, <2>2
  <2>5. /\ got' = [got EXCEPT ![q] = Append(got[q], Head(queue[q]))]
        /\ queue' = [queue EXCEPT ![q] = Tail(queue[q])] /\ UNCHANGED from
    BY <1>7 DEF Deliver
  <2> QED
    BY <1>0, <2>2, <2>3, <2>4, <2>5 DEF SeenOK, Clients
<1>8. CASE Restart
  BY <1>0a, <1>8 DEF Restart, SeenOK
<1> QED
  BY <1>1, <1>2, <1>3, <1>4, <1>5, <1>6, <1>7, <1>8 DEF Step, ServerStep

LEMMA TypeStep == FeedInv /\ Step => TypeOK'
  BY RowsStep, PollStep, CastTypeStep, ConnStep, SeenStep DEF TypeOK

-----------------------------------------------------------------------------
(* The watcher and the broadcast.                                          *)

LEMMA CastStep == FeedInv /\ Step => CastInv'
<1> SUFFICES ASSUME FeedInv, Step PROVE CastInv'
  OBVIOUS
<1>0. CastInv /\ sent \in Seq(Event) /\ Len(sent) \in Nat /\ pushed \in Nat /\ active \subseteq Sockets
  BY DEF FeedInv, TypeOK, CastOK, ConnOK
<1>1. CASE Initialize \/ FetchFails \/ EndPoll \/ LookupFails
  <2>1. UNCHANGED <<clientVars, castVars>> /\ watch.pc # "send" /\ watch'.pc # "send"
    BY <1>1, InitializeFacts, PollEnds, LookupFailsFacts DEF Asleep
  <2> QED
    BY <1>0, <2>1 DEF CastInv, castVars, clientVars
<1>2. CASE Fetch
  <2>1. UNCHANGED <<clientVars, castVars>> /\ watch.pc # "send" /\ watch'.pc # "send"
    BY <1>2, FetchFacts
  <2> QED
    BY <1>0, <2>1 DEF CastInv, castVars, clientVars
<1>3. CASE TakeRow
  <2>1. /\ watch.pc = "row" /\ watch'.pc = "send" /\ todo' = active /\ UNCHANGED <<active, pushed>>
        /\ sent' = Append(sent, [kind |-> Table, id |-> mark[Table] + 1])
        /\ [kind |-> Table, id |-> mark[Table] + 1] \in Event
    BY <1>3, TakeRowFacts DEF clientVars, FeedInv, TypeOK, Poll
  <2>2. Len(sent') = Len(sent) + 1
    BY <1>0, <2>1, AppendProperties
  <2> QED
    BY <1>0, <2>1, <2>2 DEF CastInv
<1>4. CASE Push
  <2>1. watch'.pc = "row"
    BY <1>4 DEF Push, FeedInv, TypeOK, Poll
  <2> QED
    BY <1>0, <1>4, <2>1 DEF Push, CastInv
<1>5. CASE Restart
  BY <1>5 DEF Restart, CastInv, Asleep
<1>6. ASSUME NEW s \in Sockets, Send(s) PROVE CastInv'
  BY <1>0, <1>6 DEF Send, SendTo, CastInv
<1>7. ASSUME NEW s \in Sockets, Accept(s) \/ Join(s) \/ Lose(s) \/ Leave(s) PROVE CastInv'
  BY <1>0, <1>7 DEF Accept, Join, Lose, Leave, Unlocked, CastInv, castVars
<1>8. CASE \/ \E k \in Kinds : Insert(k)
           \/ \E q \in Streams : Subscribe(q) \/ EnterStream(q) \/ Deliver(q) \/ Abandon(q)
           \/ Broken \/ UNCHANGED vars
  <2>1. UNCHANGED <<castVars, active, watch>>
    BY <1>8 DEF Insert, Subscribe, EnterStream, Deliver, Abandon, Broken, vars, castVars, clientVars
  <2> QED
    BY <1>0, <2>1 DEF CastInv, castVars
<1> QED
  BY <1>1, <1>2, <1>3, <1>4, <1>5, <1>6, <1>7, <1>8 DEF Step, ServerStep, WatcherStep

\* The steps that neither poll nor restart: the rows may grow, the rest stays.
LEMMA QuietSteps ==
  ASSUME FeedInv, Step
  PROVE  \/ Initialize \/ Fetch \/ FetchFails \/ EndPoll \/ TakeRow \/ LookupFails \/ Push \/ Restart
         \/ /\ UNCHANGED <<mark, watch, sent>> /\ \A k \in Kinds : rows[k] <= rows'[k]
            /\ faults' \in {faults, faults + 1}
<1>1. ASSUME NEW k \in Kinds, Insert(k)
      PROVE  UNCHANGED <<mark, watch, sent, faults>> /\ \A j \in Kinds : rows[j] <= rows'[j]
  BY <1>1 DEF Insert, castVars, FeedInv, TypeOK, RowsOK
<1>2. CASE \/ \E s \in Sockets : Send(s) \/ Accept(s) \/ Join(s) \/ Lose(s) \/ Leave(s)
           \/ \E q \in Streams : Subscribe(q) \/ EnterStream(q) \/ Deliver(q) \/ Abandon(q)
           \/ UNCHANGED vars
  <2>1. UNCHANGED <<mark, watch, sent, rows, faults>>
    BY <1>2 DEF Send, SendTo, Accept, Join, Lose, Leave, Subscribe, EnterStream, Deliver,
                Abandon, vars, castVars
  <2> QED
    BY <2>1 DEF FeedInv, TypeOK, RowsOK
<1>3. CASE Broken
  BY <1>3 DEF Broken, castVars, FeedInv, TypeOK, RowsOK
<1> QED
  BY <1>1, <1>2, <1>3 DEF Step, ServerStep, WatcherStep

\* The event a step adds to the feed, and all that were there before.
LEMMA FeedGrows ==
  ASSUME NEW T, NEW s \in Seq(T), NEW e \in T
  PROVE  /\ Append(s, e) \in Seq(T) /\ Len(s) \in Nat
         /\ DOMAIN s = 1 .. Len(s) /\ DOMAIN Append(s, e) = 1 .. Len(s) + 1
         /\ \A i \in 1 .. Len(s) : Append(s, e)[i] = s[i]
         /\ Append(s, e)[Len(s) + 1] = e
  BY AppendProperties

LEMMA WatchStep == FeedInv /\ Step => WatchInv'
<1> SUFFICES ASSUME FeedInv, Step PROVE WatchInv'
  OBVIOUS
<1>0. WatchInv /\ sent \in Seq(Event) /\ None \notin Nat
      /\ mark \in [Kinds -> Nat \cup {None}] /\ watch \in Poll
      /\ \A i \in DOMAIN sent : sent[i].kind \in Kinds
  BY RealtimeAssumption, EventFields DEF FeedInv, TypeOK, CastOK, RowsOK
<1>1. CASE Initialize
  <2>1. /\ watch.pc = "sleep" /\ sent = <<>> /\ UNCHANGED <<watch, sent>>
        /\ mark'["dns_activity"] = None => \A k \in Kinds : mark'[k] = None
    BY <1>1, InitializeFacts DEF castVars
  <2> QED
    BY <2>1 DEF WatchInv
<1>2. CASE Fetch
  <2> PICK i \in 1 .. 3 :
        /\ mark["dns_activity"] # None /\ mark[Kind[i]] # None /\ watch.pc # "send"
        /\ watch' = [pc |-> "row", step |-> i, batch |-> Fresh(Kind[i])]
        /\ UNCHANGED <<rows, mark, clientVars, castVars, faults>>
    BY <1>2, FetchFacts
  <2>1. /\ Kind[i] \in Kinds /\ Table' = Kind[i] /\ watch'.batch = Fresh(Kind[i])
    BY Tables DEF Table
  <2>2. \A n \in DOMAIN watch'.batch :
          watch'.batch[n] = mark[Kind[i]] + n /\ watch'.batch[n] <= rows[Kind[i]]
    BY <2>1, BatchType DEF FeedInv
  <2> QED
    BY <1>0, <2>1, <2>2 DEF WatchInv, castVars
<1>3. CASE FetchFails \/ EndPoll
  BY <1>0, <1>3, PollEnds DEF WatchInv, Asleep, castVars
<1>4. CASE LookupFails
  <2>1. /\ Table \in Kinds /\ mark[Table] \in Nat /\ watch.pc = "row" /\ watch'.pc = "sleep"
        /\ mark' = [mark EXCEPT ![Table] = mark[Table] + 1] /\ UNCHANGED sent
    BY <1>4, LookupFailsFacts DEF Asleep, castVars
  <2>2. mark["dns_activity"] # None
    BY <1>0, <2>1 DEF WatchInv
  <2>3. \A k \in Kinds : mark[k] # None => mark'[k] # None
    BY <1>0, <2>1
  <2> QED
    BY <1>0, <2>1, <2>2, <2>3, Tables DEF WatchInv
<1>5. CASE TakeRow
  <2> DEFINE e == [kind |-> Table, id |-> mark[Table] + 1]
  <2>1. /\ Table \in Kinds /\ mark[Table] \in Nat /\ watch.pc = "row"
        /\ mark' = [mark EXCEPT ![Table] = mark[Table] + 1] /\ sent' = Append(sent, e)
        /\ e \in Event /\ UNCHANGED rows
        /\ watch' = [watch EXCEPT !.pc = "send", !.batch = Tail(watch.batch)]
        /\ watch.batch # <<>> /\ watch.batch \in Seq(Nat)
    BY <1>5, TakeRowFacts
  <2>2. mark["dns_activity"] # None
    BY <1>0, <2>1 DEF WatchInv
  <2>3. \A k \in Kinds : mark[k] # None => mark'[k] # None
    BY <1>0, <2>1
  <2>4. Table' = Table /\ watch'.batch = Tail(watch.batch) /\ mark'[Table] = mark[Table] + 1
    BY <1>0, <2>1 DEF Table, Poll
  <2>5. ASSUME NEW i \in DOMAIN watch'.batch
        PROVE  watch'.batch[i] = mark'[Table] + i /\ watch'.batch[i] <= rows[Table]
    <3>1. i \in Nat /\ i + 1 \in DOMAIN watch.batch /\ watch'.batch[i] = watch.batch[i + 1]
      BY <2>1, <2>4, HeadTailProperties
    <3>2. watch.batch[i + 1] = mark[Table] + (i + 1) /\ watch.batch[i + 1] <= rows[Table]
      BY <1>0, <2>1, <3>1 DEF WatchInv
    <3>3. \A m \in Nat : m + (i + 1) = (m + 1) + i
      BY <3>1
    <3>4. mark[Table] \in Nat /\ mark'[Table] = mark[Table] + 1
      BY <2>1, <2>4
    <3>5. mark[Table] + (i + 1) = mark'[Table] + i
      BY <3>3, <3>4
    <3> QED
      BY <3>1, <3>2, <3>5
  <2>6. \A i \in DOMAIN sent' : mark'[sent'[i].kind] # None
    <3> HIDE DEF e
    <3>1. \A i \in DOMAIN sent' : \/ i \in DOMAIN sent /\ sent'[i] = sent[i]
                                  \/ sent'[i] = e
      BY <1>0, <2>1, FeedGrows
    <3>2. e.kind = Table /\ mark'[Table] # None
      BY <1>0, <2>1, <2>4 DEF e
    <3> QED
      BY <1>0, <2>3, <3>1, <3>2 DEF WatchInv
  <2> QED
    BY <1>0, <2>1, <2>2, <2>3, <2>4, <2>5, <2>6, Tables DEF WatchInv
<1>6. CASE Push
  <2>1. /\ watch.pc = "send" /\ UNCHANGED <<rows, mark, sent>> /\ Table' = Table
        /\ watch'.batch = watch.batch
    BY <1>0, <1>6 DEF Push, Poll, Table
  <2> QED
    BY <1>0, <2>1 DEF WatchInv
<1>7. CASE Restart
  BY <1>7, Tables DEF Restart, WatchInv, Asleep
<1>8. CASE UNCHANGED <<mark, watch, sent>> /\ \A k \in Kinds : rows[k] <= rows'[k]
  <2>1. Table \in Kinds /\ Table' = Table /\ rows' \in [Kinds -> Nat] /\ rows \in [Kinds -> Nat]
    BY <1>8, TableType, RowsStep DEF Table, FeedInv, TypeOK, RowsOK
  <2>2. \A i \in DOMAIN watch.batch : watch.batch[i] \in Nat
    BY <1>0 DEF Poll
  <2> QED
    BY <1>0, <1>8, <2>1, <2>2 DEF WatchInv
<1> QED
  BY <1>1, <1>2, <1>3, <1>4, <1>5, <1>6, <1>7, <1>8, QuietSteps

LEMMA OrderStep == FeedInv /\ Step => FeedInOrder'
<1> SUFFICES ASSUME FeedInv, Step PROVE FeedInOrder'
  OBVIOUS
<1>0. /\ FeedInOrder /\ sent \in Seq(Event) /\ faults \in Nat
      /\ \A i \in DOMAIN sent : sent[i].kind \in Kinds /\ mark[sent[i].kind] \in Nat /\ sent[i].id \in Nat
  <2>1. \A i \in DOMAIN sent : sent[i].kind \in Kinds /\ sent[i].id \in Nat
    BY EventFields, RealtimeAssumption DEF FeedInv, TypeOK, CastOK
  <2>2. \A i \in DOMAIN sent : mark[sent[i].kind] \in Nat
    BY <2>1 DEF FeedInv, WatchInv, TypeOK, RowsOK
  <2> QED
    BY <2>1, <2>2 DEF FeedInv, TypeOK, CastOK, RowsOK
<1>1. CASE sent' = <<>>
  BY <1>1 DEF FeedInOrder
<1>2. CASE UNCHANGED <<mark, sent>> /\ faults' \in {faults, faults + 1}
  <2>1. faults' = 0 => faults = 0
    BY <1>0, <1>2
  <2> QED
    BY <1>0, <1>2, <2>1 DEF FeedInOrder
<1>3. CASE LookupFails
  <2>1. /\ Table \in Kinds /\ mark[Table] \in Nat
        /\ mark' = [mark EXCEPT ![Table] = mark[Table] + 1]
        /\ UNCHANGED sent /\ faults' = faults + 1
    BY <1>3, LookupFailsFacts DEF castVars
  <2>2. faults' # 0 /\ \A i \in DOMAIN sent : mark[sent[i].kind] <= mark'[sent[i].kind]
    <3>1. mark \in [Kinds -> Nat \cup {None}]
      BY DEF FeedInv, TypeOK, RowsOK
    <3> QED
      BY <1>0, <2>1, <3>1
  <2>3. \A i \in DOMAIN sent : mark'[sent[i].kind] \in Nat
    <3>1. mark \in [Kinds -> Nat \cup {None}]
      BY DEF FeedInv, TypeOK, RowsOK
    <3> QED
      BY <1>0, <2>1, <3>1
  <2>4. \A i \in DOMAIN sent : sent[i].id <= mark'[sent[i].kind]
    BY <1>0, <2>2, <2>3 DEF FeedInOrder
  <2> QED
    BY <1>0, <2>1, <2>2, <2>4 DEF FeedInOrder
<1>4. CASE TakeRow
  <2> DEFINE e == [kind |-> Table, id |-> mark[Table] + 1]
             last == Len(sent) + 1
  <2>1. /\ Table \in Kinds /\ mark[Table] \in Nat
        /\ mark' = [mark EXCEPT ![Table] = mark[Table] + 1] /\ sent' = Append(sent, e)
        /\ e \in Event /\ UNCHANGED faults /\ mark \in [Kinds -> Nat \cup {None}]
    BY <1>4, TakeRowFacts DEF FeedInv, TypeOK, RowsOK
  <2>2. e.kind = Table /\ e.id = mark[Table] + 1 /\ mark'[Table] = mark[Table] + 1
        /\ \A k \in Kinds : k # Table => mark'[k] = mark[k]
    BY <2>1
  <2> HIDE DEF e
  <2>3. /\ DOMAIN sent' = 1 .. last /\ sent'[last] = e /\ DOMAIN sent = 1 .. Len(sent)
        /\ Len(sent) \in Nat /\ \A i \in DOMAIN sent : sent'[i] = sent[i]
    BY <1>0, <2>1, FeedGrows
  <2>4. ASSUME NEW i \in DOMAIN sent', NEW j \in DOMAIN sent', i < j, sent'[j].kind = sent'[i].kind
        PROVE  sent'[i].id < sent'[j].id
    <3>1. i \in DOMAIN sent /\ sent'[i] = sent[i]
      BY <2>3, <2>4
    <3>2. CASE j = last
      <4>1. sent[i].kind = Table /\ sent[i].id <= mark[Table]
        BY <1>0, <2>2, <2>3, <2>4, <3>1, <3>2 DEF FeedInOrder
      <4> QED
        BY <1>0, <2>1, <2>2, <2>3, <3>1, <3>2, <4>1
    <3>3. CASE j # last
      <4>1. j \in DOMAIN sent /\ sent'[j] = sent[j]
        BY <2>3, <3>3
      <4> QED
        BY <1>0, <2>4, <3>1, <4>1 DEF FeedInOrder
    <3> QED
      BY <3>2, <3>3
  <2>5. ASSUME NEW i \in DOMAIN sent'
        PROVE  sent'[i].id <= mark'[sent'[i].kind]
    <3>1. CASE i = last
      BY <2>1, <2>2, <2>3, <3>1
    <3>2. CASE i # last
      <4>1. i \in DOMAIN sent /\ sent'[i] = sent[i] /\ sent[i].id <= mark[sent[i].kind]
        BY <1>0, <2>3, <3>2 DEF FeedInOrder
      <4> QED
        BY <1>0, <2>1, <2>2, <4>1
    <3> QED
      BY <3>1, <3>2
  <2>6. ASSUME NEW i \in DOMAIN sent', faults' = 0, NEW n \in sent'[i].id .. mark'[sent'[i].kind]
        PROVE  \E j \in DOMAIN sent' : sent'[j] = [kind |-> sent'[i].kind, id |-> n]
    <3> DEFINE k == sent'[i].kind
    <3>1. CASE k = Table /\ n = mark[Table] + 1
      <4>1. sent'[last] = [kind |-> k, id |-> n] /\ last \in DOMAIN sent'
        BY <2>3, <3>1 DEF e
      <4> QED
        BY <4>1
    <3>2. CASE ~(k = Table /\ n = mark[Table] + 1)
      <4>1. i # last
        BY <2>1, <2>2, <2>3, <2>6, <3>2
      <4>2. i \in DOMAIN sent /\ sent'[i] = sent[i] /\ k \in Kinds /\ mark[k] \in Nat /\ sent[i].id \in Nat
        BY <1>0, <2>3, <4>1
      <4>3. n \in sent[i].id .. mark[k]
        BY <2>1, <2>2, <2>6, <3>2, <4>2
      <4>4. PICK j \in DOMAIN sent : sent[j] = [kind |-> k, id |-> n]
        BY <1>0, <2>1, <2>6, <4>2, <4>3 DEF FeedInOrder
      <4> QED
        BY <2>3, <4>4
    <3> QED
      BY <3>1, <3>2
  <2> QED
    BY <2>4, <2>5, <2>6 DEF FeedInOrder
<1>5. CASE Initialize \/ Restart
  BY <1>1, <1>5, InitializeFacts DEF Restart, castVars
<1>6. CASE Fetch \/ FetchFails \/ EndPoll \/ Push
  <2>1. UNCHANGED <<mark, sent>> /\ faults' \in {faults, faults + 1}
    BY <1>6, FetchFacts, PollEnds DEF Push, castVars
  <2> QED
    BY <1>2, <2>1
<1> QED
  BY <1>2, <1>3, <1>4, <1>5, <1>6, QuietSteps

-----------------------------------------------------------------------------
(* The connections.                                                        *)

\* The feed grows behind what a client has seen of it.
LEMMA FollowsGrown ==
  ASSUME NEW T, NEW feed \in Seq(T), NEW e \in T, NEW seen \in Seq(T), NEW start \in Nat,
         Follows(seen, start, feed)
  PROVE  Follows(seen, start, Append(feed, e))
<1>1. Len(Append(feed, e)) = Len(feed) + 1 /\ Len(feed) \in Nat /\ Len(seen) \in Nat
      /\ \A i \in 1 .. Len(feed) : Append(feed, e)[i] = feed[i]
  BY AppendProperties
<1>2. \A i \in 1 .. Len(seen) : start + i \in 1 .. Len(feed)
  BY <1>1 DEF Follows
<1> QED
  BY <1>1, <1>2 DEF Follows

\* A client sees the next event of the feed.
LEMMA FollowsOn ==
  ASSUME NEW T, NEW feed \in Seq(T), NEW seen \in Seq(T), NEW start \in Nat,
         Follows(seen, start, feed), start + Len(seen) + 1 = Len(feed), feed[Len(feed)] \in T
  PROVE  /\ Follows(Append(seen, feed[Len(feed)]), start, feed)
         /\ Len(Append(seen, feed[Len(feed)])) = Len(seen) + 1
<1> DEFINE e == feed[Len(feed)]
           more == Append(seen, e)
<1>1. more \in Seq(T) /\ Len(more) = Len(seen) + 1 /\ Len(seen) \in Nat /\ Len(feed) \in Nat
      /\ more[Len(seen) + 1] = e /\ \A i \in 1 .. Len(seen) : more[i] = seen[i]
  BY AppendProperties
<1>2. feed[start + (Len(seen) + 1)] = e
  BY <1>1
<1> HIDE DEF e, more
<1>3. \A i \in 1 .. Len(more) : more[i] = feed[start + i]
  BY <1>1, <1>2, SMTT(30) DEF Follows
<1> QED
  BY <1>1, <1>3 DEF Follows, more, e

\* Two ways to add an event to what a client got and what waits for it.
LEMMA Waiting ==
  ASSUME NEW T, NEW g \in Seq(T), NEW q \in Seq(T), NEW e \in T
  PROVE  /\ g \o Append(q, e) = Append(g \o q, e)
         /\ Len(g \o q) = Len(g) + Len(q) /\ g \o q \in Seq(T)
         /\ q # <<>> => /\ Append(g, Head(q)) \o Tail(q) = g \o q
                        /\ Len(Append(g, Head(q))) + Len(Tail(q)) = Len(g) + Len(q)
         /\ g \o <<>> = g
<1>1. g \o q \in Seq(T) /\ Len(g \o q) = Len(g) + Len(q) /\ Len(g) \in Nat /\ Len(q) \in Nat
  BY ConcatProperties
<1>2. g \o <<>> = g
  BY ConcatEmptySeq
<1>3. g \o Append(q, e) = Append(g \o q, e)
  <2>1. <<e>> \in Seq(T) /\ Append(q, e) = q \o <<e>> /\ Append(g \o q, e) = (g \o q) \o <<e>>
    BY <1>1, AppendIsConcat
  <2> QED
    BY <2>1, ConcatAssociative
<1>4. ASSUME q # <<>>
      PROVE  /\ Append(g, Head(q)) \o Tail(q) = g \o q
             /\ Len(Append(g, Head(q))) + Len(Tail(q)) = Len(g) + Len(q)
  <2>1. /\ Head(q) \in T /\ Tail(q) \in Seq(T) /\ Len(Tail(q)) = Len(q) - 1
        /\ q = <<Head(q)>> \o Tail(q)
    BY <1>4, HeadTailProperties
  <2>2. <<Head(q)>> \in Seq(T) /\ Append(g, Head(q)) = g \o <<Head(q)>>
        /\ Len(Append(g, Head(q))) = Len(g) + 1
    BY <2>1, AppendIsConcat, AppendProperties
  <2>3. (g \o <<Head(q)>>) \o Tail(q) = g \o (<<Head(q)>> \o Tail(q))
    BY <2>1, <2>2, ConcatAssociative
  <2> QED
    BY <1>1, <2>1, <2>2, <2>3
<1> QED
  BY <1>1, <1>2, <1>3, <1>4

SocketStep == \E s \in Sockets : Send(s) \/ Accept(s) \/ Join(s) \/ Lose(s) \/ Leave(s)
StreamStep == \E q \in Streams : Subscribe(q) \/ EnterStream(q) \/ Deliver(q) \/ Abandon(q)

\* What the steps of the others leave to the sockets, and to the streams.
LEMMA SocketsAlone ==
  ASSUME FeedInv, Step, ~SocketStep, ~TakeRow, ~Restart
  PROVE  /\ UNCHANGED <<sent, todo>> /\ active' \subseteq active
         /\ \A s \in Sockets : conn'[s] = conn[s] /\ got'[s] = got[s] /\ from'[s] = from[s]
<1>0. ConnOK /\ SeenOK /\ Sockets \cap Streams = {}
  BY RealtimeAssumption DEF FeedInv, TypeOK
<1>1. CASE Initialize \/ Fetch \/ FetchFails \/ EndPoll \/ LookupFails
  <2>1. UNCHANGED <<clientVars, castVars>>
    BY <1>1, InitializeFacts, FetchFacts, PollEnds, LookupFailsFacts
  <2> QED
    BY <2>1 DEF clientVars, castVars
<1>2. CASE \/ \E k \in Kinds : Insert(k)
           \/ Push \/ Broken \/ UNCHANGED vars
  BY <1>2 DEF Insert, Push, Broken, vars, clientVars, castVars
<1>3. ASSUME NEW q \in Streams, Subscribe(q) \/ EnterStream(q) \/ Deliver(q)
      PROVE  /\ UNCHANGED <<sent, todo, active>>
             /\ \A s \in Sockets : conn'[s] = conn[s] /\ got'[s] = got[s] /\ from'[s] = from[s]
  BY <1>0, <1>3 DEF Subscribe, EnterStream, Deliver, castVars, ConnOK, SeenOK, Clients
<1>4. ASSUME NEW q \in Streams, Abandon(q)
      PROVE  /\ UNCHANGED <<sent, todo, active>>
             /\ \A s \in Sockets : conn'[s] = conn[s] /\ got'[s] = got[s] /\ from'[s] = from[s]
  BY <1>0, <1>4 DEF Abandon, Forget, castVars, ConnOK, SeenOK, Clients
<1> QED
  BY <1>1, <1>2, <1>3, <1>4 DEF Step, ServerStep, WatcherStep, SocketStep

LEMMA StreamsAlone ==
  ASSUME FeedInv, Step, ~StreamStep, ~TakeRow, ~Push, ~Restart
  PROVE  /\ UNCHANGED <<sent, pushed, subs, queue>>
         /\ \A q \in Streams : conn'[q] = conn[q] /\ got'[q] = got[q] /\ from'[q] = from[q]
<1>0. ConnOK /\ SeenOK /\ Sockets \cap Streams = {}
  BY RealtimeAssumption DEF FeedInv, TypeOK
<1>1. CASE Initialize \/ Fetch \/ FetchFails \/ EndPoll \/ LookupFails
  <2>1. UNCHANGED <<clientVars, castVars>>
    BY <1>1, InitializeFacts, FetchFacts, PollEnds, LookupFailsFacts
  <2> QED
    BY <2>1 DEF clientVars, castVars
<1>2. CASE (\E k \in Kinds : Insert(k)) \/ Broken \/ UNCHANGED vars
  BY <1>2 DEF Insert, Broken, vars, clientVars, castVars
<1>3. ASSUME NEW s \in Sockets, Send(s)
      PROVE  /\ UNCHANGED <<sent, pushed, subs, queue, conn, from>>
             /\ \A q \in Streams : got'[q] = got[q]
  <2>1. got' = got \/ got' = [got EXCEPT ![s] = Append(@, Last(sent))]
    BY <1>3 DEF Send, SendTo
  <2>2. \A q \in Streams : q # s /\ q \in Clients
    BY <1>0 DEF Clients
  <2>3. \A q \in Streams : got'[q] = got[q]
    BY <1>0, <2>1, <2>2 DEF SeenOK
  <2> QED
    BY <1>3, <2>3 DEF Send, SendTo
<1>4. ASSUME NEW s \in Sockets, Accept(s) \/ Join(s) \/ Lose(s)
      PROVE  /\ UNCHANGED <<sent, pushed, subs, queue>>
             /\ \A q \in Streams : conn'[q] = conn[q] /\ got'[q] = got[q] /\ from'[q] = from[q]
  BY <1>0, <1>4 DEF Accept, Join, Lose, castVars, ConnOK, SeenOK, Clients
<1>5. ASSUME NEW s \in Sockets, Leave(s)
      PROVE  /\ UNCHANGED <<sent, pushed, subs, queue>>
             /\ \A q \in Streams : conn'[q] = conn[q] /\ got'[q] = got[q] /\ from'[q] = from[q]
  BY <1>0, <1>5 DEF Leave, Forget, castVars, ConnOK, SeenOK, Clients
<1> QED
  BY <1>1, <1>2, <1>3, <1>4, <1>5 DEF Step, ServerStep, WatcherStep, StreamStep

\* A socket the broadcast has come to lacks just the event that is sent to it.
LEMMA SendFacts ==
  ASSUME FeedInv, NEW s \in Sockets, Send(s)
  PROVE  /\ s \in todo /\ s \in active /\ watch.pc = "send" /\ todo' = todo \ {s}
         /\ UNCHANGED <<watch, active, subs, queue, conn, from, sent, pushed>>
         /\ \A r \in Sockets : r # s => got'[r] = got[r]
         /\ conn[s] # "open" => got'[s] = got[s]
         /\ conn[s] = "open" => /\ Follows(got'[s], from[s], sent)
                                /\ from[s] + Len(got'[s]) = Len(sent)
<1>0. SeenOK /\ s \in Clients /\ got[s] \in Seq(Event) /\ from[s] \in Nat /\ sent \in Seq(Event)
  BY DEF FeedInv, TypeOK, SeenOK, CastOK, Clients
<1>1. /\ s \in todo /\ watch.pc = "send" /\ todo' = todo \ {s}
      /\ UNCHANGED <<watch, active, subs, queue, conn, from, sent, pushed>>
  BY DEF Send, SendTo
<1>2. s \in active /\ sent # <<>>
  BY <1>0, <1>1 DEF FeedInv, CastInv, TypeOK, CastOK
<1>3. /\ conn[s] # "open" => got' = got
      /\ conn[s] = "open" => got' = [got EXCEPT ![s] = Append(got[s], sent[Len(sent)])]
  BY <1>2, LastOfFeed DEF Send, SendTo, FeedInv
<1>4. \A r \in Sockets : r # s => got'[r] = got[r]
  BY <1>0, <1>3 DEF SeenOK, Clients
<1>5. ASSUME conn[s] = "open"
      PROVE  Follows(got'[s], from[s], sent) /\ from[s] + Len(got'[s]) = Len(sent)
  <2>1. /\ from[s] + Len(got[s]) = Len(sent) - 1 /\ Follows(got[s], from[s], sent)
        /\ Len(got[s]) \in Nat /\ Len(sent) \in Nat
    BY <1>0, <1>1, <1>2, <1>5 DEF FeedInv, StreamIsComplete, SocketsInv
  <2>2. from[s] + Len(got[s]) + 1 = Len(sent) /\ sent[Len(sent)] \in Event
    BY <1>0, <1>2, <2>1, LastOfFeed DEF FeedInv
  <2>3. got'[s] = Append(got[s], sent[Len(sent)])
    BY <1>0, <1>3, <1>5 DEF SeenOK
  <2> DEFINE g == got[s]
             f == from[s]
  <2>4. g \in Seq(Event) /\ f \in Nat
    BY <1>0
  <2> HIDE DEF g, f
  <2>5. /\ Follows(Append(g, sent[Len(sent)]), f, sent)
        /\ Len(Append(g, sent[Len(sent)])) = Len(g) + 1
    BY <1>0, <2>1, <2>2, <2>4, FollowsOn DEF g, f
  <2> QED
    BY <1>0, <2>1, <2>2, <2>3, <2>5 DEF g, f
<1> QED
  BY <1>1, <1>2, <1>3, <1>4, <1>5

\* How a socket comes and goes.
LEMMA SocketFacts ==
  ASSUME FeedInv, NEW s \in Sockets, Accept(s) \/ Join(s) \/ Lose(s) \/ Leave(s)
  PROVE  /\ UNCHANGED <<sent, todo>>
         /\ \A r \in Sockets : r # s => /\ conn'[r] = conn[r] /\ got'[r] = got[r]
                                        /\ from'[r] = from[r]
         /\ active' \subseteq active \cup {s}
         /\ \/ /\ conn'[s] = "joining" /\ conn[s] = "out" /\ got'[s] = got[s] /\ from'[s] = from[s]
            \/ /\ conn'[s] = "open" /\ todo = {} /\ got'[s] = <<>> /\ from'[s] = Len(sent)
            \/ /\ conn'[s] = "leaving" /\ got'[s] = got[s] /\ from'[s] = from[s]
            \/ /\ conn'[s] = "out" /\ got'[s] = <<>> /\ from'[s] = 0
<1>0. ConnOK /\ SeenOK /\ CastInv
  BY DEF FeedInv, TypeOK
<1> USE <1>0 DEF ConnOK, SeenOK, Clients, castVars
<1>1. CASE Accept(s)
  BY <1>1 DEF Accept
<1>2. CASE Join(s)
  BY <1>2 DEF Join, Unlocked, CastInv
<1>3. CASE Lose(s)
  BY <1>3 DEF Lose
<1>4. CASE Leave(s)
  BY <1>4 DEF Leave, Forget
<1> QED
  BY <1>1, <1>2, <1>3, <1>4

LEMMA SocketsStep == FeedInv /\ Step => SocketsInv'
<1> SUFFICES ASSUME FeedInv, Step, NEW s \in Sockets
             PROVE  /\ conn'[s] \in {"out", "joining"} => got'[s] = <<>> /\ from'[s] = 0
                    /\ Follows(got'[s], from'[s], sent')
  BY DEF SocketsInv
<1>0. /\ conn[s] \in {"out", "joining"} => got[s] = <<>> /\ from[s] = 0
      /\ Follows(got[s], from[s], sent)
      /\ got[s] \in Seq(Event) /\ from[s] \in Nat /\ sent \in Seq(Event) /\ Len(sent) \in Nat
  BY DEF FeedInv, TypeOK, CastOK, SeenOK, SocketsInv, Clients
<1>e. \A n \in 0 .. Len(sent) : Follows(<<>>, n, sent)
  BY <1>0 DEF Follows
<1>1. CASE ~SocketStep /\ ~TakeRow /\ ~Restart
  BY <1>0, <1>1, SocketsAlone
<1>2. CASE TakeRow
  <2> DEFINE e == [kind |-> Table, id |-> mark[Table] + 1]
  <2>1. sent' = Append(sent, e) /\ e \in Event /\ UNCHANGED <<got, from, conn>>
    BY <1>2, TakeRowFacts DEF clientVars
  <2> HIDE DEF e
  <2>2. Follows(got[s], from[s], Append(sent, e))
    BY <1>0, <2>1, FollowsGrown
  <2> QED
    BY <1>0, <2>1, <2>2
<1>3. CASE Restart
  <2>1. got'[s] = <<>> /\ from'[s] = 0 /\ sent' = <<>>
    BY <1>3 DEF Restart, Clients
  <2> QED
    BY <2>1 DEF Follows
<1>4. ASSUME NEW r \in Sockets, Send(r)
      PROVE  /\ conn'[s] \in {"out", "joining"} => got'[s] = <<>> /\ from'[s] = 0
             /\ Follows(got'[s], from'[s], sent')
  BY <1>0, <1>4, SendFacts
<1>5. ASSUME NEW r \in Sockets, Accept(r) \/ Join(r) \/ Lose(r) \/ Leave(r)
      PROVE  /\ conn'[s] \in {"out", "joining"} => got'[s] = <<>> /\ from'[s] = 0
             /\ Follows(got'[s], from'[s], sent')
  BY <1>0, <1>e, <1>5, SocketFacts
<1> QED
  BY <1>1, <1>2, <1>3, <1>4, <1>5 DEF SocketStep

LEMMA CompleteStep ==
  FeedInv /\ Step =>
    \A s \in active' : conn'[s] = "open" =>
      from'[s] + Len(got'[s]) = IF s \in todo' THEN Len(sent') - 1 ELSE Len(sent')
<1> SUFFICES ASSUME FeedInv, Step, NEW s \in active', conn'[s] = "open"
             PROVE  from'[s] + Len(got'[s]) = IF s \in todo' THEN Len(sent') - 1 ELSE Len(sent')
  OBVIOUS
<1>0. /\ s \in Sockets /\ sent \in Seq(Event) /\ Len(sent) \in Nat
      /\ s \in active /\ conn[s] = "open" =>
           from[s] + Len(got[s]) = IF s \in todo THEN Len(sent) - 1 ELSE Len(sent)
  BY ConnStep DEF FeedInv, TypeOK, CastOK, ConnOK, StreamIsComplete
<1>1. CASE ~SocketStep /\ ~TakeRow /\ ~Restart
  BY <1>0, <1>1, SocketsAlone
<1>2. CASE TakeRow
  <2> DEFINE e == [kind |-> Table, id |-> mark[Table] + 1]
  <2>1. /\ sent' = Append(sent, e) /\ e \in Event /\ UNCHANGED <<got, from, conn, active>>
        /\ watch.pc = "row" /\ todo' = active
    BY <1>2, TakeRowFacts DEF clientVars
  <2> HIDE DEF e
  <2>2. todo = {} /\ Len(sent') = Len(sent) + 1
    BY <1>0, <2>1, AppendProperties DEF FeedInv, CastInv
  <2> QED
    BY <1>0, <2>1, <2>2
<1>3. CASE Restart
  BY <1>3 DEF Restart
<1>4. ASSUME NEW r \in Sockets, Send(r)
      PROVE  from'[s] + Len(got'[s]) = IF s \in todo' THEN Len(sent') - 1 ELSE Len(sent')
  BY <1>0, <1>4, SendFacts
<1>5. ASSUME NEW r \in Sockets, Accept(r) \/ Join(r) \/ Lose(r) \/ Leave(r)
      PROVE  from'[s] + Len(got'[s]) = IF s \in todo' THEN Len(sent') - 1 ELSE Len(sent')
  <2>1. CASE s = r
    <3>1. todo' = {} /\ got'[s] = <<>> /\ from'[s] = Len(sent) /\ sent' = sent
      BY <1>5, <2>1, SocketFacts
    <3>2. Len(got'[s]) = 0
      BY <3>1
    <3> QED
      BY <1>0, <3>1, <3>2
  <2>2. CASE s # r
    BY <1>0, <1>5, <2>2, SocketFacts
  <2> QED
    BY <2>1, <2>2
<1> QED
  BY <1>1, <1>2, <1>3, <1>4, <1>5 DEF SocketStep

\* An event is put in a queue; an event moves from the queue to its client.
LEMMA QueueOn ==
  ASSUME NEW T, NEW feed \in Seq(T), NEW g \in Seq(T), NEW w \in Seq(T), NEW start \in Nat,
         Follows(g \o w, start, feed), start + Len(g) + Len(w) + 1 = Len(feed),
         feed[Len(feed)] \in T
  PROVE  /\ Follows(g \o Append(w, feed[Len(feed)]), start, feed)
         /\ start + Len(g) + Len(Append(w, feed[Len(feed)])) = Len(feed)
<1> DEFINE e == feed[Len(feed)]
           seen == g \o w
<1>1. e \in T /\ seen \in Seq(T) /\ Len(seen) = Len(g) + Len(w) /\ g \o Append(w, e) = Append(seen, e)
  BY Waiting
<1>2. Len(g) \in Nat /\ Len(w) \in Nat /\ Len(Append(w, e)) = Len(w) + 1
  BY <1>1, AppendProperties
<1>3. start + Len(seen) + 1 = Len(feed)
  BY <1>1, <1>2
<1>4. Follows(Append(seen, e), start, feed)
  <2> HIDE DEF seen
  <2> QED
    BY <1>1, <1>3, FollowsOn DEF seen, e
<1> QED
  BY <1>1, <1>2, <1>4

LEMMA DeliverOn ==
  ASSUME NEW T, NEW g \in Seq(T), NEW w \in Seq(T), w # <<>>, NEW start \in Nat
  PROVE  /\ Append(g, Head(w)) \o Tail(w) = g \o w
         /\ start + Len(Append(g, Head(w))) + Len(Tail(w)) = start + Len(g) + Len(w)
<1>1. Head(w) \in T /\ Tail(w) \in Seq(T) /\ Len(Tail(w)) = Len(w) - 1 /\ Len(w) \in Nat
  BY HeadTailProperties
<1>2. Len(Append(g, Head(w))) = Len(g) + 1 /\ Len(g) \in Nat
  BY <1>1, AppendProperties
<1>3. start + Len(Append(g, Head(w))) + Len(Tail(w)) = start + Len(g) + Len(w)
  BY <1>1, <1>2
<1> QED
  BY <1>1, <1>3, Waiting

LEMMA StreamsStep == FeedInv /\ Step => StreamsInv'
<1> DEFINE Kept(q) ==
      /\ conn'[q] # "out" => Follows(got'[q] \o queue'[q], from'[q], sent')
      /\ conn'[q] # "out" /\ q \in subs' => from'[q] + Len(got'[q]) + Len(queue'[q]) = pushed'
<1> SUFFICES ASSUME FeedInv, Step, NEW q \in Streams PROVE Kept(q)
  BY DEF StreamsInv
<1>0. /\ conn[q] # "out" => Follows(got[q] \o queue[q], from[q], sent)
      /\ conn[q] # "out" /\ q \in subs => from[q] + Len(got[q]) + Len(queue[q]) = pushed
      /\ got[q] \in Seq(Event) /\ queue[q] \in Seq(Event) /\ from[q] \in Nat /\ pushed \in Nat
      /\ got[q] \o queue[q] \in Seq(Event) /\ Len(got[q] \o queue[q]) = Len(got[q]) + Len(queue[q])
      /\ sent \in Seq(Event) /\ Len(sent) \in Nat /\ Len(got[q]) \in Nat /\ Len(queue[q]) \in Nat
      /\ pushed <= Len(sent) /\ q \in Clients
  <2>1. /\ got[q] \in Seq(Event) /\ queue[q] \in Seq(Event) /\ from[q] \in Nat /\ pushed \in Nat
        /\ sent \in Seq(Event) /\ Len(sent) \in Nat /\ pushed <= Len(sent) /\ q \in Clients
    BY DEF FeedInv, TypeOK, CastOK, SeenOK, Clients
  <2>2. got[q] \o queue[q] \in Seq(Event) /\ Len(got[q] \o queue[q]) = Len(got[q]) + Len(queue[q])
    BY <2>1, ConcatProperties
  <2> QED
    BY <2>1, <2>2 DEF FeedInv, StreamsInv
<1>1. CASE ~StreamStep /\ ~TakeRow /\ ~Push /\ ~Restart
  BY <1>0, <1>1, StreamsAlone
<1>2. CASE TakeRow
  <2> DEFINE e == [kind |-> Table, id |-> mark[Table] + 1]
             seen == got[q] \o queue[q]
  <2>1. /\ sent' = Append(sent, e) /\ e \in Event
        /\ UNCHANGED <<got, from, conn, subs, queue, pushed>>
    BY <1>2, TakeRowFacts DEF clientVars
  <2>2. seen \in Seq(Event)
    BY <1>0
  <2> HIDE DEF e, seen
  <2>3. Follows(seen, from[q], sent) => Follows(seen, from[q], Append(sent, e))
    BY <1>0, <2>1, <2>2, FollowsGrown
  <2> QED
    BY <1>0, <2>1, <2>3 DEF seen
<1>3. CASE Push
  <2> DEFINE e == sent[Len(sent)]
  <2>1. /\ UNCHANGED <<got, from, conn, sent>> /\ subs' = subs \ Full /\ pushed' = Len(sent)
        /\ queue'[q] = IF q \in subs \ Full THEN Append(queue[q], Last(sent)) ELSE queue[q]
    BY <1>3 DEF Push, Offered
  <2>2. pushed + 1 = Len(sent) /\ sent # <<>>
    BY <1>0, <1>3 DEF Push, FeedInv, CastInv
  <2>3. Last(sent) = e /\ e \in Event
    BY <2>2, LastOfFeed DEF FeedInv
  <2>4. CASE q \in subs \ Full /\ conn[q] # "out"
    <3> DEFINE g == got[q]
               w == queue[q]
               f == from[q]
    <3>1. queue'[q] = Append(w, e) /\ got'[q] = g /\ from'[q] = f
      BY <2>1, <2>3, <2>4
    <3>2. /\ g \in Seq(Event) /\ w \in Seq(Event) /\ f \in Nat
          /\ Follows(g \o w, f, sent) /\ f + Len(g) + Len(w) + 1 = Len(sent)
          /\ sent \in Seq(Event) /\ sent[Len(sent)] \in Event
      BY <1>0, <2>2, <2>3, <2>4
    <3> HIDE DEF g, w, f
    <3>3. Follows(g \o Append(w, e), f, sent) /\ f + Len(g) + Len(Append(w, e)) = Len(sent)
      BY <3>2, QueueOn
    <3> HIDE DEF e
    <3> QED
      BY <2>1, <3>1, <3>3
  <2>5. CASE q \notin subs \ Full \/ conn[q] = "out"
    BY <1>0, <2>1, <2>5
  <2> QED
    BY <2>4, <2>5
<1>4. CASE Restart
  BY <1>4 DEF Restart, Clients
<1>5. ASSUME NEW r \in Streams, Subscribe(r) PROVE Kept(q)
  <2>1. /\ UNCHANGED <<sent, pushed>> /\ subs' = subs \cup {r} /\ queue' = [queue EXCEPT ![r] = <<>>]
        /\ got' = [got EXCEPT ![r] = <<>>] /\ from' = [from EXCEPT ![r] = pushed]
        /\ conn' = [conn EXCEPT ![r] = "greeting"]
    BY <1>5 DEF Subscribe, castVars
  <2>2. ConnOK /\ SeenOK
    BY DEF FeedInv, TypeOK
  <2>3. CASE q = r
    <3>1. queue'[q] = <<>> /\ got'[q] = <<>> /\ from'[q] = pushed
      BY <1>0, <2>1, <2>2, <2>3 DEF SeenOK
    <3> DEFINE none == <<>>
    <3>2. none \o none = none /\ Len(none) = 0
      OBVIOUS
    <3>3. got'[q] = none /\ queue'[q] = none
      BY <3>1
    <3> HIDE DEF none
    <3>4. Follows(none, pushed, sent)
      BY <1>0, <3>2 DEF Follows
    <3>5. from'[q] + Len(got'[q]) + Len(queue'[q]) = pushed'
      BY <1>0, <2>1, <3>1, <3>2, <3>3
    <3>6. Follows(got'[q] \o queue'[q], from'[q], sent')
      BY <2>1, <3>1, <3>2, <3>3, <3>4
    <3> QED
      BY <3>5, <3>6
  <2>4. CASE q # r
    BY <1>0, <2>1, <2>2, <2>4 DEF ConnOK, SeenOK
  <2> QED
    BY <2>3, <2>4
<1>6. ASSUME NEW r \in Streams, EnterStream(r) PROVE Kept(q)
  <2>1. UNCHANGED <<sent, pushed, subs, queue, got, from>> /\ (conn'[q] # "out" => conn[q] # "out")
    BY <1>0, <1>6 DEF EnterStream, castVars, FeedInv, TypeOK, ConnOK
  <2> QED
    BY <1>0, <2>1
<1>7. ASSUME NEW r \in Streams, Deliver(r) PROVE Kept(q)
  <2>1. /\ UNCHANGED <<sent, pushed, subs, from, conn>> /\ queue[r] # <<>>
        /\ got' = [got EXCEPT ![r] = Append(got[r], Head(queue[r]))]
        /\ queue' = [queue EXCEPT ![r] = Tail(queue[r])]
    BY <1>7 DEF Deliver, castVars
  <2>2. SeenOK
    BY DEF FeedInv, TypeOK
  <2>3. CASE q = r
    <3> DEFINE g == got[q]
               w == queue[q]
               f == from[q]
    <3>1. got'[q] = Append(g, Head(w)) /\ queue'[q] = Tail(w) /\ from'[q] = f
      BY <1>0, <2>1, <2>2, <2>3 DEF SeenOK
    <3>2. g \in Seq(Event) /\ w \in Seq(Event) /\ w # <<>> /\ f \in Nat
      BY <1>0, <2>1, <2>3
    <3>3. /\ conn[q] # "out" => Follows(g \o w, f, sent)
          /\ conn[q] # "out" /\ q \in subs => f + Len(g) + Len(w) = pushed
      BY <1>0
    <3> HIDE DEF g, w, f
    <3>4. /\ Append(g, Head(w)) \o Tail(w) = g \o w
          /\ f + Len(Append(g, Head(w))) + Len(Tail(w)) = f + Len(g) + Len(w)
      BY <3>2, DeliverOn
    <3> QED
      BY <2>1, <3>1, <3>3, <3>4
  <2>4. CASE q # r
    BY <1>0, <2>1, <2>2, <2>4 DEF SeenOK
  <2> QED
    BY <2>3, <2>4
<1>8. ASSUME NEW r \in Streams, Abandon(r) PROVE Kept(q)
  <2>1. /\ UNCHANGED <<sent, pushed>> /\ subs' \subseteq subs
        /\ queue' = queue \/ queue' = [queue EXCEPT ![r] = <<>>]
        /\ got' = [got EXCEPT ![r] = <<>>] /\ from' = [from EXCEPT ![r] = 0]
        /\ conn' = [conn EXCEPT ![r] = "out"]
    BY <1>8 DEF Abandon, Forget, castVars
  <2>2. ConnOK /\ SeenOK
    BY DEF FeedInv, TypeOK
  <2>3. CASE q = r
    BY <1>0, <2>1, <2>2, <2>3 DEF ConnOK
  <2>4. CASE q # r
    <3>1. got'[q] = got[q] /\ from'[q] = from[q] /\ conn'[q] = conn[q] /\ queue'[q] = queue[q]
      BY <1>0, <2>1, <2>2, <2>4 DEF ConnOK, SeenOK
    <3> QED
      BY <1>0, <2>1, <3>1
  <2> QED
    BY <2>3, <2>4
<1> QED
  BY <1>1, <1>2, <1>3, <1>4, <1>5, <1>6, <1>7, <1>8 DEF StreamStep

-----------------------------------------------------------------------------
(* The theorems about the backend.                                         *)

LEMMA FeedStep == FeedInv /\ Step => FeedInv'
<1> SUFFICES ASSUME FeedInv, Step PROVE FeedInv'
  OBVIOUS
<1>1. TypeOK' /\ WatchInv' /\ CastInv' /\ FeedInOrder' /\ SocketsInv' /\ StreamsInv'
  BY TypeStep, WatchStep, CastStep, OrderStep, SocketsStep, StreamsStep
<1>2. StreamIsComplete'
  <2>1. subs' \subseteq Streams
    BY <1>1 DEF TypeOK, ConnOK
  <2> QED
    BY <1>1, <2>1, CompleteStep DEF StreamIsComplete, StreamsInv
<1> QED
  BY <1>1, <1>2 DEF FeedInv

\* The backend's part of the live feed keeps its invariant, whatever the
\* connections, the other processes, the faults and the pages do.
THEOREM FeedInvariant == Spec => []FeedInv
<1>1. Init => FeedInv
  BY FeedInit DEF Init
<1>2. FeedInv /\ [Next]_feedVars => FeedInv'
  BY NextSplits, FeedStep DEF Step, feedVars
<1> QED
  BY <1>1, <1>2, PTL DEF Spec

\* Every connected client was sent an unbroken stretch of the feed
\* (ConnectionManager.broadcast, events.py): nothing is left out, doubled or
\* reordered, whoever else connects, stalls or breaks off.
THEOREM ClientsFollowFeed == Spec => []StreamIsSegment
<1>1. ASSUME NEW T, NEW feed \in Seq(T), NEW seen \in Seq(T), NEW start \in Nat,
             Follows(seen, start, feed)
      PROVE  seen = SubSeq(feed, start + 1, start + Len(seen))
  <2> DEFINE part == SubSeq(feed, start + 1, start + Len(seen))
  <2>1. Len(seen) \in Nat /\ Len(feed) \in Nat /\ start + Len(seen) <= Len(feed)
        /\ \A i \in 1 .. Len(seen) : seen[i] = feed[start + i]
    BY <1>1 DEF Follows
  <2>2. \A i \in start + 1 .. start + Len(seen) : feed[i] \in T
    <3>1. \A i \in start + 1 .. start + Len(seen) : i \in 1 .. Len(feed)
      BY <2>1
    <3> QED
      BY <3>1
  <2>3. /\ part \in Seq(T) /\ Len(part) = Len(seen)
        /\ \A i \in 1 .. Len(seen) : part[i] = feed[start + i]
    <3>1. start + 1 \in Int /\ start + Len(seen) \in Int
      BY <2>1
    <3>2. /\ part \in Seq(T)
          /\ Len(part) = IF start + 1 <= start + Len(seen) THEN start + Len(seen) - (start + 1) + 1 ELSE 0
          /\ \A i \in 1 .. Len(part) : part[i] = feed[start + 1 + i - 1]
      BY <2>2, <3>1, SubSeqProperties
    <3>3. Len(part) = Len(seen)
      BY <2>1, <3>2
    <3>4. \A i \in 1 .. Len(seen) : start + 1 + i - 1 = start + i
      BY <2>1
    <3> HIDE DEF part
    <3> QED
      BY <3>2, <3>3, <3>4
  <2> HIDE DEF part
  <2>4. seen = part
    BY <2>1, <2>3, SeqEqual
  <2> QED
    BY <2>4 DEF part
<1>2. FeedInv => StreamIsSegment
  <2> SUFFICES ASSUME FeedInv, NEW c \in Clients, conn[c] # "out"
               PROVE  LET seen == IF c \in Streams THEN got[c] \o queue[c] ELSE got[c]
                      IN  seen = SubSeq(sent, from[c] + 1, from[c] + Len(seen))
    BY DEF StreamIsSegment
  <2>0. sent \in Seq(Event) /\ got[c] \in Seq(Event) /\ from[c] \in Nat
    BY DEF FeedInv, TypeOK, CastOK, SeenOK
  <2>1. CASE c \in Streams
    <3> DEFINE seen == got[c] \o queue[c]
    <3>1. seen \in Seq(Event) /\ Follows(seen, from[c], sent)
      <4>1. queue[c] \in Seq(Event)
        BY <2>1 DEF FeedInv, TypeOK, SeenOK
      <4> QED
        BY <2>0, <2>1, <4>1, ConcatProperties DEF FeedInv, StreamsInv
    <3> HIDE DEF seen
    <3>2. seen = SubSeq(sent, from[c] + 1, from[c] + Len(seen))
      BY <1>1, <2>0, <3>1
    <3> QED
      BY <2>1, <3>2 DEF seen
  <2>2. CASE c \notin Streams
    <3>1. c \in Sockets /\ Follows(got[c], from[c], sent)
      BY <2>2 DEF FeedInv, SocketsInv, Clients
    <3>2. got[c] = SubSeq(sent, from[c] + 1, from[c] + Len(got[c]))
      BY <1>1, <2>0, <3>1
    <3> QED
      BY <2>2, <3>2
  <2> QED
    BY <2>1, <2>2
<1> QED
  BY <1>2, FeedInvariant, PTL

\* And of what has been broadcast nothing is missing at its end, for a socket
\* that is open and for a queue that is subscribed.
THEOREM ClientsMissNothing == Spec => []StreamIsComplete
<1>1. FeedInv => StreamIsComplete
  BY DEF FeedInv
<1> QED
  BY <1>1, FeedInvariant, PTL

\* SqliteChangeWatcher broadcasts the rows of a table in the order of their
\* ids, each once; without a fault it skips none.
THEOREM FeedKeepsOrder == Spec => []FeedInOrder
<1>1. FeedInv => FeedInOrder
  BY DEF FeedInv
<1> QED
  BY <1>1, FeedInvariant, PTL

-----------------------------------------------------------------------------
(* The pages.                                                              *)

HookInv == Hook!HookTypeOK /\ OneSocketPerPage

\* A hook's connect: its socket goes, a fresh one comes.
LEMMA ConnectFacts ==
  ASSUME HookInv, NEW p \in Pages, NEW s \in Sockets, Hook!Connect(p, s)
  PROVE  /\ socket' \in [Sockets -> [state: {"none", "connecting", "open", "closing"},
                                     page: Pages \cup {None}]]
         /\ socketRef' \in [Pages -> Sockets \cup {None}]
         /\ OneSocketPerPage'
<1>0. /\ socket \in [Sockets -> [state: {"none", "connecting", "open", "closing"},
                                 page: Pages \cup {None}]]
      /\ socketRef \in [Pages -> Sockets \cup {None}]
  BY DEF HookInv, Hook!HookTypeOK
<1>1. /\ socket[s].state = "none" /\ socketRef' = [socketRef EXCEPT ![p] = s]
      /\ socket' = [Hook!CloseCurrent(p) EXCEPT ![s] = [state |-> "connecting", page |-> p]]
  BY DEF Hook!Connect
<1>2. \A t \in Sockets :
        socket'[t] = IF t = s THEN [state |-> "connecting", page |-> p]
                     ELSE IF t = socketRef[p] THEN [socket[t] EXCEPT !.state = "closing"]
                     ELSE socket[t]
  BY <1>1 DEF Hook!CloseCurrent
<1>3. socket' \in [Sockets -> [state: {"none", "connecting", "open", "closing"},
                               page: Pages \cup {None}]]
  <2>1. \A t \in Sockets : [socket[t] EXCEPT !.state = "closing"] \in
          [state: {"none", "connecting", "open", "closing"}, page: Pages \cup {None}]
    BY <1>0
  <2>2. socket' = [t \in Sockets |-> socket'[t]]
    BY <1>1 DEF Hook!CloseCurrent
  <2>3. [state |-> "connecting", page |-> p] \in
          [state: {"none", "connecting", "open", "closing"}, page: Pages \cup {None}]
    OBVIOUS
  <2>4. \A t \in Sockets : socket'[t] \in
          [state: {"none", "connecting", "open", "closing"}, page: Pages \cup {None}]
    BY <1>0, <1>2, <2>1, <2>3, ZenonT(60)
  <2> QED
    BY <2>2, <2>4
<1>4. socketRef' \in [Pages -> Sockets \cup {None}]
  BY <1>0, <1>1
<1>5. ASSUME NEW q \in Pages, NEW t \in Sockets, socket'[t].page = q,
             socket'[t].state \in {"connecting", "open"}
      PROVE  t = socketRef'[q]
  <2>1. CASE t = s
    <3>1. socket'[t] = [state |-> "connecting", page |-> p]
      BY <1>2, <2>1
    <3>2. q = p
      BY <1>5, <3>1
    <3> QED
      BY <1>0, <1>1, <2>1, <3>2
  <2>2. CASE t # s
    <3>1. t # socketRef[p] /\ socket'[t] = socket[t]
      BY <1>0, <1>2, <1>5, <2>2
    <3>2. t = socketRef[q]
      BY <1>5, <3>1 DEF HookInv, OneSocketPerPage, Hook!OneSocketPerPage, Hook!Live
    <3> QED
      BY <1>0, <1>1, <3>1, <3>2
  <2> QED
    BY <2>1, <2>2
<1>6. OneSocketPerPage'
  BY <1>5 DEF OneSocketPerPage, Hook!OneSocketPerPage, Hook!Live
<1> QED
  BY <1>3, <1>4, <1>6

LEMMA SpareFacts == Spare # {} => New \in Sockets
  BY DEF New, Spare

\* The current socket of a page goes and none comes.
LEMMA CloseFacts ==
  ASSUME HookInv, NEW p \in Pages,
         socket' = Hook!CloseCurrent(p), socketRef' = [socketRef EXCEPT ![p] = None]
  PROVE  /\ socket' \in [Sockets -> [state: {"none", "connecting", "open", "closing"},
                                     page: Pages \cup {None}]]
         /\ socketRef' \in [Pages -> Sockets \cup {None}]
         /\ OneSocketPerPage'
<1> DEFINE Browser == [state: {"none", "connecting", "open", "closing"}, page: Pages \cup {None}]
<1>0. socket \in [Sockets -> Browser] /\ socketRef \in [Pages -> Sockets \cup {None}]
  BY DEF HookInv, Hook!HookTypeOK
<1>1. \A t \in Sockets :
        socket'[t] = IF t = socketRef[p] THEN [socket[t] EXCEPT !.state = "closing"] ELSE socket[t]
  BY DEF Hook!CloseCurrent
<1>2. socket' \in [Sockets -> Browser]
  <2>1. \A t \in Sockets : [socket[t] EXCEPT !.state = "closing"] \in Browser
    BY <1>0
  <2> QED
    BY <1>0, <2>1 DEF Hook!CloseCurrent
<1>3. socketRef' \in [Pages -> Sockets \cup {None}]
  BY <1>0
<1>4. ASSUME NEW q \in Pages, NEW t \in Sockets, socket'[t].page = q,
             socket'[t].state \in {"connecting", "open"}
      PROVE  t = socketRef'[q]
  <2>1. t # socketRef[p] /\ socket'[t] = socket[t]
    BY <1>0, <1>1, <1>4
  <2>2. t = socketRef[q]
    BY <1>4, <2>1 DEF HookInv, OneSocketPerPage, Hook!OneSocketPerPage, Hook!Live
  <2> QED
    BY <1>0, <2>1, <2>2
<1>5. OneSocketPerPage'
  BY <1>4 DEF OneSocketPerPage, Hook!OneSocketPerPage, Hook!Live
<1> QED
  BY <1>2, <1>3, <1>5

\* An attempt to connect, which may throw.
Attempts(p) == Hook!ConnectThrows(p) \/ (New \in Sockets /\ Hook!Connect(p, New))

LEMMA AttemptFacts ==
  ASSUME HookInv, NEW p \in Pages, Attempts(p)
  PROVE  /\ socket' \in [Sockets -> [state: {"none", "connecting", "open", "closing"},
                                     page: Pages \cup {None}]]
         /\ socketRef' \in [Pages -> Sockets \cup {None}]
         /\ isConnected' \in [Pages -> BOOLEAN] /\ threw' \in [Pages -> BOOLEAN]
         /\ OneSocketPerPage'
<1>1. isConnected \in [Pages -> BOOLEAN] /\ threw \in [Pages -> BOOLEAN]
  BY DEF HookInv, Hook!HookTypeOK
<1>2. CASE Hook!ConnectThrows(p)
  <2>1. /\ socket' = Hook!CloseCurrent(p) /\ socketRef' = [socketRef EXCEPT ![p] = None]
        /\ isConnected' = [isConnected EXCEPT ![p] = FALSE] /\ threw' = [threw EXCEPT ![p] = TRUE]
    BY <1>2 DEF Hook!ConnectThrows
  <2> QED
    BY <1>1, <2>1, CloseFacts
<1>3. CASE New \in Sockets /\ Hook!Connect(p, New)
  <2>1. UNCHANGED <<isConnected, threw>>
    BY <1>3 DEF Hook!Connect
  <2> QED
    BY <1>1, <1>3, <2>1, ConnectFacts
<1> QED
  BY <1>2, <1>3 DEF Attempts

\* What else changes when the effect runs, and when a timer fires.
EffectRuns(p) ==
  /\ ~mounted[p] /\ mounts[p] < MaxMounts
  /\ mounted' = [mounted EXCEPT ![p] = TRUE]
  /\ mounts' = [mounts EXCEPT ![p] = mounts[p] + 1]
  /\ UNCHANGED <<timers, lastTimer>>

TimerRuns(p) ==
  /\ timers[p] > 0
  /\ timers' = [timers EXCEPT ![p] = timers[p] - 1]
  /\ \E last \in BOOLEAN :
       /\ last => lastTimer[p]
       /\ ~last => timers[p] > (IF lastTimer[p] THEN 1 ELSE 0)
       /\ lastTimer' = [lastTimer EXCEPT ![p] = lastTimer[p] /\ ~last]
  /\ UNCHANGED <<mounted, mounts>>

LEMMA AttemptSplits ==
  ASSUME PageMounts \/ TimerFires \/ ConstructorThrows
  PROVE  \E p \in Pages : Attempts(p) /\ (EffectRuns(p) \/ TimerRuns(p))
<1>1. CASE PageMounts
  <2>1. PICK p \in Pages : Hook!Mount(p, Hook!Connect(p, New)) /\ Spare # {}
    BY <1>1 DEF PageMounts
  <2>2. Attempts(p) /\ EffectRuns(p)
    BY <2>1, SpareFacts DEF Hook!Mount, Attempts, EffectRuns
  <2> QED
    BY <2>2
<1>2. CASE TimerFires
  <2>1. PICK p \in Pages : Hook!Reconnect(p, Hook!Connect(p, New)) /\ Spare # {}
    BY <1>2 DEF TimerFires
  <2>2. Attempts(p) /\ TimerRuns(p)
    BY <2>1, SpareFacts DEF Hook!Reconnect, Attempts, TimerRuns
  <2> QED
    BY <2>2
<1>3. CASE ConstructorThrows
  <2>1. PICK p \in Pages : \/ Hook!Mount(p, Hook!ConnectThrows(p))
                           \/ Hook!Reconnect(p, Hook!ConnectThrows(p))
    BY <1>3 DEF ConstructorThrows
  <2>2. CASE Hook!Mount(p, Hook!ConnectThrows(p))
    <3>1. Attempts(p) /\ EffectRuns(p)
      BY <2>2 DEF Hook!Mount, Attempts, EffectRuns
    <3> QED
      BY <3>1
  <2>3. CASE Hook!Reconnect(p, Hook!ConnectThrows(p))
    <3>1. Attempts(p) /\ TimerRuns(p)
      BY <2>3 DEF Hook!Reconnect, Attempts, TimerRuns
    <3> QED
      BY <3>1
  <2> QED
    BY <2>1, <2>2, <2>3
<1> QED
  BY <1>1, <1>2, <1>3

LEMMA HookStep == HookInv /\ [Next]_feedVars => HookInv'
<1> SUFFICES ASSUME HookInv, [Next]_feedVars PROVE HookInv'
  OBVIOUS
<1> DEFINE Browser == [state: {"none", "connecting", "open", "closing"}, page: Pages \cup {None}]
<1>0. /\ mounted \in [Pages -> BOOLEAN] /\ lastTimer \in [Pages -> BOOLEAN]
      /\ mounts \in [Pages -> 0 .. MaxMounts] /\ socketRef \in [Pages -> Sockets \cup {None}]
      /\ isConnected \in [Pages -> BOOLEAN] /\ threw \in [Pages -> BOOLEAN]
      /\ timers \in [Pages -> Nat] /\ \A p \in Pages : lastTimer[p] => timers[p] > 0
      /\ socket \in [Sockets -> Browser] /\ MaxMounts \in Nat
  BY LiveFeedAssumption DEF HookInv, Hook!HookTypeOK
<1>1. CASE UNCHANGED hookVars
  BY <1>1 DEF hookVars, HookInv, Hook!HookTypeOK, OneSocketPerPage, Hook!OneSocketPerPage, Hook!Live
<1>2. ASSUME NEW p \in Pages, Attempts(p), EffectRuns(p) PROVE HookInv'
  <2>1. mounted' \in [Pages -> BOOLEAN]
    BY <1>0, <1>2 DEF EffectRuns
  <2>2. mounts' \in [Pages -> 0 .. MaxMounts]
    BY <1>0, <1>2 DEF EffectRuns
  <2>3. UNCHANGED <<timers, lastTimer>>
    BY <1>2 DEF EffectRuns
  <2> QED
    BY <1>0, <1>2, <2>1, <2>2, <2>3, AttemptFacts DEF HookInv, Hook!HookTypeOK
<1>3. CASE PageUnmounts
  <2> PICK p \in Pages : Hook!Unmount(p)
    BY <1>3 DEF PageUnmounts
  <2>1. /\ mounted' = [mounted EXCEPT ![p] = FALSE]
        /\ timers' = IF lastTimer[p] THEN [timers EXCEPT ![p] = timers[p] - 1] ELSE timers
        /\ lastTimer' = [lastTimer EXCEPT ![p] = FALSE]
        /\ socket' = Hook!CloseCurrent(p)
        /\ socketRef' = [socketRef EXCEPT ![p] = None]
        /\ UNCHANGED <<mounts, isConnected, threw>>
    BY DEF Hook!Unmount
  <2>2. mounted' \in [Pages -> BOOLEAN] /\ lastTimer' \in [Pages -> BOOLEAN]
    BY <1>0, <2>1
  <2>3. timers' \in [Pages -> Nat]
    BY <1>0, <2>1
  <2>4. \A q \in Pages : lastTimer'[q] => timers'[q] > 0
    BY <1>0, <2>1
  <2> QED
    BY <1>0, <2>1, <2>2, <2>3, <2>4, CloseFacts DEF HookInv, Hook!HookTypeOK
<1>4. ASSUME NEW p \in Pages, Attempts(p), TimerRuns(p) PROVE HookInv'
  <2>2. /\ timers[p] > 0 /\ timers' = [timers EXCEPT ![p] = timers[p] - 1]
        /\ UNCHANGED <<mounted, mounts>>
    BY <1>4 DEF TimerRuns
  <2>3. PICK last \in BOOLEAN :
          /\ last => lastTimer[p]
          /\ ~last => timers[p] > (IF lastTimer[p] THEN 1 ELSE 0)
          /\ lastTimer' = [lastTimer EXCEPT ![p] = lastTimer[p] /\ ~last]
    BY <1>4 DEF TimerRuns
  <2>4. lastTimer' \in [Pages -> BOOLEAN] /\ timers' \in [Pages -> Nat]
    BY <1>0, <2>2, <2>3
  <2>5. ASSUME NEW q \in Pages, lastTimer'[q] PROVE timers'[q] > 0
    <3>1. CASE q = p
      <4>1. lastTimer[p] /\ ~last
        BY <1>0, <2>3, <2>5, <3>1
      <4>2. timers[p] > 1 /\ timers'[p] = timers[p] - 1 /\ timers[p] \in Nat
        BY <1>0, <2>2, <2>3, <4>1
      <4> QED
        BY <3>1, <4>2
    <3>2. CASE q # p
      <4>1. lastTimer[q] /\ timers'[q] = timers[q]
        BY <1>0, <2>2, <2>3, <2>5, <3>2
      <4> QED
        BY <1>0, <4>1
    <3> QED
      BY <3>1, <3>2
  <2> QED
    BY <1>0, <1>4, <2>2, <2>4, <2>5, AttemptFacts DEF HookInv, Hook!HookTypeOK
<1>5. ASSUME NEW s \in Sockets, Hook!OnOpen(s) PROVE HookInv'
  <2>1. /\ socket[s].state = "connecting" /\ socket' = [socket EXCEPT ![s].state = "open"]
        /\ isConnected' = [isConnected EXCEPT ![socket[s].page] = TRUE]
        /\ UNCHANGED <<mounted, mounts, socketRef, timers, lastTimer, threw>>
    BY <1>5 DEF Hook!OnOpen
  <2>2. isConnected' \in [Pages -> BOOLEAN] /\ socket' \in [Sockets -> Browser]
    BY <1>0, <2>1
  <2>3. ASSUME NEW q \in Pages, NEW t \in Sockets, socket'[t].page = q,
               socket'[t].state \in {"connecting", "open"}
        PROVE  t = socketRef[q]
    <3>1. socket[t].page = q /\ socket[t].state \in {"connecting", "open"}
      BY <1>0, <2>1, <2>3
    <3> QED
      BY <3>1 DEF HookInv, OneSocketPerPage, Hook!OneSocketPerPage, Hook!Live
  <2>4. OneSocketPerPage'
    BY <2>1, <2>3 DEF OneSocketPerPage, Hook!OneSocketPerPage, Hook!Live
  <2> QED
    BY <1>0, <2>1, <2>2, <2>4 DEF HookInv, Hook!HookTypeOK
<1>6. ASSUME NEW s \in Sockets, Hook!OnClose(s) PROVE HookInv'
  <2> DEFINE p == socket[s].page
  <2>1. /\ socket' = [socket EXCEPT ![s] = Hook!Unused]
        /\ isConnected' = [isConnected EXCEPT ![p] = FALSE]
        /\ timers' = [timers EXCEPT ![p] = timers[p] + 1]
        /\ lastTimer' = [lastTimer EXCEPT ![p] = TRUE]
        /\ socketRef' = [q \in Pages |-> IF socketRef[q] = s THEN None ELSE socketRef[q]]
        /\ UNCHANGED <<mounted, mounts, threw>>
    BY <1>6 DEF Hook!OnClose, Hook!CloseAndRetry
  <2>2. Hook!Unused \in Browser /\ Hook!Unused.state = "none"
    BY DEF Hook!Unused
  <2>3. socket' \in [Sockets -> Browser] /\ socketRef' \in [Pages -> Sockets \cup {None}]
    BY <1>0, <2>1, <2>2
  <2> HIDE DEF p
  <2>4. isConnected' \in [Pages -> BOOLEAN] /\ lastTimer' \in [Pages -> BOOLEAN]
    BY <1>0, <2>1
  <2>5. timers' \in [Pages -> Nat] /\ \A q \in Pages : lastTimer'[q] => timers'[q] > 0
    <3>0. \A q \in Pages : timers'[q] = IF q = p THEN timers[q] + 1 ELSE timers[q]
      BY <1>0, <2>1
    <3>1. timers' \in [Pages -> Nat]
      <4>1. \A q \in Pages : timers'[q] \in Nat
        BY <1>0, <3>0
      <4>2. timers' = [q \in Pages |-> timers'[q]]
        BY <1>0, <2>1
      <4> QED
        BY <4>1, <4>2
    <3>2. ASSUME NEW q \in Pages, q # p, lastTimer'[q] PROVE timers'[q] > 0
      <4>1. lastTimer[q] /\ timers'[q] = timers[q]
        BY <1>0, <2>1, <3>2
      <4> QED
        BY <1>0, <4>1
    <3>3. ASSUME NEW q \in Pages, q = p PROVE timers'[q] > 0
      BY <1>0, <2>1, <3>3
    <3> QED
      BY <3>1, <3>2, <3>3
  <2>6. ASSUME NEW q \in Pages, NEW t \in Sockets, socket'[t].page = q,
               socket'[t].state \in {"connecting", "open"}
        PROVE  t = socketRef'[q]
    <3>1. t # s /\ socket'[t] = socket[t]
      BY <1>0, <2>1, <2>2, <2>6
    <3>2. t = socketRef[q]
      BY <2>6, <3>1 DEF HookInv, OneSocketPerPage, Hook!OneSocketPerPage, Hook!Live
    <3> QED
      BY <1>0, <2>1, <3>1, <3>2
  <2>7. OneSocketPerPage'
    BY <2>6 DEF OneSocketPerPage, Hook!OneSocketPerPage, Hook!Live
  <2> QED
    BY <1>0, <2>1, <2>3, <2>4, <2>5, <2>7 DEF HookInv, Hook!HookTypeOK
<1>7. CASE \/ Watches \/ Happens
           \/ \E s \in Sockets : Sends(s) \/ Accepts(s) \/ Hangs(s)
           \/ \E c \in Clients : Serves(c)
  <2>1. UNCHANGED hookVars
    BY <1>7 DEF Watches, Happens, Sends, Accepts, Hangs, Serves, Server
  <2> QED
    BY <1>1, <2>1
<1>8. CASE \E s \in Sockets : Opens(s) \/ Closes(s) \/ Breaks(s)
  BY <1>5, <1>6, <1>8 DEF Opens, Closes, Breaks
<1>9. CASE PageMounts \/ TimerFires \/ ConstructorThrows
  BY <1>2, <1>4, <1>9, AttemptSplits
<1>10. CASE UNCHANGED feedVars
  BY <1>1, <1>10 DEF feedVars
<1> QED
  BY <1>3, <1>7, <1>8, <1>9, <1>10 DEF Next

LEMMA HookStart == Init => HookInv
<1> SUFFICES ASSUME Init PROVE HookInv
  OBVIOUS
<1>1. Hook!HookTypeOK
  BY LiveFeedAssumption DEF Init, Hook!HookInit, Hook!HookTypeOK, Hook!Unused
<1>2. OneSocketPerPage
  BY DEF Init, Hook!HookInit, Hook!Unused, OneSocketPerPage, Hook!OneSocketPerPage, Hook!Live
<1> QED
  BY <1>1, <1>2 DEF HookInv

\* Backend and pages keep their types.
THEOREM FeedTypeCorrect == Spec => []FeedTypeOK
<1>1. FeedInv /\ HookInv => FeedTypeOK
  BY DEF FeedInv, HookInv, FeedTypeOK
<1>2. Spec => []HookInv
  BY HookStart, HookStep, PTL DEF Spec
<1> QED
  BY <1>1, <1>2, FeedInvariant, PTL

\* useRealtime: a component holds at most one socket that is connecting or
\* open, the one its ref names, whenever its effect and its timers run.
THEOREM PageHoldsOneSocket == Spec => []OneSocketPerPage
<1>1. HookInv => OneSocketPerPage
  BY DEF HookInv
<1> QED
  BY <1>1, HookStart, HookStep, PTL DEF Spec
=============================================================================
