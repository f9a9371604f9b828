-------------------------- MODULE DnsIngestProofs --------------------------
(***************************************************************************)
(* Proofs about DnsIngest, for every set of addresses, domains and faults  *)
(* and every bound.                                                        *)
(***************************************************************************)
EXTENDS DnsIngest, DeviceStoreProofs, TLAPS

LEMMA LineFields ==
  ASSUME NEW line \in Line
  PROVE  /\ line.kind \in {"query", "reply"}
         /\ line.domain \in Domains
         /\ line.n \in 0 .. MaxQueries
         /\ line.kind = "query" =>
              line.n \in QueryNo /\ line.ip \in Ips /\ line.at \in Time
         /\ line.kind = "reply" =>
              line.outcome \in Outcome
  BY IngestAssumption DEF Line, QueryNo

LEMMA MergeReplyType ==
  ASSUME NEW entry \in Entry, NEW line \in Line, line.kind = "reply"
  PROVE  MergeReply(entry, line) \in Entry /\ MergeReply(entry, line).n = entry.n
<1>2. CASE line.outcome = "NXDOMAIN"
  BY <1>2 DEF MergeReply, Entry, Outcome
<1>3. CASE line.outcome # "NXDOMAIN"
  <2>1. entry.merged \cup {line} \in SUBSET Line
    BY DEF Entry
  <2>2. MergeReply(entry, line)
          = [entry EXCEPT !.merged = entry.merged \cup {line}]
    BY <1>3 DEF MergeReply
  <2> QED
    BY <2>1, <2>2 DEF Entry
<1> QED
  BY <1>2, <1>3

LEMMA TypeInit == Init => TypeOK
<1> USE StoreAssumption, IngestAssumption
<1> SUFFICES ASSUME Init PROVE TypeOK
  OBVIOUS
<1>1. <<>> \in Seq(Status) /\ <<>> \in Seq(Line) /\ <<>> \in Seq(Row)
  OBVIOUS
<1>2. StoreTypeOK
  BY <1>1 DEF Init, StoreInit, StoreTypeOK, Time
<1>3. IngestTypeOK
  <2>1. issued \in 0 .. MaxQueries /\ replied \in 0 .. MaxReplies
        /\ faults \in 0 .. MaxFaults /\ pos \in Nat /\ handle \in Nat
    BY DEF Init, IngestInit
  <2>2. pc \in PCs /\ pc \notin Persisting
    BY DEF Init, IngestInit, PCs, Persisting
  <2>3. pc \notin {"create", "status", "observe"}
    BY DEF Init, IngestInit
  <2>4. stopping \in BOOLEAN /\ wasOffline \in BOOLEAN /\ rotated \in BOOLEAN
    BY Zenon DEF Init, IngestInit
  <2>5. /\ log \in Seq(Line) /\ rows \in Seq(Row)
        /\ dropped = {}
        /\ pending = None /\ completed = None /\ device = None
    BY <1>1, Zenon DEF Init, IngestInit
  <2> QED
    BY <2>1, <2>2, <2>3, <2>4, <2>5 DEF IngestTypeOK
<1> QED
  BY <1>2, <1>3 DEF TypeOK

LEMMA TypeStep ==
  ASSUME TypeOK, [Next]_vars \/ PlaceholderConflict
  PROVE  TypeOK'
<1> USE StoreAssumption, IngestAssumption
<1> USE DEF TypeOK, StoreTypeOK, IngestTypeOK
<1>1. ASSUME NEW ip \in Ips, NEW domain \in Domains, LogQuery(ip, domain)
      PROVE  TypeOK'
  <2>1. [kind |-> "query", n |-> issued + 1, ip |-> ip, domain |-> domain,
         at |-> now] \in Line
    BY <1>1 DEF LogQuery, Line, QueryNo
  <2> QED
    BY <1>1, <2>1 DEF LogQuery, QueryNo, storeVars, readVars, persistVars,
                      history
<1>2. ASSUME NEW domain \in Domains, NEW outcome \in Outcome,
             LogReply(domain, outcome)
      PROVE  TypeOK'
  <2>1. [kind |-> "reply", n |-> issued, domain |-> domain, outcome |-> outcome,
         address |-> replied + 1] \in Line
    BY <1>2 DEF LogReply, Line, QueryNo
  <2> QED
    BY <1>2, <2>1 DEF LogReply, storeVars, readVars, persistVars, history
<1>3. CASE StartPoll
  BY <1>3, SMTT(30) DEF StartPoll, storeVars, logVars, persistVars, PCs, Persisting,
              Entry, QueryNo
<1>4. CASE ReadQuery
  <2>1. log[handle + 1] \in Line
    BY <1>4 DEF ReadQuery
  <2>2. NewEntry(log[handle + 1]) \in Entry
    BY <1>4, <2>1, LineFields DEF ReadQuery, NewEntry, Entry, Outcome
  <2>3. UNCHANGED <<storeVars, log, issued, replied, pos, stopping, device,
                    wasOffline, rows, dropped, faults, rotated>>
    BY <1>4 DEF ReadQuery, logVars, history
  <2>4. handle' \in Nat /\ pending' \in Entry \cup {None}
    BY <1>4, <2>2 DEF ReadQuery
  <2>5. /\ pc' \in {"reading", "resolve"} /\ completed' \in Entry \cup {None}
        /\ completed' # None <=> pc' = "resolve"
    BY <1>4 DEF ReadQuery
  <2> QED
    BY <2>3, <2>4, <2>5 DEF storeVars, PCs, Persisting
<1>5. CASE ReadReply
  <2>1. log[handle + 1] \in Line
    BY <1>5 DEF ReadReply
  <2>2. ASSUME pending # None
        PROVE  MergeReply(pending, log[handle + 1]) \in Entry
    <3>1. pending \in Entry /\ log[handle + 1].kind = "reply"
      BY <1>5, <2>2 DEF ReadReply
    <3> QED
      BY <2>1, <3>1, MergeReplyType
  <2> QED
    BY <1>5, <2>2 DEF ReadReply, storeVars, logVars, persistVars, history
<1>6. CASE EndOfFile \/ TruncatePos \/ CommitPos
  BY <1>6 DEF EndOfFile, TruncatePos, CommitPos, storeVars, logVars, readVars,
              persistVars, history, PCs, Persisting
<1>7. CASE ResolveDevice
  <2>1. \A d \in ResolveIp(completed.ip) : d \in DeviceIds \cup {None}
    BY DEF ResolveIp, Latest, Address
  <2> QED
    BY <1>7, <2>1 DEF ResolveDevice, storeVars, logVars, readVars, history,
                      PCs, Persisting
<1>8. CASE AllotDevice
  BY <1>8 DEF AllotDevice, storeVars, logVars, readVars, history, PCs,
              Persisting
<1>9. CASE CreatePlaceholder
  <2>1. completed.at \in Time
    BY <1>9 DEF CreatePlaceholder, Persisting, Entry
  <2>2. [mac |-> None, status |-> "online", confidence |-> "LOW",
         first_seen |-> completed.at, last_seen |-> completed.at] \in Device
    BY <2>1 DEF Device, Status, Confidence
  <2> QED
    BY <1>9, <2>2 DEF CreatePlaceholder, InsertDevice, logVars, readVars,
                      persistVars, history, PCs, Persisting, Device
<1>10. CASE ReadStatus
  BY <1>10 DEF ReadStatus, storeVars, logVars, readVars, history, PCs,
               Persisting
<1>11. CASE ObservePlaceholder
  <2>1. completed \in Entry /\ device \in DeviceIds /\ devices[device] \in Device
    BY <1>11 DEF ObservePlaceholder, Persisting
  <2>2. devices' \in [DeviceIds -> Device \cup {None}]
    BY <1>11, <2>1 DEF ObservePlaceholder, RecordObservation, Device, Status,
                       Confidence, Entry
  <2>3. addresses' \subseteq Address
    BY <1>11, <2>1 DEF ObservePlaceholder, RecordObservation, Address, Entry
  <2>4. events' \in [DeviceIds -> Seq(Status)]
    BY <1>11, <2>1 DEF ObservePlaceholder, RecordObservation, Status
  <2>5. raced' \in [DeviceIds -> Nat]
    <3>1. raced \in [DeviceIds -> Nat]
      OBVIOUS
    <3>2. Raced(device, wasOffline)
      BY <1>11 DEF ObservePlaceholder, RecordObservation
    <3> QED
      BY <2>1, <3>1, <3>2 DEF Raced
  <2> QED
    BY <1>11, <2>2, <2>3, <2>4, <2>5
    DEF ObservePlaceholder, RecordObservation, logVars, readVars, persistVars,
        history, PCs, Persisting
<1>12. CASE InsertQuery
  <2>1. completed \in Entry
    BY <1>12 DEF InsertQuery, Persisting
  <2>2. [n |-> completed.n, ip |-> completed.ip,
         domain |-> completed.domain, at |-> completed.at, device |-> device,
         status |-> completed.status, merged |-> completed.merged] \in Row
    BY <2>1 DEF Entry, Row
  <2> QED
    BY <1>12, <2>2 DEF InsertQuery, storeVars, logVars, readVars, history,
                       PCs, Persisting
<1>13. ASSUME Unwind, faults' \in 0 .. MaxFaults PROVE TypeOK'
  BY <1>13 DEF Unwind, storeVars, logVars, PCs, Persisting, Entry, QueryNo
<1>14. CASE Abort
  BY <1>13, <1>14 DEF Abort, Fault
<1>22. CASE PlaceholderConflict
  BY <1>13, <1>22 DEF PlaceholderConflict
<1>16. CASE Kill
  <2>1. InMemory \subseteq QueryNo
    BY DEF InMemory, Entry
  <2> QED
    BY <1>16, <2>1 DEF Kill, Fault, storeVars, logVars, PCs, Persisting
<1>17. CASE ReadFails
  BY <1>17 DEF ReadFails, Fault, storeVars, logVars, readVars, persistVars,
               PCs, Persisting
<1>21. CASE Rotate
  <2>1. log' \in Seq(Line)
    BY <1>21 DEF Rotate
  <2> QED
    BY <1>21, <2>1 DEF Rotate, Fault, storeVars, readVars, persistVars
<1>18. CASE Restart
  BY <1>18 DEF Restart, storeVars, logVars, readVars, persistVars, history,
               PCs, Persisting
<1>19. CASE Clock
  BY <1>19 DEF Clock, Tick, ingestVars, logVars, readVars, persistVars,
               history, Time
<1>20. CASE UNCHANGED vars
  BY <1>20 DEF vars, storeVars, ingestVars, logVars, readVars, persistVars,
               history
<1> QED
  BY <1>1, <1>2, <1>3, <1>4, <1>5, <1>6, <1>7, <1>8, <1>9, <1>10, <1>11,
     <1>12, <1>14, <1>16, <1>17, <1>18, <1>19, <1>20, <1>21, <1>22
  DEF Next, IngestNext, Dnsmasq, Ingester, Poll, Persist, FaultStep

\* Type correctness (TypeOK) of the tables, the files and the daemon.
THEOREM TypeCorrect == Spec => []TypeOK
<1>1. TypeOK /\ [Next]_vars => TypeOK'
  BY TypeStep
<1> QED
  BY <1>1, TypeInit, PTL DEF Spec

-----------------------------------------------------------------------------
(***************************************************************************)
(* Nothing before the saved position is skipped.  The invariant also says  *)
(* that during a poll everything up to the file handle is accounted for,   *)
(* which is what CommitPos then saves.                                     *)
(***************************************************************************)
Accounted == Recorded \cup InMemory \cup dropped

InPoll == pc \in {"reading", "truncate", "commit"} \cup Persisting /\ ~stopping

Covered ==
  /\ pos <= Len(log) /\ handle <= Len(log)
  /\ QueriesBefore(pos) \subseteq Accounted
  /\ pc \in {"idle", "reading", "truncate", "commit"} => ~stopping
  /\ stopping => pending = None
  /\ InPoll => QueriesBefore(handle) \subseteq Accounted

CoveredInv == rotated \/ Covered

\* A line appended to the log is after every offset inside it.
LEMMA AppendAfter ==
  ASSUME TypeOK, NEW line \in Line, log' = Append(log, line),
         NEW k \in Nat, k <= Len(log)
  PROVE  QueriesBefore(k)' = QueriesBefore(k) /\ Len(log') = Len(log) + 1
<1>1. log \in Seq(Line) /\ Len(log) \in Nat
  BY DEF TypeOK, IngestTypeOK
<1>2. Len(log') = Len(log) + 1 /\ \A i \in 1 .. Len(log) : log'[i] = log[i]
  BY <1>1
<1>3. DOMAIN log = 1 .. Len(log) /\ DOMAIN log' = 1 .. Len(log) + 1
  BY <1>1, <1>2
<1>4. \A j : j \in DOMAIN log /\ j <= k <=> j \in DOMAIN log' /\ j <= k
  BY <1>1, <1>3
<1> QED
  BY <1>1, <1>2, <1>3, <1>4 DEF QueriesBefore

\* Reading one line accounts for one more query, or for none.
LEMMA OneMoreLine ==
  ASSUME TypeOK, handle < Len(log)
  PROVE  QueriesBefore(handle + 1) \subseteq
           QueriesBefore(handle) \cup
             (IF log[handle + 1].kind = "query" THEN {log[handle + 1].n} ELSE {})
<1>1. log \in Seq(Line) /\ handle \in Nat /\ DOMAIN log = 1 .. Len(log)
  BY DEF TypeOK, IngestTypeOK
<1>2. \A j \in DOMAIN log : j <= handle + 1 => j <= handle \/ j = handle + 1
  BY <1>1
<1> QED
  BY <1>1, <1>2 DEF QueriesBefore

LEMMA RecordedGrows ==
  ASSUME TypeOK, NEW row, rows' = Append(rows, row)
  PROVE  Recorded' = Recorded \cup {row.n}
<1>1. rows \in Seq(Row)
  BY DEF TypeOK, IngestTypeOK
<1>2. /\ DOMAIN rows = 1 .. Len(rows) /\ DOMAIN rows' = 1 .. Len(rows) + 1
      /\ Len(rows) \in Nat
      /\ \A i \in 1 .. Len(rows) : rows'[i] = rows[i]
      /\ rows'[Len(rows) + 1] = row
  BY <1>1
<1> QED
  BY <1>2 DEF Recorded

LEMMA EmptyBefore == ASSUME TypeOK PROVE QueriesBefore(0) = {}
  BY DEF TypeOK, IngestTypeOK, QueriesBefore

LEMMA CoveredStep ==
  ASSUME TypeOK, TypeOK', Covered, [Next]_vars, ~Rotate
  PROVE  Covered'
<1> USE DEF Covered
<1>0. pos \in Nat /\ handle \in Nat /\ log \in Seq(Line) /\ Len(log) \in Nat
  BY DEF TypeOK, IngestTypeOK
<1>1. ASSUME NEW line \in Line, log' = Append(log, line),
             UNCHANGED <<readVars, pc, stopping, persistVars, rows, history>>
      PROVE  Covered'
  <2>1. UNCHANGED <<Recorded, InMemory, dropped, pos, handle, pc, stopping>>
    BY <1>1 DEF readVars, persistVars, history, Recorded, InMemory
  <2>2. /\ \A k \in Nat : k <= Len(log) => QueriesBefore(k)' = QueriesBefore(k)
        /\ Len(log') = Len(log) + 1
    BY <1>0, <1>1, AppendAfter
  <2>3. UNCHANGED <<pending, pc, stopping, Accounted, InPoll>>
    BY <1>1, <2>1 DEF Accounted, InPoll, readVars
  <2> QED
    BY <1>0, <2>1, <2>2, <2>3
<1>2. ASSUME NEW ip \in Ips, NEW domain \in Domains, LogQuery(ip, domain)
      PROVE  Covered'
  <2>1. [kind |-> "query", n |-> issued + 1, ip |-> ip, domain |-> domain,
         at |-> now] \in Line
    BY <1>2 DEF LogQuery, Line, QueryNo, TypeOK, IngestTypeOK, StoreTypeOK
  <2> QED
    BY <1>1, <1>2, <2>1 DEF LogQuery
<1>3. ASSUME NEW domain \in Domains, NEW outcome \in Outcome,
             LogReply(domain, outcome)
      PROVE  Covered'
  <2>1. [kind |-> "reply", n |-> issued, domain |-> domain, outcome |-> outcome,
         address |-> replied + 1] \in Line
    BY <1>3 DEF LogReply, Line, QueryNo, TypeOK, IngestTypeOK
  <2> QED
    BY <1>1, <1>3, <2>1 DEF LogReply
<1>4. ASSUME UNCHANGED log
      PROVE  \A k \in Nat : QueriesBefore(k)' = QueriesBefore(k)
  BY <1>4 DEF QueriesBefore
\* A step that changes neither the log nor an offset keeps the invariant if
\* it forgets nothing and is not the start of a poll.
<1>5. ASSUME UNCHANGED <<log, pos, handle>>, Accounted \subseteq Accounted',
             InPoll' => InPoll,
             pc' \in {"idle", "reading", "truncate", "commit"} => ~stopping',
             stopping' => pending' = None
      PROVE  Covered'
  BY <1>0, <1>4, <1>5
<1>6. CASE StartPoll
  <2>1. pos <= Len(log) /\ handle' = pos /\ UNCHANGED <<pending, dropped>>
    BY <1>0, <1>6 DEF StartPoll
  <2>2. UNCHANGED <<log, rows, completed, pos, stopping>> /\ ~stopping
    BY <1>6 DEF StartPoll, persistVars, logVars
  <2>3. UNCHANGED Accounted
    BY <2>1, <2>2 DEF Accounted, Recorded, InMemory
  <2> QED
    BY <1>0, <1>4, <2>1, <2>2, <2>3
<1>7. CASE ReadQuery
  <2>1. log[handle + 1] \in Line /\ completed = None
    BY <1>0, <1>7 DEF ReadQuery, TypeOK, IngestTypeOK, Persisting
  <2>2. NewEntry(log[handle + 1]) # None
    BY <1>7, <2>1, LineFields, IngestAssumption
    DEF ReadQuery, NewEntry, Entry, Outcome
  <2>3. InMemory' = InMemory \cup {log[handle + 1].n}
    BY <1>7, <2>1, <2>2 DEF ReadQuery, InMemory, NewEntry
  <2>4. UNCHANGED <<log, pos, stopping, rows, dropped>>
    BY <1>7 DEF ReadQuery, logVars, history
  <2>5. Accounted' = Accounted \cup {log[handle + 1].n}
    BY <2>3, <2>4 DEF Accounted, Recorded
  <2>6. QueriesBefore(handle + 1) \subseteq Accounted'
    BY <1>7, <2>5, OneMoreLine DEF ReadQuery, InPoll
  <2> QED
    BY <1>0, <1>4, <1>7, <2>4, <2>5, <2>6 DEF ReadQuery
<1>8. CASE ReadReply
  <2>1. log[handle + 1] \in Line
    BY <1>0, <1>8 DEF ReadReply
  <2>2. ASSUME pending # None
        PROVE  /\ MergeReply(pending, log[handle + 1]) # None
               /\ MergeReply(pending, log[handle + 1]).n = pending.n
    <3>1. pending \in Entry
      BY <2>2 DEF TypeOK, IngestTypeOK
    <3>2. /\ MergeReply(pending, log[handle + 1]) \in Entry
          /\ MergeReply(pending, log[handle + 1]).n = pending.n
      BY <1>8, <2>1, <3>1, MergeReplyType DEF ReadReply
    <3> QED
      BY <3>2, IngestAssumption
  <2>3. UNCHANGED InMemory
    BY <1>8, <2>2 DEF ReadReply, InMemory, persistVars
  <2>4. UNCHANGED <<log, pos, pc, stopping, rows, dropped>>
    BY <1>8 DEF ReadReply, logVars, history
  <2>5. UNCHANGED Accounted
    BY <2>3, <2>4 DEF Accounted, Recorded
  <2>6. QueriesBefore(handle + 1) \subseteq Accounted'
    BY <1>8, <2>5, OneMoreLine DEF ReadReply, InPoll
  <2> QED
    BY <1>0, <1>4, <1>8, <2>4, <2>5, <2>6 DEF ReadReply
<1>9. CASE EndOfFile \/ TruncatePos \/ CommitPos
  <2>1. UNCHANGED <<log, handle, stopping, pending, Accounted>>
    BY <1>9 DEF EndOfFile, TruncatePos, CommitPos, logVars, readVars,
                persistVars, history, Accounted, Recorded, InMemory
  <2>2. InPoll
    BY <1>9 DEF EndOfFile, TruncatePos, CommitPos, InPoll
  <2>3. pos' \in {pos, 0, handle}
    BY <1>9 DEF EndOfFile, TruncatePos, CommitPos, readVars
  <2>4. pc' \in {"truncate", "commit", "idle"}
    BY <1>9 DEF EndOfFile, TruncatePos, CommitPos
  <2> QED
    BY <1>0, <1>4, <2>1, <2>2, <2>3, <2>4, EmptyBefore DEF InPoll
<1>10. CASE \/ ResolveDevice \/ AllotDevice \/ CreatePlaceholder
            \/ ReadStatus \/ ObservePlaceholder
  <2>1. UNCHANGED <<log, pos, handle, stopping, pending, Accounted>>
    BY <1>10 DEF ResolveDevice, AllotDevice, CreatePlaceholder, ReadStatus,
                 ObservePlaceholder, logVars, readVars, persistVars, history,
                 Accounted, Recorded, InMemory
  <2>2. pc \in Persisting /\ pc' \in Persisting
    BY <1>10 DEF ResolveDevice, AllotDevice, CreatePlaceholder, ReadStatus,
                 ObservePlaceholder, Persisting
  <2> QED
    BY <1>5, <2>1, <2>2 DEF InPoll, Persisting
<1>11. CASE InsertQuery
  <2>1. Recorded' = Recorded \cup {completed.n}
    BY <1>11, RecordedGrows DEF InsertQuery
  <2>2. Accounted \subseteq Accounted'
    BY <1>11, <2>1 DEF InsertQuery, readVars, history, Accounted, InMemory
  <2> QED
    BY <1>5, <1>11, <2>2
    DEF InsertQuery, logVars, readVars, InPoll, Persisting
<1>12. CASE Unwind
  <2>1. Accounted \subseteq Accounted'
    BY <1>12 DEF Unwind, Accounted, InMemory, Recorded
  <2> QED
    BY <1>5, <1>12, <2>1 DEF Unwind, logVars, InPoll
<1>13. CASE Kill
  <2>1. Accounted \subseteq Accounted'
    BY <1>13 DEF Kill, Accounted, Recorded
  <2> QED
    BY <1>5, <1>13, <2>1 DEF Kill, logVars, InPoll, Persisting
<1>14. CASE ReadFails \/ Restart
  <2>1. UNCHANGED <<log, pos, handle, pending, Accounted>>
    BY <1>14 DEF ReadFails, Restart, logVars, readVars, persistVars, history,
                 Accounted, Recorded, InMemory
  <2> QED
    BY <1>5, <1>14, <2>1 DEF ReadFails, Restart, InPoll, Persisting
<1>15. CASE Clock \/ UNCHANGED vars
  <2>1. UNCHANGED <<log, pos, handle, pending, pc, stopping, Accounted>>
    BY <1>15 DEF Clock, vars, ingestVars, logVars, readVars, persistVars,
                 history, Accounted, Recorded, InMemory
  <2> QED
    BY <1>5, <2>1 DEF InPoll
<1> QED
  BY <1>2, <1>3, <1>6, <1>7, <1>8, <1>9, <1>10, <1>11, <1>12, <1>13, <1>14,
     <1>15
  DEF Next, IngestNext, Dnsmasq, Ingester, Poll, Persist, FaultStep, Abort

\* The log is rotated once and for all.
LEMMA RotatedStays ==
  ASSUME [Next]_vars, rotated
  PROVE  rotated'
<1>1. CASE UNCHANGED rotated
  BY <1>1
<1>2. CASE Rotate
  BY <1>2 DEF Rotate
<1> QED
  BY <1>1, <1>2
  DEF Next, IngestNext, Dnsmasq, LogQuery, LogReply, Ingester, Poll,
      StartPoll, ReadQuery, ReadReply, EndOfFile, TruncatePos, CommitPos,
      Persist, ResolveDevice, AllotDevice, CreatePlaceholder, ReadStatus,
      ObservePlaceholder, InsertQuery, Restart, FaultStep, Abort, Unwind,
      Kill, ReadFails, Clock, ingestVars, vars, history

\* Whatever crashes, exceptions and failed reads happen, and however many, a
\* query before the saved position of a log that was never rotated is stored, buffered, or was in memory when one happened
\* (the order of parse_line, _persist and _write_pos in process_new_lines).
THEOREM PositionNeverSkips == Spec => []NothingSkipped
<1>1. Init => CoveredInv
  BY DEF Init, IngestInit, CoveredInv, Covered, QueriesBefore, InPoll,
         Persisting
<1>2. TypeOK /\ TypeOK' /\ CoveredInv /\ [Next]_vars => CoveredInv'
  <2> SUFFICES ASSUME TypeOK, TypeOK', CoveredInv, [Next]_vars, ~rotated'
               PROVE  CoveredInv'
    BY DEF CoveredInv
  <2>1. ~rotated
    BY RotatedStays
  <2>2. ~Rotate
    BY DEF Rotate
  <2> QED
    BY <2>1, <2>2, CoveredStep DEF CoveredInv
<1>3. CoveredInv => NothingSkipped
  BY DEF CoveredInv, Covered, NothingSkipped, Accounted
<1> QED
  BY <1>1, <1>2, <1>3, TypeCorrect, PTL DEF Spec

-----------------------------------------------------------------------------
(***************************************************************************)
(* Undisturbed, the ingester implements QueryLedger.  The invariant counts *)
(* the queries up to the file handle: they are the rows, then the entry    *)
(* being stored, then the buffered one.                                    *)
(***************************************************************************)
QueriesUpTo(k) == IF k = 0 THEN 0 ELSE log[k].n

LogInv ==
  /\ \A i \in 1 .. Len(log) :
       /\ log[i].n = QueriesUpTo(i - 1)
                       + (IF log[i].kind = "query" THEN 1 ELSE 0)
       /\ log[i].n <= issued
  /\ QueriesUpTo(Len(log)) = issued

RowsInv ==
  /\ \A i \in 1 .. Len(rows) : rows[i].n = i
  /\ pending = None => completed = None /\ QueriesUpTo(handle) = Len(rows)
  /\ pending # None =>
       /\ QueriesUpTo(handle) = pending.n
       /\ completed = None => pending.n = Len(rows) + 1
       /\ completed # None =>
            completed.n = Len(rows) + 1 /\ pending.n = Len(rows) + 2

DaemonInv ==
  /\ pos <= Len(log) /\ handle <= Len(log)
  /\ pc = "idle" => pos = handle
  /\ pc # "down" /\ ~stopping
  /\ pc = "create" => devices[device] = None

LedgerInv == LogInv /\ RowsInv /\ DaemonInv

\* Appending a line that carries the right count keeps the counts.
LEMMA LogInvAppend ==
  ASSUME TypeOK, TypeOK', LogInv, NEW line, log' = Append(log, line),
         line.n = issued + (IF line.kind = "query" THEN 1 ELSE 0),
         issued' = line.n
  PROVE  /\ LogInv'
         /\ Len(log') = Len(log) + 1
         /\ \A k \in 0 .. Len(log) : QueriesUpTo(k)' = QueriesUpTo(k)
<1>1. /\ log \in Seq(Line) /\ Len(log) \in Nat
      /\ issued \in Nat /\ issued' \in Nat
  BY IngestAssumption DEF TypeOK, IngestTypeOK
<1>2. /\ Len(log') = Len(log) + 1
      /\ \A i \in 1 .. Len(log) : log'[i] = log[i]
      /\ log'[Len(log) + 1] = line
  BY <1>1
<1>3. \A k \in 0 .. Len(log) : QueriesUpTo(k)' = QueriesUpTo(k)
  BY <1>1, <1>2 DEF QueriesUpTo
<1>4. \A i \in 1 .. Len(log) : log[i].n \in Nat
  BY <1>1, LineFields, IngestAssumption
<1>5. issued <= issued'
  BY <1>1
<1>6. ASSUME NEW i \in 1 .. Len(log')
      PROVE  /\ log'[i].n = QueriesUpTo(i - 1)'
                              + (IF log'[i].kind = "query" THEN 1 ELSE 0)
             /\ log'[i].n <= issued'
  <2>1. CASE i \in 1 .. Len(log)
    <3>1. i - 1 \in 0 .. Len(log)
      BY <1>1, <2>1
    <3>2. log'[i] = log[i] /\ QueriesUpTo(i - 1)' = QueriesUpTo(i - 1)
      BY <1>2, <1>3, <2>1, <3>1
    <3>3. /\ log[i].n = QueriesUpTo(i - 1) + (IF log[i].kind = "query" THEN 1 ELSE 0)
          /\ log[i].n <= issued
      BY <2>1 DEF LogInv
    <3>4. log[i].n <= issued'
      <4>1. log[i].n \in Nat
        BY <1>4, <2>1
      <4> QED
        BY <1>1, <1>5, <3>3, <4>1
    <3> QED
      BY <3>2, <3>3, <3>4
  <2>2. CASE i = Len(log) + 1
    <3>1. i - 1 = Len(log) /\ QueriesUpTo(i - 1)' = issued
      BY <1>1, <1>3, <2>2 DEF LogInv
    <3> QED
      BY <1>1, <1>2, <2>2, <3>1
  <2> QED
    BY <1>1, <1>2, <2>1, <2>2
<1>7. LogInv'
  <2>1. QueriesUpTo(Len(log))' = issued'
    <3>1. log'[Len(log')].n = issued' /\ Len(log') # 0
      BY <1>1, <1>2
    <3> QED
      BY <3>1 DEF QueriesUpTo
  <2> QED
    BY <1>6, <2>1 DEF LogInv
<1> QED
  BY <1>2, <1>3, <1>7

LEMMA LedgerStep ==
  ASSUME Faults = {}, TypeOK, TypeOK', LedgerInv, [Next]_vars
  PROVE  LedgerInv'
<1> USE DEF LedgerInv
<1>0. /\ pos \in Nat /\ handle \in Nat /\ Len(log) \in Nat
      /\ Len(rows) \in Nat /\ log \in Seq(Line) /\ rows \in Seq(Row)
      /\ issued \in Nat
  BY IngestAssumption DEF TypeOK, IngestTypeOK
\* What dnsmasq does.
<1>1. ASSUME NEW line, log' = Append(log, line),
             line.n = issued + (IF line.kind = "query" THEN 1 ELSE 0),
             issued' = line.n,
             UNCHANGED <<devices, readVars, pc, stopping, persistVars, rows>>
      PROVE  LedgerInv'
  <2>1. LogInv' /\ Len(log') = Len(log) + 1
        /\ \A k \in 0 .. Len(log) : QueriesUpTo(k)' = QueriesUpTo(k)
    BY <1>1, LogInvAppend
  <2>2. QueriesUpTo(handle)' = QueriesUpTo(handle)
    BY <1>0, <1>1, <2>1 DEF DaemonInv, readVars
  <2>3. RowsInv'
    BY <1>1, <2>2 DEF RowsInv, readVars, persistVars
  <2>4. DaemonInv'
    BY <1>0, <1>1, <2>1 DEF DaemonInv, readVars, persistVars
  <2> QED
    BY <2>1, <2>3, <2>4
<1>2. ASSUME NEW ip \in Ips, NEW domain \in Domains, LogQuery(ip, domain)
      PROVE  LedgerInv'
  BY <1>0, <1>1, <1>2 DEF LogQuery, storeVars
<1>3. ASSUME NEW domain \in Domains, NEW outcome \in Outcome,
             LogReply(domain, outcome)
      PROVE  LedgerInv'
  BY <1>0, <1>1, <1>3 DEF LogReply, storeVars
\* The other steps leave the log alone.
<1>4. ASSUME UNCHANGED <<log, issued>>
      PROVE  LogInv' /\ \A k \in Nat : QueriesUpTo(k)' = QueriesUpTo(k)
  BY <1>4 DEF LogInv, QueriesUpTo
<1>5. ASSUME UNCHANGED <<log, issued, handle, pending, completed, rows>>,
             DaemonInv'
      PROVE  LedgerInv'
  BY <1>0, <1>4, <1>5 DEF RowsInv
<1>6. CASE StartPoll
  <2>1. pos <= Len(log) /\ handle' = pos /\ pending' = pending /\ pos = handle
    BY <1>0, <1>6 DEF StartPoll, DaemonInv
  <2> QED
    BY <1>0, <1>5, <1>6, <2>1 DEF StartPoll, DaemonInv, logVars, persistVars
<1>7. CASE ReadQuery
  <2>1. log[handle + 1] \in Line /\ completed = None
    BY <1>0, <1>7 DEF ReadQuery, TypeOK, IngestTypeOK, Persisting
  <2>2. NewEntry(log[handle + 1]) # None
    BY <1>7, <2>1, LineFields, IngestAssumption
    DEF ReadQuery, NewEntry, Entry, Outcome
  <2>3. UNCHANGED <<log, issued, pos, rows, stopping>>
    BY <1>7 DEF ReadQuery, logVars
  <2>4. QueriesUpTo(handle + 1) = QueriesUpTo(handle) + 1
    <3>1. log[handle + 1].n = QueriesUpTo(handle) + 1
      BY <1>0, <1>7 DEF ReadQuery, LogInv
    <3> QED
      BY <1>0, <3>1 DEF QueriesUpTo
  <2>5. pending'.n = QueriesUpTo(handle + 1) /\ pending' # None
    BY <1>0, <1>7, <2>2 DEF ReadQuery, NewEntry, QueriesUpTo
  <2>6. LogInv' /\ QueriesUpTo(handle)' = QueriesUpTo(handle + 1)
    <3>1. handle' = handle + 1
      BY <1>7 DEF ReadQuery
    <3>2. QueriesUpTo(handle)' = QueriesUpTo(handle + 1)
      BY <2>3, <3>1 DEF QueriesUpTo
    <3> QED
      BY <1>4, <2>3, <3>2
  <2>7. RowsInv'
    <3>1. completed' = pending /\ rows' = rows
      BY <1>7, <2>3 DEF ReadQuery
    <3>2. QueriesUpTo(handle)' = pending'.n
      BY <2>5, <2>6
    <3>3. CASE pending = None
      BY <1>0, <2>4, <2>5, <3>1, <3>2, <3>3 DEF RowsInv
    <3>4. CASE pending # None
      BY <1>0, <2>1, <2>4, <2>5, <3>1, <3>2, <3>4 DEF RowsInv
    <3> QED
      BY <3>3, <3>4
  <2>8. DaemonInv'
    BY <1>0, <1>7, <2>3 DEF ReadQuery, DaemonInv
  <2> QED
    BY <2>6, <2>7, <2>8
<1>8. CASE ReadReply
  <2>1. log[handle + 1] \in Line
    BY <1>0, <1>8 DEF ReadReply
  <2>2. pending # None => pending'.n = pending.n /\ pending' # None
    <3>1. ASSUME pending # None
          PROVE  /\ MergeReply(pending, log[handle + 1]) \in Entry
                 /\ MergeReply(pending, log[handle + 1]).n = pending.n
      <4>1. pending \in Entry
        BY <3>1 DEF TypeOK, IngestTypeOK
      <4> QED
        BY <1>8, <2>1, <4>1, MergeReplyType DEF ReadReply
    <3> QED
      BY <1>8, <3>1, IngestAssumption DEF ReadReply
  <2>3. UNCHANGED <<log, issued, pos, completed, rows, pc, stopping, devices,
                    device>>
    BY <1>8 DEF ReadReply, logVars, storeVars, persistVars
  <2>4. QueriesUpTo(handle + 1) = QueriesUpTo(handle)
    <3>1. log[handle + 1].n = QueriesUpTo(handle) + 0
      BY <1>0, <1>8 DEF ReadReply, LogInv
    <3>2. QueriesUpTo(handle) \in Nat
      BY <1>0, LineFields, IngestAssumption DEF QueriesUpTo, DaemonInv
    <3> QED
      BY <1>0, <3>1, <3>2 DEF QueriesUpTo
  <2>5. LogInv' /\ QueriesUpTo(handle)' = QueriesUpTo(handle + 1)
    <3>1. handle' = handle + 1
      BY <1>8 DEF ReadReply
    <3>2. QueriesUpTo(handle)' = QueriesUpTo(handle + 1)
      BY <2>3, <3>1 DEF QueriesUpTo
    <3> QED
      BY <1>4, <2>3, <3>2
  <2>6. RowsInv'
    <3>1. pending = None => pending' = None
      BY <1>8 DEF ReadReply
    <3> QED
      BY <2>2, <2>3, <2>4, <2>5, <3>1 DEF RowsInv
  <2>7. DaemonInv'
    BY <1>0, <1>8, <2>3 DEF ReadReply, DaemonInv
  <2> QED
    BY <2>5, <2>6, <2>7
<1>9. CASE EndOfFile \/ TruncatePos \/ CommitPos
  BY <1>0, <1>5, <1>9
  DEF EndOfFile, TruncatePos, CommitPos, DaemonInv, logVars, readVars,
      persistVars
<1>10. CASE ResolveDevice \/ CreatePlaceholder \/ ReadStatus
            \/ ObservePlaceholder
  BY <1>0, <1>5, <1>10
  DEF ResolveDevice, CreatePlaceholder, ReadStatus, ObservePlaceholder,
      DaemonInv, logVars, readVars, persistVars
<1>11. CASE AllotDevice
  <2>1. devices[NextDeviceId] = None
    BY <1>11, NextDeviceIdFresh DEF AllotDevice, TypeOK
  <2> QED
    BY <1>0, <1>5, <1>11, <2>1
    DEF AllotDevice, DaemonInv, storeVars, logVars, readVars
<1>12. CASE InsertQuery
  <2>1. /\ Len(rows') = Len(rows) + 1
        /\ \A i \in 1 .. Len(rows) : rows'[i] = rows[i]
        /\ rows'[Len(rows) + 1].n = completed.n
    BY <1>0, <1>12 DEF InsertQuery
  <2>2. completed # None /\ UNCHANGED <<log, issued, handle, pending, pos>>
        /\ completed' = None /\ pc' = "reading" /\ ~stopping'
    BY <1>12 DEF InsertQuery, logVars, readVars, Persisting, TypeOK,
                 IngestTypeOK, DaemonInv
  <2>3. LogInv' /\ QueriesUpTo(handle)' = QueriesUpTo(handle)
    BY <1>0, <1>4, <2>2
  <2>4. RowsInv'
    BY <1>0, <2>1, <2>2, <2>3 DEF RowsInv
  <2>5. DaemonInv'
    BY <2>2 DEF DaemonInv
  <2> QED
    BY <2>3, <2>4, <2>5
<1>13. ~ (Abort \/ Kill \/ ReadFails \/ Rotate \/ Restart)
  BY DEF Abort, Kill, ReadFails, Rotate, Restart, Fault,
         DaemonInv
<1>14. CASE Clock \/ UNCHANGED vars
  BY <1>5, <1>14 DEF Clock, Tick, vars, ingestVars, storeVars, logVars, readVars,
                     persistVars, DaemonInv
<1> QED
  BY <1>2, <1>3, <1>6, <1>7, <1>8, <1>9, <1>10, <1>11, <1>12, <1>13, <1>14
  DEF Next, IngestNext, Dnsmasq, Ingester, Poll, Persist, FaultStep

\* With no fault the table is the log: every query is stored once, in the
\* order dnsmasq logged them (LogParser, process_new_lines, _persist).
THEOREM ImplementsLedger ==
  ASSUME Faults = {}
  PROVE  Spec => LedgerSpec
<1>1. Init => LedgerInv /\ Ledger!Init
  <2> SUFFICES ASSUME Init PROVE LedgerInv /\ Ledger!Init
    OBVIOUS
  <2>1. recordedIds = <<>>
    BY DEF Init, IngestInit, recordedIds
  <2> QED
    BY <2>1 DEF Init, IngestInit, LedgerInv, LogInv, RowsInv, DaemonInv,
                QueriesUpTo, Ledger!Init
<1>2. TypeOK /\ TypeOK' /\ LedgerInv /\ [Next]_vars => LedgerInv'
  BY LedgerStep
<1>3. TypeOK /\ LedgerInv /\ [Next]_vars =>
        [Ledger!Next]_(Ledger!ledgerVars)
  <2> SUFFICES ASSUME TypeOK, LedgerInv, [Next]_vars
               PROVE  [Ledger!Next]_(Ledger!ledgerVars)
    OBVIOUS
  <2>1. CASE InsertQuery
    <3>1. rows \in Seq(Row) /\ completed # None /\ pending # None
      BY <2>1 DEF InsertQuery, TypeOK, IngestTypeOK, Persisting, LedgerInv,
                  RowsInv
    <3>2. completed.n = Len(rows) + 1 /\ pending.n = Len(rows) + 2
      BY <3>1 DEF LedgerInv, RowsInv
    <3>3. /\ DOMAIN rows = 1 .. Len(rows) /\ DOMAIN rows' = 1 .. Len(rows) + 1
          /\ \A i \in 1 .. Len(rows) : rows'[i] = rows[i]
          /\ rows'[Len(rows) + 1].n = completed.n
      BY <2>1, <3>1 DEF InsertQuery
    <3>4. Len(recordedIds) = Len(rows) /\ recordedIds \in Seq(Nat)
      <4>1. \A i \in 1 .. Len(rows) : rows[i].n \in Nat
        BY <3>3 DEF LedgerInv, RowsInv
      <4> QED
        BY <3>1, <3>3, <4>1 DEF recordedIds
    <3>5. recordedIds' = Append(recordedIds, Len(recordedIds) + 1)
      <4>1. recordedIds' = [i \in 1 .. Len(rows) + 1 |-> rows'[i].n]
        BY <3>3 DEF recordedIds
      <4>2. recordedIds = [i \in 1 .. Len(rows) |-> rows[i].n]
        BY <3>3 DEF recordedIds
      <4> QED
        BY <3>1, <3>2, <3>3, <3>4, <4>1, <4>2
    <3>6. Len(rows) < issued
      <4>1. handle \in Nat /\ handle <= Len(log) /\ Len(log) \in Nat
        BY DEF TypeOK, IngestTypeOK, LedgerInv, DaemonInv
      <4>2. QueriesUpTo(handle) = Len(rows) + 2 /\ Len(rows) \in Nat
        BY <3>1, <3>2 DEF LedgerInv, RowsInv
      <4>3. handle \in 1 .. Len(log) /\ log[handle].n = Len(rows) + 2
        BY <4>1, <4>2 DEF QueriesUpTo
      <4>4. log[handle].n <= issued /\ issued \in Nat
        BY <4>3, IngestAssumption DEF LedgerInv, LogInv, TypeOK, IngestTypeOK
      <4> QED
        BY <4>2, <4>3, <4>4
    <3> QED
      BY <2>1, <3>4, <3>5, <3>6
      DEF InsertQuery, logVars, Ledger!Next, Ledger!Record
  <2>2. ASSUME NEW ip \in Ips, NEW domain \in Domains, LogQuery(ip, domain)
        PROVE  Ledger!Next
    BY <2>2 DEF LogQuery, Ledger!Next, Ledger!Issue, recordedIds
  <2>3. ASSUME UNCHANGED <<issued, rows>>
        PROVE  UNCHANGED Ledger!ledgerVars
    BY <2>3 DEF Ledger!ledgerVars, recordedIds
  <2> QED
    BY <2>1, <2>2, <2>3
    DEF Next, IngestNext, Dnsmasq, Ingester, Poll, Persist, FaultStep, LogReply,
        StartPoll, ReadQuery, ReadReply, EndOfFile, TruncatePos, CommitPos,
        ResolveDevice, AllotDevice, CreatePlaceholder, ReadStatus,
        ObservePlaceholder, Abort, Kill, ReadFails, Rotate,
        Restart, Unwind, Clock, vars, ingestVars, logVars
<1> QED
  BY <1>1, <1>2, <1>3, TypeCorrect, PTL DEF Spec, LedgerSpec, Ledger!Spec

-----------------------------------------------------------------------------
(***************************************************************************)
(* One device to an address.  The invariant also says that an entry which  *)
(* is getting a placeholder comes from a LAN address without a row, and    *)
(* that only LAN addresses have rows.                                      *)
(***************************************************************************)
GettingDevice == {"allot", "create", "status", "observe"}

PlaceInv ==
  /\ \A a \in addresses : a.ip \in Candidates
  /\ \A a, b \in addresses : a.ip = b.ip => a.device = b.device
  /\ pc \in GettingDevice =>
       completed.ip \in Candidates /\ \A a \in addresses : a.ip # completed.ip
  /\ pc = "insert" => (device = None <=> completed.ip \notin Candidates)
  /\ \A i \in DOMAIN rows : rows[i].device = None <=> rows[i].ip \notin Candidates

LEMMA PlaceStep ==
  ASSUME TypeOK, PlaceInv, [Next]_vars
  PROVE  PlaceInv'
<1>0. /\ StoreTypeOK /\ rows \in Seq(Row) /\ (pc \in Persisting => completed \in Entry)
      /\ (pc \in {"create", "status", "observe"} => device \in DeviceIds)
      /\ None \notin DeviceIds
  BY StoreAssumption DEF TypeOK, IngestTypeOK
<1>a. ASSUME UNCHANGED <<addresses, rows>>,
             pc' \in GettingDevice => pc \in GettingDevice /\ completed' = completed,
             pc' = "insert" => pc = "insert" /\ UNCHANGED <<device, completed>>
      PROVE  PlaceInv'
  BY <1>a DEF PlaceInv
<1>1. CASE ResolveDevice
  <2>1. /\ pc = "resolve" /\ device' \in ResolveIp(completed.ip) /\ completed' = completed
        /\ pc' = IF device' = None /\ completed.ip \in Candidates THEN "allot" ELSE "insert"
        /\ UNCHANGED <<addresses, rows>>
    BY <1>1 DEF ResolveDevice, storeVars
  <2>2. \/ device' = None /\ \A a \in addresses : a.ip # completed.ip
        \/ device' # None /\ \E a \in addresses : a.ip = completed.ip
    <3> DEFINE d == device'
               ip == completed.ip
    <3>1. d \in ResolveIp(ip)
      BY <2>1
    <3> HIDE DEF d, ip
    <3>2. \/ d = None /\ \A a \in addresses : a.ip # ip
          \/ d # None /\ \E a \in addresses : a.ip = ip
      BY <1>0, <3>1, ResolveIpFacts
    <3> QED
      BY <3>2 DEF d, ip
  <2>3. CASE pc' = "allot"
    BY <2>1, <2>2, <2>3 DEF PlaceInv, GettingDevice
  <2>4. CASE pc' = "insert"
    BY <2>1, <2>2, <2>4 DEF PlaceInv, GettingDevice
  <2> QED
    BY <2>1, <2>3, <2>4
<1>2. CASE ObservePlaceholder
  <2> DEFINE row == [device |-> device, ip |-> completed.ip, mac |-> None, host |-> None,
                     at |-> completed.at]
  <2>1. /\ pc = "observe" /\ pc' = "insert" /\ UNCHANGED <<device, completed, rows>>
        /\ addresses' = addresses \cup {row}
    BY <1>2 DEF ObservePlaceholder, RecordObservation, persistVars
  <2>2. row.device = device /\ row.ip = completed.ip
    OBVIOUS
  <2> HIDE DEF row
  <2>3. completed.ip \in Candidates /\ \A a \in addresses : a.ip # completed.ip
    BY <2>1 DEF PlaceInv, GettingDevice
  <2>4. device # None
    BY <1>0, <2>1
  <2> QED
    BY <2>1, <2>2, <2>3, <2>4 DEF PlaceInv, GettingDevice
<1>3. CASE InsertQuery
  <2> DEFINE row == [n |-> completed.n, ip |-> completed.ip,
                     domain |-> completed.domain, at |-> completed.at, device |-> device,
                     status |-> completed.status, merged |-> completed.merged]
  <2>1. /\ pc = "insert" /\ pc' \in {"down", "reading"} /\ addresses' = addresses
        /\ rows' = Append(rows, row)
    BY <1>3 DEF InsertQuery, storeVars
  <2>2. row.device = device /\ row.ip = completed.ip
    OBVIOUS
  <2> HIDE DEF row
  <2>3. \A i \in DOMAIN rows' : (i \in DOMAIN rows /\ rows'[i] = rows[i]) \/ rows'[i] = row
    BY <1>0, <2>1
  <2>4. row.device = None <=> row.ip \notin Candidates
    BY <2>1, <2>2 DEF PlaceInv
  <2>5. \A i \in DOMAIN rows' : rows'[i].device = None <=> rows'[i].ip \notin Candidates
    BY <2>3, <2>4 DEF PlaceInv
  <2> QED
    BY <2>1, <2>5 DEF PlaceInv, GettingDevice
<1>4. CASE AllotDevice
  BY <1>a, <1>4 DEF AllotDevice, storeVars, GettingDevice
<1>5. CASE CreatePlaceholder
  BY <1>a, <1>5 DEF CreatePlaceholder, InsertDevice, persistVars, GettingDevice
<1>6. CASE ReadStatus
  BY <1>a, <1>6 DEF ReadStatus, storeVars, GettingDevice
<1>7. CASE Dnsmasq
  BY <1>a, <1>7 DEF Dnsmasq, LogQuery, LogReply, storeVars, persistVars
<1>8. CASE Poll
  BY <1>a, <1>8 DEF Poll, StartPoll, ReadQuery, ReadReply, EndOfFile, TruncatePos, CommitPos,
                    storeVars, persistVars, GettingDevice
<1>9. CASE Kill \/ Abort \/ Restart
  BY <1>a, <1>9 DEF Kill, Abort, Unwind, Restart, storeVars, GettingDevice
<1>10. CASE ReadFails \/ Rotate
  BY <1>a, <1>10 DEF ReadFails, Rotate, storeVars, persistVars, GettingDevice
<1>11. CASE Clock \/ UNCHANGED vars
  BY <1>a, <1>11 DEF Clock, Tick, vars, ingestVars, storeVars, persistVars
<1> QED
  BY <1>1, <1>2, <1>3, <1>4, <1>5, <1>6, <1>7, <1>8, <1>9, <1>10, <1>11
  DEF Next, IngestNext, Ingester, Persist, FaultStep

\* Whatever the faults, no address ever has two devices, and a stored query
\* names a device exactly when it came from a LAN address (_persist).
THEOREM PlaceholdersPerAddress == Spec => []OnePlaceholderPerIp
<1>1. Init => PlaceInv
  BY DEF Init, StoreInit, IngestInit, PlaceInv, GettingDevice
<1>2. TypeOK /\ PlaceInv /\ [Next]_vars => PlaceInv'
  BY PlaceStep
<1>3. PlaceInv => OnePlaceholderPerIp
  BY DEF PlaceInv, OnePlaceholderPerIp
<1> QED
  BY <1>1, <1>2, <1>3, TypeCorrect, PTL DEF Spec

-----------------------------------------------------------------------------
(* Devices without an address.                                             *)

\* The devices without an address row, but for the one the daemon is about to
\* give one.
Unaddressed ==
  {d \in Stored : /\ \A a \in addresses : a.device # d
                  /\ pc \in {"status", "observe"} => d # device}

OrphanInv == Cardinality(Unaddressed) <= faults

LEMMA OrphansAreUnaddressed == OrphansBounded <=> OrphanInv
<1> DEFINE orphans == {d \in Stored : \A a \in addresses : a.device # d}
           unfinished == IF pc \in {"status", "observe"} THEN {device} ELSE {}
<1>1. OrphansBounded <=> Cardinality(orphans \ unfinished) <= faults
  BY DEF OrphansBounded
<1>2. orphans \ unfinished = Unaddressed
  BY DEF Unaddressed
<1> HIDE DEF orphans, unfinished
<1> QED
  BY <1>1, <1>2 DEF OrphanInv

LEMMA OrphanStep ==
  ASSUME TypeOK, TypeOK', OrphanInv, [Next]_vars
  PROVE  OrphanInv'
<1>0. /\ StoreTypeOK /\ faults \in Nat /\ faults' \in Nat
      /\ IsFiniteSet(Unaddressed) /\ Cardinality(Unaddressed) \in Nat
      /\ IsFiniteSet(Unaddressed') /\ Cardinality(Unaddressed') \in Nat
  <2>1. Unaddressed \in SUBSET DeviceIds /\ Unaddressed' \in SUBSET DeviceIds
    BY DEF Unaddressed, Stored
  <2>2. faults \in Nat /\ faults' \in Nat /\ StoreTypeOK
    BY IngestAssumption DEF TypeOK, IngestTypeOK
  <2> QED
    BY <2>1, <2>2, FiniteDevices
<1>a. ASSUME Unaddressed' \subseteq Unaddressed, faults <= faults'
      PROVE  OrphanInv'
  <2>1. Cardinality(Unaddressed') <= Cardinality(Unaddressed)
    BY <1>0, <1>a, FS_Subset
  <2> QED
    BY <1>0, <1>a, <2>1 DEF OrphanInv
\* A step that writes no device table and keeps the daemon where it is.
<1>b. ASSUME UNCHANGED <<devices, addresses>>, faults <= faults',
             pc \in {"status", "observe"} => pc' \in {"status", "observe"} /\ device' = device
      PROVE  OrphanInv'
  <2>1. Unaddressed' \subseteq Unaddressed
    BY <1>b DEF Unaddressed, Stored
  <2> QED
    BY <1>a, <1>b, <2>1
\* A fault leaves one device at most.
<1>c. ASSUME UNCHANGED <<devices, addresses>>, faults' = faults + 1
      PROVE  OrphanInv'
  <2> DEFINE more == Unaddressed \cup {device}
  <2>1. Unaddressed' \subseteq more
    BY <1>c DEF Unaddressed, Stored
  <2>2. IsFiniteSet(more) /\ Cardinality(more) \in Nat /\ Cardinality(more) <= Cardinality(Unaddressed) + 1
    <3>1. IsFiniteSet(more)
            /\ Cardinality(more) = IF device \in Unaddressed THEN Cardinality(Unaddressed)
                                   ELSE Cardinality(Unaddressed) + 1
      BY <1>0, FS_AddElement
    <3> QED
      BY <1>0, <3>1
  <2> HIDE DEF more
  <2>3. Cardinality(Unaddressed') <= Cardinality(more)
    BY <2>1, <2>2, FS_Subset
  <2> QED
    BY <1>0, <1>c, <2>2, <2>3 DEF OrphanInv
<1>1. CASE CreatePlaceholder
  <2>1. /\ pc' = "status" /\ device' = device /\ addresses' = addresses /\ faults' = faults
        /\ device \in DeviceIds
        /\ \A d \in DeviceIds : d # device => devices'[d] = devices[d]
    BY <1>0, <1>1 DEF CreatePlaceholder, InsertDevice, persistVars, history, StoreTypeOK
  <2>2. Unaddressed' \subseteq Unaddressed
    <3> SUFFICES ASSUME NEW d \in Unaddressed' PROVE d \in Unaddressed
      OBVIOUS
    <3>1. d \in DeviceIds /\ devices'[d] # None /\ d # device /\ \A a \in addresses : a.device # d
      BY <2>1 DEF Unaddressed, Stored
    <3> QED
      BY <2>1, <3>1 DEF Unaddressed, Stored
  <2> QED
    BY <1>0, <1>a, <2>1, <2>2
<1>2. CASE ObservePlaceholder
  <2> DEFINE row == [device |-> device, ip |-> completed.ip, mac |-> None, host |-> None,
                     at |-> completed.at]
  <2>1. /\ pc = "observe" /\ faults' = faults
        /\ addresses' = addresses \cup {row}
        /\ \A d \in DeviceIds : d # device => devices'[d] = devices[d]
    BY <1>0, <1>2 DEF ObservePlaceholder, RecordObservation, history, StoreTypeOK
  <2>2. row.device = device
    OBVIOUS
  <2> HIDE DEF row
  <2>3. Unaddressed' \subseteq Unaddressed
    <3> SUFFICES ASSUME NEW d \in Unaddressed' PROVE d \in Unaddressed
      OBVIOUS
    <3>1. d \in DeviceIds /\ devices'[d] # None /\ \A a \in addresses' : a.device # d
      BY DEF Unaddressed, Stored
    <3>2. d # device /\ \A a \in addresses : a.device # d
      BY <2>1, <2>2, <3>1
    <3> QED
      BY <2>1, <3>1, <3>2 DEF Unaddressed, Stored
  <2> QED
    BY <1>0, <1>a, <2>1, <2>3
<1>3. CASE ReadStatus
  BY <1>0, <1>b, <1>3 DEF ReadStatus, storeVars, history
<1>4. CASE ResolveDevice \/ AllotDevice \/ InsertQuery
  BY <1>0, <1>b, <1>4 DEF ResolveDevice, AllotDevice, InsertQuery, storeVars, history
<1>5. CASE Dnsmasq
  <2>1. UNCHANGED <<devices, addresses, pc, device, faults>>
    BY <1>5 DEF Dnsmasq, LogQuery, LogReply, storeVars, persistVars, history
  <2> QED
    BY <1>0, <1>b, <2>1
<1>6. CASE Poll
  BY <1>0, <1>b, <1>6 DEF Poll, StartPoll, ReadQuery, ReadReply, EndOfFile, TruncatePos,
                          CommitPos, storeVars, persistVars, history
<1>7. CASE FaultStep
  BY <1>c, <1>7 DEF FaultStep, Abort, Kill, ReadFails, Rotate, Unwind, Fault, storeVars
<1>8. CASE Restart \/ Clock \/ UNCHANGED vars
  BY <1>0, <1>b, <1>8 DEF Restart, Clock, Tick, vars, ingestVars, storeVars, persistVars, history
<1> QED
  BY <1>1, <1>2, <1>3, <1>4, <1>5, <1>6, <1>7, <1>8
  DEF Next, IngestNext, Ingester, Persist

\* Each fault leaves at most one device without an address row: the one that
\* create_device committed and record_observation had not reached.
THEOREM OrphansTheorem == Spec => []OrphansBounded
<1>1. Init => OrphanInv
  <2> SUFFICES ASSUME Init PROVE OrphanInv
    OBVIOUS
  <2>1. Unaddressed = {} /\ faults = 0
    BY DEF Init, StoreInit, IngestInit, Unaddressed, Stored
  <2> QED
    BY <2>1, FS_EmptySet DEF OrphanInv
<1>2. TypeOK /\ TypeOK' /\ OrphanInv /\ [Next]_vars => OrphanInv'
  BY OrphanStep
<1>3. OrphanInv => OrphansBounded
  BY OrphansAreUnaddressed
<1> QED
  BY <1>1, <1>2, <1>3, TypeCorrect, PTL DEF Spec

-----------------------------------------------------------------------------
(***************************************************************************)
(* Replies.  The entry the parser buffers is the last query before the     *)
(* line it reads next, so a reply it merges was logged after that query    *)
(* and before the next one.  Two faults break this: a failed read keeps    *)
(* the entry and goes back, and a rotation puts another line at the old    *)
(* offset.  Without a fault nothing between the two queries is missed.     *)
(***************************************************************************)
NextOffset == IF pc = "idle" THEN pos ELSE handle

\* The answers for e among the first k lines.
AnswersUpTo(lines, e, k) ==
  {lines[i] : i \in {j \in 1 .. k : AnswerFor(lines[j], e)}}

\* What one more line adds to them.
Added(line, e) == IF AnswerFor(line, e) THEN {line} ELSE {}

\* No answer of another's; once the next query is logged, all of its own.
Fits(lines, e) == e.merged \subseteq AnswersUpTo(lines, e, Len(lines))

Complete(lines, e, last) ==
  e.merged = AnswersUpTo(lines, e, Len(lines)) /\ e.n < last

Settled(lines, e, last) ==
  Fits(lines, e) /\ (faults = 0 => Complete(lines, e, last))

\* The numbers in the log never go down.
Monotone == \A i, j \in 1 .. Len(log) : i < j => log[i].n <= log[j].n

\* The final flush has no buffered entry left, and ends the daemon.
Quiet ==
  /\ pc \in {"idle", "reading", "truncate", "commit"} => ~stopping
  /\ stopping => pending = None

OwnInv ==
  /\ LogInv /\ Monotone
  /\ pos <= Len(log) /\ handle <= Len(log)
  /\ pending # None =>
       /\ pc # "down" /\ Fits(log, pending)
       /\ pending.n = QueriesUpTo(NextOffset)
       /\ faults = 0 => pending.merged = AnswersUpTo(log, pending, NextOffset)
  /\ Quiet
  /\ completed # None => Settled(log, completed, issued)
  /\ \A i \in DOMAIN rows : Settled(log, rows[i], issued)

LEMMA UpToNext ==
  ASSUME NEW lines \in Seq(Line), NEW e, NEW k \in Nat, k < Len(lines)
  PROVE  AnswersUpTo(lines, e, k + 1) =
           AnswersUpTo(lines, e, k) \cup
             Added(lines[k + 1], e)
<1>1. \A j : j \in 1 .. k + 1 <=> j \in 1 .. k \/ j = k + 1
  OBVIOUS
<1>2. ASSUME NEW l
      PROVE  l \in AnswersUpTo(lines, e, k + 1) <=>
               \/ l \in AnswersUpTo(lines, e, k)
               \/ l = lines[k + 1] /\ AnswerFor(l, e)
  BY <1>1, Zenon DEF AnswersUpTo
<1> QED
  BY <1>2 DEF Added

LEMMA UpToMore ==
  ASSUME NEW lines \in Seq(Line), NEW e, NEW k \in Nat, k <= Len(lines)
  PROVE  AnswersUpTo(lines, e, k) \subseteq AnswersUpTo(lines, e, Len(lines))
<1>1. \A j : j \in 1 .. k => j \in 1 .. Len(lines)
  OBVIOUS
<1> QED
  BY <1>1 DEF AnswersUpTo

LEMMA UpToAppend ==
  ASSUME NEW lines \in Seq(Line), NEW line, NEW longer \in Seq(Line), NEW e,
         Len(longer) = Len(lines) + 1, longer[Len(lines) + 1] = line,
         \A i \in 1 .. Len(lines) : longer[i] = lines[i]
  PROVE  /\ \A k \in Nat : k <= Len(lines) =>
              AnswersUpTo(longer, e, k) = AnswersUpTo(lines, e, k)
         /\ AnswersUpTo(longer, e, Len(longer)) =
              AnswersUpTo(lines, e, Len(lines)) \cup Added(line, e)
<1>1. Len(lines) \in Nat
  OBVIOUS
<1>2. ASSUME NEW k \in Nat, k <= Len(lines)
      PROVE  AnswersUpTo(longer, e, k) = AnswersUpTo(lines, e, k)
  <2>1. \A i \in 1 .. k : longer[i] = lines[i]
    BY <1>1, <1>2
  <2> QED
    BY <2>1 DEF AnswersUpTo
<1>3. AnswersUpTo(longer, e, Len(lines) + 1) =
        AnswersUpTo(longer, e, Len(lines)) \cup Added(line, e)
  <2>1. \A k \in Nat : k < Len(longer) =>
          AnswersUpTo(longer, e, k + 1) =
            AnswersUpTo(longer, e, k) \cup Added(longer[k + 1], e)
    BY UpToNext
  <2>2. Len(lines) < Len(longer)
    BY <1>1
  <2> QED
    BY <1>1, <2>1, <2>2
<1> QED
  BY <1>1, <1>2, <1>3

\* Nothing logged from the next query on is an answer for e.
LEMMA NothingLater ==
  ASSUME NEW lines \in Seq(Line), NEW e, NEW k \in Nat, k <= Len(lines),
         \A j \in 1 .. Len(lines) : j > k => lines[j].n # e.n
  PROVE  AnswersUpTo(lines, e, Len(lines)) = AnswersUpTo(lines, e, k)
<1>1. \A j \in 1 .. Len(lines) : AnswerFor(lines[j], e) => j \in 1 .. k
  BY DEF AnswerFor
<1>2. \A j \in 1 .. k : j \in 1 .. Len(lines)
  OBVIOUS
<1>3. ASSUME NEW l
      PROVE  l \in AnswersUpTo(lines, e, Len(lines)) <=> l \in AnswersUpTo(lines, e, k)
  BY <1>1, <1>2, Zenon DEF AnswersUpTo
<1> QED
  BY <1>3

\* Nothing logged before e's query is an answer for e.
LEMMA NothingBefore ==
  ASSUME NEW lines \in Seq(Line), NEW e, NEW k \in Nat, k <= Len(lines),
         \A j \in 1 .. k : ~AnswerFor(lines[j], e)
  PROVE  AnswersUpTo(lines, e, k) = {}
  BY DEF AnswersUpTo

LEMMA MonotoneAppend ==
  ASSUME TypeOK, TypeOK', LogInv, Monotone, NEW line, log' = Append(log, line),
         line.n >= issued
  PROVE  Monotone'
<1>1. /\ log \in Seq(Line) /\ Len(log) \in Nat /\ log' \in Seq(Line) /\ issued \in Nat
      /\ Len(log') = Len(log) + 1 /\ log'[Len(log) + 1] = line
      /\ \A i \in 1 .. Len(log) : log'[i] = log[i] /\ log[i].n \in Nat
  BY LineFields, IngestAssumption DEF TypeOK, IngestTypeOK
<1>2. log'[Len(log) + 1] \in Line
  BY <1>1
<1>3. line.n \in Nat
  BY <1>1, <1>2, LineFields, IngestAssumption
<1>4. \A i \in 1 .. Len(log) : log[i].n <= line.n
  BY <1>1, <1>3 DEF LogInv
<1>5. ASSUME NEW i \in 1 .. Len(log'), NEW j \in 1 .. Len(log'), i < j
      PROVE  log'[i].n <= log'[j].n
  <2>1. i \in 1 .. Len(log) /\ log'[i] = log[i]
    BY <1>1, <1>5
  <2>2. CASE j = Len(log) + 1
    BY <1>1, <1>4, <2>1, <2>2
  <2>3. CASE j \in 1 .. Len(log)
    BY <1>1, <1>5, <2>1, <2>3 DEF Monotone
  <2> QED
    BY <1>1, <2>2, <2>3
<1> QED
  BY <1>5 DEF Monotone

LEMMA QuietStep ==
  ASSUME TypeOK, Quiet, [Next]_vars
  PROVE  Quiet'
<1>1. CASE Dnsmasq
  <2>1. UNCHANGED <<pc, stopping, pending>>
    BY <1>1 DEF Dnsmasq, LogQuery, LogReply, readVars
  <2> QED
    BY <2>1 DEF Quiet
<1>2. CASE Poll
  BY <1>2 DEF Poll, StartPoll, ReadQuery, ReadReply, EndOfFile, TruncatePos, CommitPos,
              readVars, Quiet
<1>3. CASE Persist
  BY <1>3 DEF Persist, ResolveDevice, AllotDevice, CreatePlaceholder, ReadStatus,
              ObservePlaceholder, InsertQuery, readVars, Quiet
<1>4. CASE FaultStep
  BY <1>4 DEF FaultStep, Abort, Unwind, Kill, ReadFails, Rotate, readVars, Quiet
<1>5. CASE Restart \/ Clock \/ UNCHANGED vars
  <2>1. UNCHANGED pending /\ (UNCHANGED <<pc, stopping>> \/ ~stopping')
    BY <1>5 DEF Restart, Clock, vars, ingestVars, readVars
  <2> QED
    BY <2>1 DEF Quiet
<1> QED
  BY <1>1, <1>2, <1>3, <1>4, <1>5 DEF Next, IngestNext, Ingester

LEMMA OwnStep ==
  ASSUME Faults \subseteq {"kill", "abort"},
         TypeOK, TypeOK', OwnInv, [Next]_vars
  PROVE  OwnInv'
<1>0. /\ pos \in Nat /\ handle \in Nat /\ log \in Seq(Line) /\ Len(log) \in Nat
      /\ rows \in Seq(Row) /\ issued \in Nat /\ faults \in Nat /\ faults' \in Nat
      /\ pending \in Entry \cup {None} /\ completed \in Entry \cup {None}
      /\ None \notin Entry /\ (completed # None <=> pc \in Persisting)
      /\ log' \in Seq(Line) /\ Len(log') \in Nat
  BY IngestAssumption DEF TypeOK, IngestTypeOK
<1>q. Quiet'
  BY QuietStep DEF OwnInv
\* What dnsmasq does.
<1>1. ASSUME NEW line, log' = Append(log, line),
             line.n = issued + (IF line.kind = "query" THEN 1 ELSE 0), issued' = line.n,
             UNCHANGED <<readVars, pc, stopping, persistVars, rows, faults>>
      PROVE  OwnInv'
  <2>1. LogInv' /\ Len(log') = Len(log) + 1
        /\ \A k \in 0 .. Len(log) : QueriesUpTo(k)' = QueriesUpTo(k)
    BY <1>1, LogInvAppend DEF OwnInv
  <2>2. UNCHANGED <<pos, handle, pending, completed, NextOffset>>
    BY <1>1 DEF readVars, persistVars, NextOffset
  <2>3. NextOffset \in 0 .. Len(log)
    BY <1>0 DEF OwnInv, NextOffset
  <2>4. QueriesUpTo(NextOffset)' = QueriesUpTo(NextOffset)
    BY <2>1, <2>2, <2>3
  <2>5. line.n >= issued /\ issued' >= issued
    BY <1>0, <1>1
  <2>6. Monotone'
    BY <1>1, <2>5, MonotoneAppend DEF OwnInv
  <2>7. pos' <= Len(log') /\ handle' <= Len(log')
    BY <1>0, <2>1, <2>2 DEF OwnInv
  <2>8. ASSUME NEW e
        PROVE  /\ \A k \in Nat : k <= Len(log) => AnswersUpTo(log', e, k) = AnswersUpTo(log, e, k)
               /\ AnswersUpTo(log', e, Len(log')) =
                    AnswersUpTo(log, e, Len(log)) \cup Added(line, e)
    <3>1. /\ log' \in Seq(Line) /\ log \in Seq(Line)
          /\ Len(log') = Len(log) + 1 /\ log'[Len(log) + 1] = line
          /\ \A i \in 1 .. Len(log) : log'[i] = log[i]
      BY <1>0, <1>1
    <3> QED
      BY <3>1, UpToAppend
  <2>9. ASSUME NEW e, Fits(log, e) PROVE Fits(log', e)
    BY <2>8, <2>9 DEF Fits
  <2>10. ASSUME NEW e, e.n \in Nat, Complete(log, e, issued) PROVE Complete(log', e, issued')
    <3>1. ~AnswerFor(line, e)
      BY <1>0, <1>1, <2>10 DEF AnswerFor, Complete
    <3> QED
      BY <1>0, <1>1, <2>5, <2>8, <2>10, <3>1 DEF Complete, Added
  <2>11. ASSUME NEW e, e.n \in Nat, Settled(log, e, issued)
         PROVE  Fits(log', e) /\ (faults = 0 => Complete(log', e, issued'))
    BY <2>9, <2>10, <2>11 DEF Settled
  <2>12. completed # None => Fits(log', completed)
                             /\ (faults = 0 => Complete(log', completed, issued'))
    <3>1. completed # None => completed.n \in Nat
      BY <1>0, IngestAssumption DEF Entry, QueryNo
    <3> QED
      BY <1>1, <2>2, <2>11, <3>1 DEF OwnInv, Settled
  <2>13. \A i \in DOMAIN rows : Fits(log', rows[i])
                                /\ (faults = 0 => Complete(log', rows[i], issued'))
    <3>0. \A i \in DOMAIN rows : rows[i] \in Row
      BY <1>0
    <3>1. \A i \in DOMAIN rows : rows[i].n \in Nat
      BY <3>0, IngestAssumption DEF Row, QueryNo
    <3>2. \A i \in DOMAIN rows : Settled(log, rows[i], issued)
      BY DEF OwnInv
    <3> QED
      BY <2>11, <3>1, <3>2
  <2>14. pending # None =>
           /\ Fits(log', pending)
           /\ faults = 0 => pending.merged = AnswersUpTo(log', pending, NextOffset)
    <3>1. pending # None => Fits(log, pending)
                           /\ (faults = 0 => pending.merged = AnswersUpTo(log, pending, NextOffset))
      BY DEF OwnInv
    <3>2. NextOffset \in Nat /\ NextOffset <= Len(log)
      BY <1>0, <2>3
    <3> QED
      BY <2>8, <2>9, <3>1, <3>2
  <2>15. pending' # None => pc' # "down" /\ pending'.n = QueriesUpTo(NextOffset)'
    BY <1>1, <2>2, <2>4 DEF OwnInv
  <2> QED
    BY <1>q, <1>1, <2>1, <2>2, <2>6, <2>7, <2>12, <2>13, <2>14, <2>15 DEF OwnInv, Settled
<1>2. ASSUME NEW ip \in Ips, NEW domain \in Domains, LogQuery(ip, domain)
      PROVE  OwnInv'
  BY <1>0, <1>1, <1>2 DEF LogQuery, history
<1>3. ASSUME NEW domain \in Domains, NEW outcome \in Outcome,
             LogReply(domain, outcome)
      PROVE  OwnInv'
  BY <1>0, <1>1, <1>3 DEF LogReply, history
\* The other steps leave the log alone.
<1>4. ASSUME UNCHANGED <<log, issued>>, pos' <= Len(log), handle' <= Len(log),
             pending' # None =>
               /\ pc' # "down" /\ Fits(log, pending')
               /\ pending'.n = QueriesUpTo(NextOffset)'
               /\ faults' = 0 => pending'.merged = AnswersUpTo(log, pending', NextOffset'),
             completed' # None => Fits(log, completed')
                                  /\ (faults' = 0 => Complete(log, completed', issued)),
             \A i \in DOMAIN rows' : Fits(log, rows'[i])
                                     /\ (faults' = 0 => Complete(log, rows'[i], issued))
      PROVE  OwnInv'
  <2>1. LogInv' /\ Monotone'
    BY <1>4 DEF OwnInv, LogInv, QueriesUpTo, Monotone
  <2> QED
    BY <1>q, <1>4, <2>1 DEF OwnInv, Settled
<1>5. ASSUME UNCHANGED <<log, NextOffset>>
      PROVE  QueriesUpTo(NextOffset)' = QueriesUpTo(NextOffset)
  BY <1>5 DEF QueriesUpTo
\* A step that moves neither the offsets nor the entries.
<1>6. ASSUME UNCHANGED <<log, issued, pos, handle, pending, rows, faults, NextOffset>>,
             UNCHANGED completed \/ completed' = None,
             pending # None => pc' # "down"
      PROVE  OwnInv'
  BY <1>0, <1>4, <1>5, <1>6 DEF OwnInv, Settled
<1>7. CASE StartPoll
  <2>1. pos <= Len(log) /\ handle' = pos /\ pending' = pending /\ pc = "idle" /\ pc' = "reading"
        /\ UNCHANGED <<log, issued, pos, completed, rows, faults>>
    BY <1>0, <1>7 DEF StartPoll, OwnInv, logVars, persistVars
  <2>2. NextOffset' = NextOffset
    BY <2>1 DEF NextOffset
  <2> QED
    BY <1>4, <1>5, <2>1, <2>2 DEF OwnInv, Settled
<1>8. CASE ReadQuery
  <2> DEFINE line == log[handle + 1]
  <2>1. /\ pc = "reading" /\ handle < Len(log) /\ handle' = handle + 1 /\ completed' = pending
        /\ line.kind = "query" /\ pending' = NewEntry(line) /\ pc' \in {"reading", "resolve"}
        /\ UNCHANGED <<log, issued, pos, rows, faults>>
    BY <1>8 DEF ReadQuery, logVars, history
  <2>2. /\ pending'.n = line.n /\ pending'.merged = {}
        /\ handle + 1 \in 1 .. Len(log) /\ line \in Line
    BY <1>0, <2>1 DEF NewEntry
  <2>3. QueriesUpTo(NextOffset)' = line.n
    BY <1>0, <2>1 DEF QueriesUpTo, NextOffset
  <2>4. /\ QueriesUpTo(handle) \in Nat /\ line.n = QueriesUpTo(handle) + 1 /\ line.n <= issued
        /\ line.n \in Nat
    <3>1. (handle + 1) - 1 = handle /\ QueriesUpTo(handle) \in Nat
      BY <1>0, LineFields, IngestAssumption DEF QueriesUpTo, OwnInv
    <3> QED
      BY <2>1, <2>2, <3>1 DEF OwnInv, LogInv
  <2>5. \A j \in 1 .. Len(log) : log[j].n \in Nat
    BY <1>0, LineFields, IngestAssumption
  <2>6. \A j \in 1 .. Len(log) : j > handle => log[j].n >= line.n
    BY <1>0, <2>2, <2>4, <2>5 DEF OwnInv, Monotone
  <2>7. \A j \in 1 .. Len(log) : j <= handle => log[j].n <= QueriesUpTo(handle)
    BY <1>0, <2>2, <2>5 DEF OwnInv, Monotone, QueriesUpTo
  <2>8. NextOffset = handle /\ NextOffset' = handle + 1
    BY <2>1 DEF NextOffset
  <2>9. \A j \in 1 .. handle + 1 : ~AnswerFor(log[j], pending')
    <3>1. ASSUME NEW j \in 1 .. handle + 1, AnswerFor(log[j], pending') PROVE FALSE
      <4>1. CASE j = handle + 1
        BY <2>1, <3>1, <4>1 DEF AnswerFor
      <4>2. CASE j <= handle
        <5>1. j \in 1 .. Len(log) /\ log[j].n = line.n
          BY <1>0, <2>1, <2>2, <3>1, <4>2 DEF AnswerFor
        <5> QED
          BY <2>4, <2>5, <2>7, <4>2, <5>1
      <4> QED
        BY <1>0, <4>1, <4>2
    <3> QED
      BY <3>1
  <2>10. AnswersUpTo(log, pending', handle + 1) = {}
    BY <1>0, <2>1, <2>2, <2>9, NothingBefore
  <2>11. ASSUME pending # None
         PROVE  /\ Fits(log, pending)
                /\ faults = 0 => Complete(log, pending, issued)
    <3>1. pending.n = QueriesUpTo(handle) /\ Fits(log, pending)
          /\ (faults = 0 => pending.merged = AnswersUpTo(log, pending, handle))
      BY <2>8, <2>11 DEF OwnInv
    <3>2. pending.n < line.n /\ pending.n < issued
      BY <1>0, <2>4, <3>1
    <3>3. \A j \in 1 .. Len(log) : j > handle => log[j].n # pending.n
      BY <2>4, <2>5, <2>6, <3>1, <3>2
    <3>4. AnswersUpTo(log, pending, Len(log)) = AnswersUpTo(log, pending, handle)
      BY <1>0, <2>1, <3>3, NothingLater
    <3> QED
      BY <3>1, <3>2, <3>4 DEF Complete
  <2> HIDE DEF line
  <2>12. handle' <= Len(log) /\ pc' # "down" /\ Fits(log, pending')
    BY <1>0, <2>1, <2>2 DEF Fits
  <2> QED
    BY <1>4, <2>1, <2>2, <2>3, <2>8, <2>10, <2>11, <2>12 DEF OwnInv, Settled
<1>9. CASE ReadReply
  <2> DEFINE line == log[handle + 1]
  <2>1. /\ pc = "reading" /\ pc' = "reading" /\ handle < Len(log) /\ handle' = handle + 1
        /\ line.kind = "reply" /\ UNCHANGED <<log, issued, pos, completed, rows, faults>>
        /\ pending' = IF pending # None /\ pending.domain = line.domain
                      THEN MergeReply(pending, line) ELSE pending
    BY <1>9 DEF ReadReply, logVars, persistVars, history
  <2>2. handle + 1 \in 1 .. Len(log) /\ line \in Line /\ handle' <= Len(log)
    BY <1>0, <2>1
  <2>3. line.n = QueriesUpTo(handle)
    <3>1. (handle + 1) - 1 = handle /\ QueriesUpTo(handle) \in Nat
      BY <1>0, LineFields, IngestAssumption DEF QueriesUpTo, OwnInv
    <3> QED
      BY <2>1, <2>2, <3>1 DEF OwnInv, LogInv
  <2>4. QueriesUpTo(NextOffset)' = line.n
    BY <1>0, <2>1 DEF QueriesUpTo, NextOffset
  <2>5. NextOffset = handle /\ NextOffset' = handle + 1
    BY <2>1 DEF NextOffset
  <2>6. ASSUME NEW e
        PROVE  /\ AnswersUpTo(log, e, handle + 1) =
                    AnswersUpTo(log, e, handle) \cup Added(line, e)
               /\ AnswersUpTo(log, e, handle + 1) \subseteq AnswersUpTo(log, e, Len(log))
    BY <1>0, <2>1, UpToNext, UpToMore
  <2> HIDE DEF line
  <2>7. ASSUME NEW e \in Entry, NEW f \in Entry, f.n = e.n, f.domain = e.domain
        PROVE  \A k : AnswersUpTo(log, f, k) = AnswersUpTo(log, e, k)
    BY <2>7 DEF AnswersUpTo, AnswerFor
  <2>8. ASSUME pending # None
        PROVE  /\ pending' \in Entry /\ pending'.n = pending.n
               /\ pending'.domain = pending.domain
               /\ pending'.merged =
                    pending.merged \cup Added(line, pending)
    <3> DEFINE e == pending
    <3>1. e \in Entry /\ e.n = line.n
      BY <1>0, <2>3, <2>5, <2>8 DEF OwnInv
    <3>2. line.outcome \in Outcome
      BY <2>1, <2>2, LineFields
    <3>3. pending' = IF e.domain = line.domain THEN MergeReply(e, line) ELSE e
      BY <2>1, <2>8
    <3> HIDE DEF e
    <3>4. CASE e.domain # line.domain
      <4>1. ~AnswerFor(line, e)
        BY <3>4 DEF AnswerFor
      <4>2. pending' = e
        BY <3>3, <3>4
      <4> QED
        BY <3>1, <4>1, <4>2 DEF e, Added
    <3>5. CASE e.domain = line.domain /\ line.outcome = "NXDOMAIN"
      <4>1. ~AnswerFor(line, e)
        BY <3>5 DEF AnswerFor
      <4>2. pending' = [e EXCEPT !.status = "NXDOMAIN"]
        BY <3>3, <3>5 DEF MergeReply
      <4>3. pending' \in Entry /\ pending'.n = e.n /\ pending'.domain = e.domain
            /\ pending'.merged = e.merged
        BY <3>1, <4>2 DEF Entry, Outcome
      <4> QED
        BY <4>1, <4>3 DEF e, Added
    <3>6. CASE e.domain = line.domain /\ line.outcome # "NXDOMAIN"
      <4>1. AnswerFor(line, e)
        BY <2>1, <3>1, <3>2, <3>6 DEF AnswerFor, Outcome
      <4>2. pending' = [e EXCEPT !.merged = e.merged \cup {line}]
        BY <3>3, <3>6 DEF MergeReply
      <4>3. pending' \in Entry /\ pending'.n = e.n /\ pending'.domain = e.domain
            /\ pending'.merged = e.merged \cup {line}
        BY <2>2, <3>1, <4>2 DEF Entry
      <4> QED
        BY <4>1, <4>3 DEF e, Added
    <3> QED
      BY <3>4, <3>5, <3>6
  <2>9. ASSUME pending # None
        PROVE  /\ Fits(log, pending')
               /\ faults = 0 => pending'.merged = AnswersUpTo(log, pending', handle + 1)
    <3> DEFINE e == pending
               f == pending'
    <3>1. e \in Entry /\ Fits(log, e) /\ (faults = 0 => e.merged = AnswersUpTo(log, e, handle))
      BY <1>0, <2>5, <2>9 DEF OwnInv
    <3>2. f \in Entry /\ f.n = e.n /\ f.domain = e.domain
          /\ f.merged = e.merged \cup Added(line, e)
      BY <2>8, <2>9
    <3> HIDE DEF e, f
    <3>3. \A k : AnswersUpTo(log, f, k) = AnswersUpTo(log, e, k)
      BY <2>7, <3>1, <3>2
    <3>4. Fits(log, f)
      BY <2>6, <3>1, <3>2, <3>3 DEF Fits
    <3>5. faults = 0 => f.merged = AnswersUpTo(log, f, handle + 1)
      BY <2>6, <3>1, <3>2, <3>3
    <3> QED
      BY <3>4, <3>5 DEF f
  <2>10. pending' # None => pending # None
    BY <2>1
  <2>11. pending # None => pending'.n = line.n
    BY <2>3, <2>5, <2>8 DEF OwnInv
  <2> QED
    BY <1>4, <2>1, <2>2, <2>4, <2>5, <2>9, <2>10, <2>11 DEF OwnInv, Settled
<1>10. CASE EndOfFile
  BY <1>6, <1>10 DEF EndOfFile, persistVars, logVars, readVars, history, NextOffset
<1>11. CASE TruncatePos
  <2>1. NextOffset' = NextOffset
    BY <1>11 DEF TruncatePos, NextOffset
  <2> QED
    BY <1>0, <1>4, <1>5, <1>11, <2>1 DEF TruncatePos, OwnInv, Settled, logVars, persistVars, history
<1>12. CASE CommitPos
  <2>1. NextOffset' = NextOffset
    BY <1>12 DEF CommitPos, NextOffset
  <2> QED
    BY <1>0, <1>4, <1>5, <1>12, <2>1 DEF CommitPos, OwnInv, Settled, logVars, persistVars, history
<1>13. CASE ResolveDevice \/ AllotDevice \/ CreatePlaceholder \/ ReadStatus \/ ObservePlaceholder
  <2>1. /\ UNCHANGED <<log, issued, pos, handle, pending, rows, faults, completed>>
        /\ pc \in Persisting /\ pc' \in Persisting
    BY <1>13 DEF ResolveDevice, AllotDevice, CreatePlaceholder, ReadStatus,
                 ObservePlaceholder, persistVars, logVars, readVars, history, Persisting
  <2>2. NextOffset' = NextOffset /\ pc' # "down"
    BY <2>1 DEF NextOffset, Persisting
  <2> QED
    BY <1>6, <2>1, <2>2
<1>14. CASE InsertQuery
  <2> DEFINE row == [n |-> completed.n, ip |-> completed.ip,
                     domain |-> completed.domain, at |-> completed.at, device |-> device,
                     status |-> completed.status, merged |-> completed.merged]
  <2>1. /\ pc = "insert" /\ rows' = Append(rows, row) /\ completed' = None
        /\ pc' = IF stopping THEN "down" ELSE "reading"
        /\ UNCHANGED <<log, issued, pos, handle, pending, faults>>
    BY <1>14 DEF InsertQuery, logVars, readVars, history
  <2>2. row.n = completed.n /\ row.merged = completed.merged /\ row.domain = completed.domain
    OBVIOUS
  <2> HIDE DEF row
  <2>3. \A k : AnswersUpTo(log, row, k) = AnswersUpTo(log, completed, k)
    BY <2>2 DEF AnswersUpTo, AnswerFor
  <2>4. Settled(log, row, issued)
    <3>1. Settled(log, completed, issued)
      BY <1>0, <2>1 DEF OwnInv, Persisting
    <3> QED
      BY <2>2, <2>3, <3>1 DEF Settled, Fits, Complete
  <2>5. \A i \in DOMAIN rows' : (i \in DOMAIN rows /\ rows'[i] = rows[i]) \/ rows'[i] = row
    BY <1>0, <2>1
  <2>6. \A i \in DOMAIN rows' : Settled(log, rows'[i], issued)
    BY <2>4, <2>5 DEF OwnInv
  <2>7. NextOffset' = NextOffset
    BY <2>1 DEF NextOffset
  <2>8. pending' # None => pc' # "down"
    BY <2>1 DEF OwnInv, Quiet
  <2> QED
    BY <1>0, <1>4, <1>5, <2>1, <2>6, <2>7, <2>8 DEF OwnInv, Settled
<1>15. CASE Abort
  <2>1. /\ UNCHANGED <<log, issued, pos, handle, rows>> /\ pending' = None
        /\ completed' \in {None, pending} /\ faults' # 0
    BY <1>0, <1>15 DEF Abort, Unwind, Fault, logVars
  <2> QED
    BY <1>0, <1>4, <2>1 DEF OwnInv, Settled
<1>16. CASE Kill
  <2>1. /\ UNCHANGED <<log, issued, pos, handle, rows>> /\ pending' = None
        /\ completed' = None /\ faults' # 0
    BY <1>0, <1>16 DEF Kill, Fault, logVars
  <2> QED
    BY <1>0, <1>4, <2>1 DEF OwnInv, Settled
<1>17. ~ReadFails /\ ~Rotate
  BY DEF ReadFails, Rotate, Fault
<1>18. CASE Restart
  <2>1. /\ UNCHANGED <<log, issued, pos, handle, rows, pending, completed, faults>>
        /\ pc = "down"
    BY <1>18 DEF Restart, logVars, readVars, persistVars, history
  <2> QED
    BY <1>0, <1>4, <2>1 DEF OwnInv, Settled
<1>19. CASE Clock \/ UNCHANGED vars
  <2>1. UNCHANGED <<log, issued, pos, handle, rows, pending, completed, pc, faults>>
    BY <1>19 DEF Clock, vars, ingestVars, logVars, readVars, persistVars, history
  <2>2. NextOffset' = NextOffset
    BY <2>1 DEF NextOffset
  <2> QED
    BY <1>0, <1>4, <1>5, <2>1, <2>2 DEF OwnInv, Settled
<1> QED
  BY <1>2, <1>3, <1>7, <1>8, <1>9, <1>10, <1>11, <1>12, <1>13, <1>14, <1>15, <1>16, <1>17,
     <1>18, <1>19
  DEF Next, IngestNext, Dnsmasq, Ingester, Poll, Persist, FaultStep

\* However dnsmasq orders its replies and however often the daemon is killed
\* or thrown out of its loop, a row holds only answers about its own domain
\* logged between its query and the next one, and undisturbed it holds all of
\* them (LogParser, process_new_lines).
THEOREM AnswersTheorem ==
  ASSUME Faults \subseteq {"kill", "abort"}
  PROVE  Spec => []AnswersFit
<1>1. Init => OwnInv
  <2> SUFFICES ASSUME Init PROVE OwnInv
    OBVIOUS
  <2> QED
    BY DEF Init, IngestInit, OwnInv, LogInv, Monotone, QueriesUpTo, Quiet
<1>2. TypeOK /\ TypeOK' /\ OwnInv /\ [Next]_vars => OwnInv'
  BY OwnStep
<1>3. TypeOK /\ OwnInv => AnswersFit
  <2> SUFFICES ASSUME TypeOK, OwnInv PROVE AnswersFit
    OBVIOUS
  <2>1. log \in Seq(Line) /\ DOMAIN log = 1 .. Len(log)
    BY DEF TypeOK, IngestTypeOK
  <2>2. \A e : Answers(e) = AnswersUpTo(log, e, Len(log))
    BY <2>1 DEF Answers, AnswersUpTo
  <2> QED
    BY <2>2 DEF OwnInv, Settled, Fits, Complete, AnswersFit
<1> QED
  BY <1>1, <1>2, <1>3, TypeCorrect, PTL DEF Spec

-----------------------------------------------------------------------------
(***************************************************************************)
(* What a fault costs.  Queries are numbered in log order, and while the   *)
(* daemon stores an entry in a poll the one it buffers was read after the  *)
(* saved position: of the two in memory only one can be lost.  The queries *)
(* up to the file handle are counted too, since CommitPos moves the        *)
(* position there.                                                         *)
(***************************************************************************)
Sorted ==
  /\ \A i \in 1 .. Len(log) : log[i].n <= issued
  /\ \A i, j \in 1 .. Len(log) :
       i < j /\ log[i].kind = "query" /\ log[j].kind = "query" => log[i].n < log[j].n

Held == Recorded \cup InMemory

LostBefore(k) == QueriesBefore(k) \ Held

LossInv ==
  /\ Sorted /\ Quiet /\ pos <= Len(log) /\ handle <= Len(log)
  /\ InPoll => pos <= handle
  /\ InPoll /\ pc \in Persisting =>
       /\ pos < handle /\ log[handle].kind = "query"
       /\ pending # None /\ pending.n = log[handle].n
  /\ Cardinality(LostBefore(pos)) <= faults
  /\ InPoll => Cardinality(LostBefore(handle)) <= faults

LEMMA FiniteQueries ==
  ASSUME NEW S \in SUBSET QueryNo
  PROVE  IsFiniteSet(S) /\ Cardinality(S) \in Nat
<1>1. IsFiniteSet(QueryNo)
  BY FS_Interval, IngestAssumption DEF QueryNo
<1>2. IsFiniteSet(S)
  BY <1>1, FS_Subset
<1> QED
  BY <1>2, FS_CardinalityType

LEMMA AtMostOneMore ==
  ASSUME NEW S \in SUBSET QueryNo, NEW T \in SUBSET QueryNo, NEW x, T \subseteq S \cup {x}
  PROVE  Cardinality(T) <= Cardinality(S) + 1
<1> DEFINE more == S \cup {x}
<1>1. IsFiniteSet(S) /\ Cardinality(S) \in Nat
  BY FiniteQueries
<1>2. /\ IsFiniteSet(more) /\ Cardinality(more) \in Nat
      /\ Cardinality(more) <= Cardinality(S) + 1
  <2>1. /\ IsFiniteSet(more)
        /\ Cardinality(more) = IF x \in S THEN Cardinality(S) ELSE Cardinality(S) + 1
    BY <1>1, FS_AddElement
  <2> QED
    BY <1>1, <2>1
<1> HIDE DEF more
<1>3. Cardinality(T) <= Cardinality(more) /\ Cardinality(T) \in Nat
  BY <1>2, FiniteQueries, FS_Subset DEF more
<1> QED
  BY <1>1, <1>2, <1>3

LEMMA SortedAppend ==
  ASSUME TypeOK, TypeOK', Sorted, NEW line, log' = Append(log, line),
         line.n = issued + (IF line.kind = "query" THEN 1 ELSE 0), issued' = line.n
  PROVE  Sorted'
<1>1. /\ log \in Seq(Line) /\ Len(log) \in Nat /\ issued \in Nat /\ issued' \in Nat
      /\ \A i \in 1 .. Len(log) : log[i].n \in Nat
  BY LineFields, IngestAssumption DEF TypeOK, IngestTypeOK
<1>2. /\ Len(log') = Len(log) + 1 /\ log'[Len(log) + 1] = line
      /\ \A i \in 1 .. Len(log) : log'[i] = log[i]
  BY <1>1
<1>3. /\ issued <= issued' /\ (line.kind = "query" => issued < issued')
  BY <1>1
<1>4. \A i \in 1 .. Len(log') : log'[i].n <= issued'
  <2>1. \A i \in 1 .. Len(log') : i = Len(log) + 1 \/ i \in 1 .. Len(log)
    BY <1>1, <1>2
  <2> QED
    BY <1>1, <1>2, <1>3, <2>1 DEF Sorted
<1>5. ASSUME NEW i \in 1 .. Len(log'), NEW j \in 1 .. Len(log'), i < j,
             log'[i].kind = "query", log'[j].kind = "query"
      PROVE  log'[i].n < log'[j].n
  <2>1. i \in 1 .. Len(log) /\ (j = Len(log) + 1 \/ j \in 1 .. Len(log))
    BY <1>1, <1>2, <1>5
  <2>2. CASE j = Len(log) + 1
    BY <1>1, <1>2, <1>3, <1>5, <2>1, <2>2 DEF Sorted
  <2>3. CASE j \in 1 .. Len(log)
    BY <1>2, <1>5, <2>1, <2>3 DEF Sorted
  <2> QED
    BY <2>1, <2>2, <2>3
<1> QED
  BY <1>4, <1>5 DEF Sorted

\* What the daemon remembers.
LEMMA InMemoryFacts ==
  ASSUME TypeOK
  PROVE  /\ InMemory \in SUBSET QueryNo
         /\ InMemory = (IF pending = None THEN {} ELSE {pending.n})
                         \cup (IF completed = None THEN {} ELSE {completed.n})
  BY DEF TypeOK, IngestTypeOK, InMemory, Entry

LEMMA QueriesBeforeFacts ==
  ASSUME TypeOK, NEW k
  PROVE  /\ QueriesBefore(k) \in SUBSET QueryNo
         /\ LostBefore(k) \in SUBSET QueryNo
<1>1. \A i \in DOMAIN log : log[i].kind = "query" => log[i].n \in QueryNo
  BY LineFields DEF TypeOK, IngestTypeOK
<1> QED
  BY <1>1 DEF QueriesBefore, LostBefore

LEMMA LossStep ==
  ASSUME TypeOK, TypeOK', LossInv, [Next]_vars, ~Rotate
  PROVE  LossInv'
<1>0. /\ pos \in Nat /\ handle \in Nat /\ log \in Seq(Line) /\ Len(log) \in Nat
      /\ issued \in Nat /\ faults \in Nat /\ faults' \in Nat
      /\ pending \in Entry \cup {None} /\ completed \in Entry \cup {None}
      /\ (completed # None <=> pc \in Persisting)
      /\ None \notin Entry
  BY IngestAssumption DEF TypeOK, IngestTypeOK
<1>q. Quiet'
  BY QuietStep DEF LossInv
<1>n. \A k : /\ Cardinality(LostBefore(k)) \in Nat
             /\ LostBefore(k) \in SUBSET QueryNo
  BY QueriesBeforeFacts, FiniteQueries
<1>m. ASSUME NEW T \in SUBSET QueryNo, NEW k, T \subseteq LostBefore(k)
      PROVE  Cardinality(T) \in Nat /\ Cardinality(T) <= Cardinality(LostBefore(k))
  BY <1>m, QueriesBeforeFacts, FiniteQueries, FS_Subset
<1>l. LostBefore(pos)' \in SUBSET QueryNo /\ LostBefore(handle)' \in SUBSET QueryNo
  <2>1. \A i \in DOMAIN log' : log'[i].kind = "query" => log'[i].n \in QueryNo
    BY LineFields DEF TypeOK, IngestTypeOK
  <2> QED
    BY <2>1 DEF QueriesBefore, LostBefore
\* What dnsmasq does.
<1>1. ASSUME NEW line \in Line, log' = Append(log, line),
             line.n = issued + (IF line.kind = "query" THEN 1 ELSE 0), issued' = line.n,
             UNCHANGED <<readVars, pc, stopping, persistVars, rows, history>>
      PROVE  LossInv'
  <2>1. /\ \A k \in Nat : k <= Len(log) => QueriesBefore(k)' = QueriesBefore(k)
        /\ Len(log') = Len(log) + 1
    BY <1>0, <1>1, AppendAfter
  <2>2. UNCHANGED <<pos, handle, pending, pc, stopping, faults, Held, InPoll>>
    BY <1>1 DEF readVars, persistVars, history, Held, Recorded, InMemory, InPoll
  <2>3. LostBefore(pos)' = LostBefore(pos) /\ LostBefore(handle)' = LostBefore(handle)
    BY <1>0, <2>1, <2>2 DEF LostBefore, LossInv
  <2>4. Sorted'
    BY <1>1, SortedAppend DEF LossInv
  <2>5. handle \in 1 .. Len(log) => log'[handle] = log[handle]
    BY <1>0, <1>1
  <2>6. InPoll /\ pc \in Persisting => handle \in 1 .. Len(log)
    BY <1>0 DEF LossInv
  <2> QED
    BY <1>0, <1>q, <2>1, <2>2, <2>3, <2>4, <2>5, <2>6 DEF LossInv
<1>2. ASSUME NEW ip \in Ips, NEW domain \in Domains, LogQuery(ip, domain)
      PROVE  LossInv'
  <2> DEFINE line == [kind |-> "query", n |-> issued + 1, ip |-> ip, domain |-> domain, at |-> now]
  <2>1. line \in Line /\ line.n = issued + 1 /\ line.kind = "query"
    BY <1>2 DEF LogQuery, Line, QueryNo, TypeOK, IngestTypeOK, StoreTypeOK
  <2>2. /\ log' = Append(log, line) /\ issued' = issued + 1
        /\ UNCHANGED <<readVars, pc, stopping, persistVars, rows, history>>
    BY <1>2 DEF LogQuery
  <2> HIDE DEF line
  <2> QED
    BY <1>0, <1>1, <2>1, <2>2
<1>3. ASSUME NEW domain \in Domains, NEW outcome \in Outcome,
             LogReply(domain, outcome)
      PROVE  LossInv'
  <2> DEFINE line == [kind |-> "reply", n |-> issued, domain |-> domain,
                      outcome |-> outcome, address |-> replied + 1]
  <2>1. line \in Line /\ line.n = issued /\ line.kind = "reply"
    BY <1>3 DEF LogReply, Line, QueryNo, TypeOK, IngestTypeOK
  <2>2. /\ log' = Append(log, line) /\ issued' = issued
        /\ UNCHANGED <<readVars, pc, stopping, persistVars, rows, history>>
    BY <1>3 DEF LogReply
  <2> HIDE DEF line
  <2> QED
    BY <1>0, <1>1, <2>1, <2>2
\* The other steps leave the log alone.
<1>4. ASSUME UNCHANGED log
      PROVE  \A k \in Nat : QueriesBefore(k)' = QueriesBefore(k)
  BY <1>4 DEF QueriesBefore
\* A step that forgets nothing and moves no offset.
<1>5. ASSUME UNCHANGED <<log, issued, pos, handle>>, Held \subseteq Held', faults <= faults',
             InPoll' => InPoll,
             InPoll' /\ pc' \in Persisting => pc \in Persisting /\ pending' = pending
      PROVE  LossInv'
  <2>1. LostBefore(pos)' \subseteq LostBefore(pos) /\ LostBefore(handle)' \subseteq LostBefore(handle)
    BY <1>0, <1>4, <1>5 DEF LostBefore
  <2>2. /\ Cardinality(LostBefore(pos)') <= Cardinality(LostBefore(pos))
        /\ Cardinality(LostBefore(handle)') <= Cardinality(LostBefore(handle))
        /\ Cardinality(LostBefore(pos)') \in Nat /\ Cardinality(LostBefore(handle)') \in Nat
    BY <1>l, <1>m, <2>1
  <2>3. /\ Cardinality(LostBefore(pos)') <= faults'
        /\ InPoll' => Cardinality(LostBefore(handle)') <= faults'
    BY <1>0, <1>n, <1>5, <2>2 DEF LossInv
  <2>4. Sorted'
    BY <1>5 DEF Sorted, LossInv
  <2> QED
    BY <1>q, <1>5, <2>3, <2>4 DEF LossInv
\* A step out of the poll that loses one query.
<1>6. ASSUME UNCHANGED <<log, issued, pos, handle>>, faults' = faults + 1, ~InPoll',
             NEW x, LostBefore(pos)' \subseteq LostBefore(pos) \cup {x}
      PROVE  LossInv'
  <2>1. Cardinality(LostBefore(pos)') <= Cardinality(LostBefore(pos)) + 1
    BY <1>l, <1>n, <1>6, AtMostOneMore
  <2>2. Cardinality(LostBefore(pos)') \in Nat
    BY <1>l, FiniteQueries
  <2>3. Cardinality(LostBefore(pos)') <= faults'
    BY <1>0, <1>n, <1>6, <2>1, <2>2 DEF LossInv
  <2>4. Sorted'
    BY <1>6 DEF Sorted, LossInv
  <2> QED
    BY <1>q, <1>6, <2>3, <2>4 DEF LossInv
<1>7. CASE StartPoll
  <2>1. /\ pos <= Len(log) /\ handle' = pos /\ pc' = "reading"
        /\ UNCHANGED <<log, issued, pos, pending, completed, rows, faults>>
    BY <1>0, <1>7 DEF StartPoll, LossInv, logVars, persistVars
  <2>2. Held' = Held
    BY <2>1 DEF Held, Recorded, InMemory
  <2>3. LostBefore(pos)' = LostBefore(pos) /\ LostBefore(handle)' = LostBefore(pos)
    BY <1>0, <1>4, <2>1, <2>2 DEF LostBefore
  <2>4. Sorted' /\ pos' <= handle' /\ pc' \notin Persisting
    BY <1>0, <2>1 DEF Sorted, LossInv, Persisting
  <2> QED
    BY <1>q, <2>1, <2>3, <2>4 DEF LossInv
<1>8. CASE ReadQuery
  <2> DEFINE line == log[handle + 1]
  <2>1. /\ pc = "reading" /\ handle < Len(log) /\ handle' = handle + 1 /\ completed' = pending
        /\ pending' = NewEntry(line) /\ line.kind = "query" /\ completed = None
        /\ pc' = IF pending = None THEN "reading" ELSE "resolve"
        /\ UNCHANGED <<log, issued, pos, rows, faults>>
    BY <1>0, <1>8 DEF ReadQuery, logVars, history, Persisting
  <2>2. pending' # None /\ pending'.n = line.n
    <3>1. line \in Line
      BY <1>0, <2>1
    <3> QED
      BY <2>1, <3>1, LineFields, IngestAssumption DEF NewEntry, Entry, Outcome
  <2>3. Held' = Held \cup {line.n}
    <3>1. /\ InMemory = IF pending = None THEN {} ELSE {pending.n}
          /\ InMemory' = {line.n} \cup (IF pending = None THEN {} ELSE {pending.n})
      BY <2>1, <2>2 DEF InMemory
    <3>2. Recorded' = Recorded
      BY <2>1 DEF Recorded
    <3> HIDE DEF line
    <3> QED
      BY <3>1, <3>2 DEF Held
  <2>4. QueriesBefore(handle + 1) \subseteq QueriesBefore(handle) \cup {line.n}
    BY <2>1, OneMoreLine
  <2>5. log'[handle'].kind = "query" /\ pending'.n = log'[handle'].n
    BY <2>1, <2>2
  <2> HIDE DEF line
  <2>6. LostBefore(pos)' \subseteq LostBefore(pos) /\ LostBefore(handle)' \subseteq LostBefore(handle)
    BY <1>0, <1>4, <2>1, <2>3, <2>4 DEF LostBefore
  <2>7. /\ Cardinality(LostBefore(pos)') <= Cardinality(LostBefore(pos))
        /\ Cardinality(LostBefore(handle)') <= Cardinality(LostBefore(handle))
        /\ Cardinality(LostBefore(pos)') \in Nat /\ Cardinality(LostBefore(handle)') \in Nat
    BY <1>l, <1>m, <2>6
  <2>8. InPoll /\ pos <= handle
    BY <2>1 DEF LossInv, InPoll, Quiet
  <2>9. /\ Cardinality(LostBefore(pos)') <= faults'
        /\ Cardinality(LostBefore(handle)') <= faults'
    BY <1>0, <1>n, <2>1, <2>7, <2>8 DEF LossInv
  <2>10. Sorted' /\ pos' < handle' /\ handle' <= Len(log')
    BY <1>0, <2>1, <2>8 DEF Sorted, LossInv
  <2> QED
    BY <1>0, <1>q, <2>1, <2>2, <2>5, <2>9, <2>10 DEF LossInv
<1>9. CASE ReadReply
  <2> DEFINE line == log[handle + 1]
  <2>1. /\ pc = "reading" /\ pc' = "reading" /\ handle < Len(log) /\ handle' = handle + 1
        /\ line.kind = "reply" /\ UNCHANGED <<log, issued, pos, completed, rows, faults>>
        /\ pending' = IF pending # None /\ pending.domain = line.domain
                      THEN MergeReply(pending, line) ELSE pending
    BY <1>9 DEF ReadReply, logVars, persistVars, history
  <2>2. (pending' = None <=> pending = None) /\ (pending # None => pending'.n = pending.n)
    <3>1. line \in Line
      BY <1>0, <2>1
    <3> HIDE DEF line
    <3>2. pending # None => MergeReply(pending, line) \in Entry /\ MergeReply(pending, line).n = pending.n
      BY <1>0, <2>1, <3>1, MergeReplyType
    <3> QED
      BY <1>0, <2>1, <3>2
  <2>3. Held' = Held
    <3>1. InMemory' = InMemory
      BY <2>1, <2>2, InMemoryFacts DEF InMemory
    <3> QED
      BY <2>1, <3>1 DEF Held, Recorded
  <2>4. QueriesBefore(handle + 1) \subseteq QueriesBefore(handle)
    BY <2>1, OneMoreLine
  <2> HIDE DEF line
  <2>5. LostBefore(pos)' \subseteq LostBefore(pos) /\ LostBefore(handle)' \subseteq LostBefore(handle)
    BY <1>0, <1>4, <2>1, <2>3, <2>4 DEF LostBefore
  <2>6. /\ Cardinality(LostBefore(pos)') <= Cardinality(LostBefore(pos))
        /\ Cardinality(LostBefore(handle)') <= Cardinality(LostBefore(handle))
        /\ Cardinality(LostBefore(pos)') \in Nat /\ Cardinality(LostBefore(handle)') \in Nat
    BY <1>l, <1>m, <2>5
  <2>7. InPoll /\ pos <= handle
    BY <2>1 DEF LossInv, InPoll, Quiet
  <2>8. /\ Cardinality(LostBefore(pos)') <= faults'
        /\ Cardinality(LostBefore(handle)') <= faults'
    BY <1>0, <1>n, <2>1, <2>6, <2>7 DEF LossInv
  <2>9. Sorted' /\ pos' <= handle' /\ handle' <= Len(log') /\ pc' \notin Persisting
    BY <1>0, <2>1, <2>7 DEF Sorted, LossInv, Persisting
  <2> QED
    BY <1>0, <1>q, <2>1, <2>8, <2>9 DEF LossInv
<1>10. CASE EndOfFile
  <2>1. /\ pc = "reading" /\ pc' = "truncate" /\ stopping' = stopping
        /\ UNCHANGED <<log, issued, pos, handle, pending, completed, rows, faults>>
    BY <1>10 DEF EndOfFile, logVars, readVars, persistVars, history
  <2>2. Held' = Held
    BY <2>1 DEF Held, Recorded, InMemory
  <2> QED
    BY <1>0, <1>5, <2>1, <2>2 DEF InPoll, Persisting
<1>11. CASE TruncatePos
  <2>1. /\ pc = "truncate" /\ pc' = "commit" /\ pos' = 0
        /\ UNCHANGED <<log, issued, handle, pending, completed, rows, stopping, faults>>
    BY <1>11 DEF TruncatePos, logVars, persistVars, history
  <2>2. Held' = Held
    BY <2>1 DEF Held, Recorded, InMemory
  <2>3. LostBefore(pos)' = {} /\ LostBefore(handle)' = LostBefore(handle)
    BY <1>0, <1>4, <2>1, <2>2, EmptyBefore DEF LostBefore
  <2>4. Cardinality(LostBefore(pos)') = 0 /\ InPoll
    BY <2>1, <2>3, FS_EmptySet DEF InPoll, LossInv, Quiet
  <2>5. Sorted' /\ pos' <= handle' /\ pos' <= Len(log') /\ pc' \notin Persisting
    BY <1>0, <2>1 DEF Sorted, LossInv, Persisting
  <2> QED
    BY <1>0, <1>q, <2>1, <2>3, <2>4, <2>5 DEF LossInv
<1>12. CASE CommitPos
  <2>1. /\ pc = "commit" /\ pc' = "idle" /\ pos' = handle
        /\ UNCHANGED <<log, issued, handle, pending, completed, rows, stopping, faults>>
    BY <1>12 DEF CommitPos, logVars, persistVars, history
  <2>2. Held' = Held
    BY <2>1 DEF Held, Recorded, InMemory
  <2>3. LostBefore(pos)' = LostBefore(handle) /\ InPoll /\ ~InPoll'
    BY <1>0, <1>4, <2>1, <2>2 DEF LostBefore, InPoll, LossInv, Quiet, Persisting
  <2>4. Sorted' /\ pos' <= Len(log') /\ handle' <= Len(log')
    BY <1>0, <2>1 DEF Sorted, LossInv
  <2> QED
    BY <1>0, <1>q, <2>1, <2>3, <2>4 DEF LossInv
<1>13. CASE ResolveDevice \/ AllotDevice \/ CreatePlaceholder \/ ReadStatus \/ ObservePlaceholder
  <2>1. /\ pc \in Persisting /\ pc' \in Persisting
        /\ UNCHANGED <<log, issued, pos, handle, pending, completed, rows, stopping, faults>>
    BY <1>13 DEF ResolveDevice, AllotDevice, CreatePlaceholder, ReadStatus, ObservePlaceholder,
                 logVars, readVars, persistVars, history, Persisting
  <2>2. Held' = Held
    BY <2>1 DEF Held, Recorded, InMemory
  <2> QED
    BY <1>0, <1>5, <2>1, <2>2 DEF InPoll
<1>14. CASE InsertQuery
  <2> DEFINE row == [n |-> completed.n, ip |-> completed.ip,
                     domain |-> completed.domain, at |-> completed.at, device |-> device,
                     status |-> completed.status, merged |-> completed.merged]
  <2>1. /\ pc = "insert" /\ rows' = Append(rows, row) /\ completed' = None
        /\ pc' = IF stopping THEN "down" ELSE "reading"
        /\ UNCHANGED <<log, issued, pos, handle, pending, stopping, faults>>
    BY <1>14 DEF InsertQuery, logVars, readVars, history
  <2>2. row.n = completed.n
    OBVIOUS
  <2> HIDE DEF row
  <2>3. Recorded' = Recorded \cup {completed.n}
    BY <2>1, <2>2, RecordedGrows
  <2>4. InMemory \subseteq InMemory' \cup {completed.n}
    BY <2>1 DEF InMemory
  <2>5. Held \subseteq Held'
    BY <2>3, <2>4 DEF Held
  <2> QED
    BY <1>0, <1>5, <2>1, <2>5 DEF InPoll, Persisting
<1>15. CASE Abort
  <2>1. /\ completed' = IF stopping THEN None ELSE pending
        /\ (stopping => pending = None) /\ stopping' = TRUE /\ faults' = faults + 1
        /\ UNCHANGED <<log, issued, pos, handle, rows>>
    BY <1>15 DEF Abort, Unwind, Fault, logVars, LossInv, Quiet
  <2>2. ~InPoll'
    BY <2>1 DEF InPoll
  <2>3. Recorded' = Recorded /\ InMemory \subseteq InMemory' \cup {completed.n}
    BY <2>1 DEF Recorded, InMemory
  <2>4. LostBefore(pos)' \subseteq LostBefore(pos) \cup {completed.n}
    BY <1>0, <1>4, <2>1, <2>3 DEF LostBefore, Held
  <2> QED
    BY <1>6, <2>1, <2>2, <2>4
<1>16. CASE Kill
  <2>1. /\ pending' = None /\ completed' = None /\ faults' = faults + 1 /\ pc' = "down"
        /\ UNCHANGED <<log, issued, pos, handle, rows>>
    BY <1>16 DEF Kill, Fault, logVars
  <2>2. ~InPoll'
    BY <2>1 DEF InPoll, Persisting
  <2>3. Recorded' = Recorded
    BY <2>1 DEF Recorded
  <2>4. LostBefore(pos)' \subseteq LostBefore(pos) \cup (QueriesBefore(pos) \cap InMemory)
    BY <1>0, <1>4, <2>1, <2>3 DEF LostBefore, Held
  <2>5. CASE completed = None
    <3>1. InMemory \subseteq {pending.n}
      BY <2>5, InMemoryFacts
    <3>2. LostBefore(pos)' \subseteq LostBefore(pos) \cup {pending.n}
      BY <2>4, <3>1
    <3> QED
      BY <1>6, <2>1, <2>2, <3>2
  <2>6. CASE completed # None
    <3>1. QueriesBefore(pos) \cap InMemory \subseteq {completed.n}
      <4>1. CASE pending = None
        BY <4>1, InMemoryFacts
      <4>2. CASE pending # None
        <5>1. /\ InPoll /\ pc \in Persisting /\ pos < handle /\ handle \in 1 .. Len(log)
              /\ log[handle].kind = "query" /\ pending.n = log[handle].n
          BY <1>0, <2>6, <4>2 DEF InPoll, LossInv, Quiet
        <5>2. \A i \in DOMAIN log : log[i].n \in Nat
          BY <1>0, LineFields, IngestAssumption
        <5>3. pending.n \notin QueriesBefore(pos)
          <6> SUFFICES ASSUME NEW i \in DOMAIN log, i <= pos, log[i].kind = "query",
                              log[i].n = pending.n
                       PROVE  FALSE
            BY DEF QueriesBefore
          <6>1. i \in 1 .. Len(log) /\ i < handle
            BY <1>0, <5>1
          <6>2. log[i].n < log[handle].n /\ log[handle].n \in Nat
            BY <1>0, <5>1, <5>2, <6>1 DEF LossInv, Sorted
          <6> QED
            BY <5>1, <6>2
        <5> QED
          BY <5>3, InMemoryFacts
      <4> QED
        BY <4>1, <4>2
    <3>2. LostBefore(pos)' \subseteq LostBefore(pos) \cup {completed.n}
      BY <2>4, <3>1
    <3> QED
      BY <1>6, <2>1, <2>2, <3>2
  <2> QED
    BY <2>5, <2>6
<1>17. CASE ReadFails
  <2>1. /\ pc' = "idle" /\ faults' = faults + 1
        /\ UNCHANGED <<log, issued, pos, handle, pending, completed, rows>>
    BY <1>17 DEF ReadFails, Fault, logVars, readVars, persistVars
  <2>2. Held' = Held
    BY <2>1 DEF Held, Recorded, InMemory
  <2> QED
    BY <1>0, <1>5, <2>1, <2>2 DEF InPoll, Persisting
<1>18. CASE Restart
  <2>1. /\ pc' = "idle" /\ UNCHANGED <<log, issued, pos, handle, pending, completed, rows, faults>>
    BY <1>18 DEF Restart, logVars, readVars, persistVars, history
  <2>2. Held' = Held
    BY <2>1 DEF Held, Recorded, InMemory
  <2> QED
    BY <1>0, <1>5, <2>1, <2>2 DEF InPoll, Persisting
<1>19. CASE Clock \/ UNCHANGED vars
  <2>1. UNCHANGED <<log, issued, pos, handle, pending, completed, rows, faults, pc, stopping>>
    BY <1>19 DEF Clock, vars, ingestVars, logVars, readVars, persistVars, history
  <2>2. Held' = Held /\ InPoll' = InPoll
    BY <2>1 DEF Held, Recorded, InMemory, InPoll
  <2> QED
    BY <1>0, <1>5, <2>1, <2>2
<1> QED
  BY <1>2, <1>3, <1>7, <1>8, <1>9, <1>10, <1>11, <1>12, <1>13, <1>14, <1>15, <1>16, <1>17,
     <1>18, <1>19
  DEF Next, IngestNext, Dnsmasq, Ingester, Poll, Persist, FaultStep

\* In a log that was never rotated each fault loses at most one query: of the
\* two a kill may find in memory, the buffered one is read again
\* (process_new_lines saves its position only at the end of a poll).
THEOREM LossTheorem == Spec => []LossBounded
<1>1. Init => rotated \/ LossInv
  <2> SUFFICES ASSUME Init PROVE LossInv
    OBVIOUS
  <2>1. /\ log = <<>> /\ issued = 0 /\ pos = 0 /\ handle = 0 /\ pc = "idle" /\ faults = 0
        /\ pending = None /\ stopping = FALSE
    BY DEF Init, IngestInit
  <2>2. LostBefore(pos) = {}
    BY <2>1 DEF LostBefore, QueriesBefore
  <2>3. Sorted /\ Quiet /\ ~InPoll
    BY <2>1 DEF Sorted, Quiet, InPoll, Persisting
  <2> QED
    BY <2>1, <2>2, <2>3, FS_EmptySet DEF LossInv
<1>2. TypeOK /\ TypeOK' /\ (rotated \/ LossInv) /\ [Next]_vars => (rotated \/ LossInv)'
  <2> SUFFICES ASSUME TypeOK, TypeOK', rotated \/ LossInv, [Next]_vars, ~rotated'
               PROVE  LossInv'
    OBVIOUS
  <2>1. ~rotated /\ ~Rotate
    BY RotatedStays DEF Rotate
  <2> QED
    BY <2>1, LossStep
<1>3. rotated \/ LossInv => LossBounded
  <2>1. Lost = LostBefore(pos)
    BY DEF Lost, LostBefore, Held
  <2> QED
    BY <2>1 DEF LossInv, LossBounded
<1> QED
  BY <1>1, <1>2, <1>3, TypeCorrect, PTL DEF Spec

-----------------------------------------------------------------------------
(***************************************************************************)
(* How often a query is stored.  A query can still be stored once for its  *)
(* line ahead of the daemon's offset, once for the entry the parser has    *)
(* buffered and once for the one in hand; with its rows these are never    *)
(* more than 1 + faults, for a fault only moves the offset back.  It holds *)
(* through a rotation, whose file has none of the old lines.               *)
(***************************************************************************)

\* Where the daemon reads on: a poll that finds the file shorter starts over.
Offset ==
  LET o == IF InPoll THEN handle ELSE pos IN IF o > Len(log) THEN 0 ELSE o

Unread(q) == \E i \in 1 .. Len(log) : i > Offset /\ log[i].kind = "query" /\ log[i].n = q
Buffered(q) == pending # None /\ pending.n = q
InHand(q) == completed # None /\ completed.n = q

One(b) == IF b THEN 1 ELSE 0
Owed(q) == One(Unread(q)) + One(Buffered(q)) + One(InHand(q))

Copies(q) == {i \in DOMAIN rows : rows[i].n = q}

RepeatInv ==
  /\ Sorted /\ Quiet
  /\ \A n \in InMemory \cup Recorded : n <= issued
  /\ \A q \in QueryNo : Cardinality(Copies(q)) + Owed(q) <= 1 + faults

LEMMA OneFacts ==
  ASSUME NEW b, NEW c, b => c
  PROVE  One(b) \in 0 .. 1 /\ One(b) <= One(c)
  BY DEF One

LEMMA CopiesFinite ==
  ASSUME TypeOK, NEW q
  PROVE  IsFiniteSet(Copies(q)) /\ Cardinality(Copies(q)) \in Nat
<1>1. rows \in Seq(Row) /\ Len(rows) \in Nat /\ DOMAIN rows = 1 .. Len(rows)
  BY DEF TypeOK, IngestTypeOK
<1>2. IsFiniteSet(1 .. Len(rows)) /\ Copies(q) \subseteq 1 .. Len(rows)
  BY <1>1, FS_Interval DEF Copies
<1>3. IsFiniteSet(Copies(q))
  BY <1>2, FS_Subset
<1> QED
  BY <1>3, FS_CardinalityType

LEMMA StoredFacts ==
  ASSUME TypeOK
  PROVE  InMemory \cup Recorded \subseteq QueryNo /\ QueryNo \subseteq Nat
<1>1. \A i \in DOMAIN rows : rows[i] \in Row
  BY DEF TypeOK, IngestTypeOK
<1>2. \A i \in DOMAIN rows : rows[i].n \in QueryNo
  BY <1>1 DEF Row
<1>3. Recorded \subseteq QueryNo
  BY <1>2 DEF Recorded
<1>4. InMemory \subseteq QueryNo
  BY InMemoryFacts
<1>5. QueryNo \subseteq Nat
  BY IngestAssumption DEF QueryNo
<1> QED
  BY <1>3, <1>4, <1>5

LEMMA RepeatStep ==
  ASSUME TypeOK, TypeOK', RepeatInv, [Next]_vars
  PROVE  RepeatInv'
<1>0. /\ pos \in Nat /\ handle \in Nat /\ log \in Seq(Line) /\ Len(log) \in Nat
      /\ issued \in Nat /\ faults \in Nat /\ faults' \in Nat /\ rows \in Seq(Row)
      /\ log' \in Seq(Line) /\ Len(log') \in Nat
      /\ pending \in Entry \cup {None} /\ completed \in Entry \cup {None}
      /\ (completed # None <=> pc \in Persisting)
      /\ None \notin Entry
  BY IngestAssumption DEF TypeOK, IngestTypeOK
<1>q. Quiet'
  BY QuietStep DEF RepeatInv
<1>c. \A q : Cardinality(Copies(q)) \in Nat
  BY CopiesFinite
<1>o. \A q : /\ One(Unread(q)) \in 0 .. 1 /\ One(Unread(q)') \in 0 .. 1
             /\ One(Buffered(q)) \in 0 .. 1 /\ One(Buffered(q)') \in 0 .. 1
             /\ One(InHand(q)) \in 0 .. 1 /\ One(InHand(q)') \in 0 .. 1
             /\ (Unread(q)' => Unread(q)) => One(Unread(q)') <= One(Unread(q))
             /\ (Buffered(q)' => Buffered(q)) => One(Buffered(q)') <= One(Buffered(q))
             /\ (InHand(q)' => InHand(q)) => One(InHand(q)') <= One(InHand(q))
  BY OneFacts
<1>w. \A q : /\ Owed(q) = One(Unread(q)) + One(Buffered(q)) + One(InHand(q))
             /\ Owed(q)' = One(Unread(q)') + One(Buffered(q)') + One(InHand(q)')
             /\ Owed(q) \in Nat /\ Owed(q)' \in Nat
  <2>1. \A q : /\ Owed(q) = One(Unread(q)) + One(Buffered(q)) + One(InHand(q))
               /\ Owed(q)' = One(Unread(q)') + One(Buffered(q)') + One(InHand(q)')
    BY DEF Owed, One
  <2> QED
    BY <1>o, <2>1
\* A step that owes no query anything new.
<1>1. ASSUME UNCHANGED rows, faults <= faults', Sorted', issued <= issued', InMemory' \subseteq InMemory,
             \A q \in QueryNo : Owed(q)' <= Owed(q)
      PROVE  RepeatInv'
  <2>1. Recorded' = Recorded /\ \A q : Copies(q)' = Copies(q)
    BY <1>1 DEF Recorded, Copies
  <2>2. \A n \in InMemory' \cup Recorded' : n <= issued'
    <3>1. \A n \in InMemory \cup Recorded : n \in Nat
      BY StoredFacts
    <3> QED
      BY <1>0, <1>1, <2>1, <3>1 DEF RepeatInv, TypeOK, IngestTypeOK
  <2>3. ASSUME NEW q \in QueryNo PROVE Cardinality(Copies(q)') + Owed(q)' <= 1 + faults'
    BY <1>0, <1>1, <1>c, <1>w, <2>1 DEF RepeatInv
  <2> QED
    BY <1>q, <1>1, <2>2, <2>3 DEF RepeatInv
\* A fault: one line may have to be read again.
<1>2. ASSUME UNCHANGED <<rows, issued, log>>, faults' = faults + 1, InMemory' \subseteq InMemory,
             \A q \in QueryNo : Owed(q)' <= Owed(q) + 1
      PROVE  RepeatInv'
  <2>1. Recorded' = Recorded /\ \A q : Copies(q)' = Copies(q)
    BY <1>2 DEF Recorded, Copies
  <2>2. \A n \in InMemory' \cup Recorded' : n <= issued'
    BY <1>2, <2>1 DEF RepeatInv
  <2>3. ASSUME NEW q \in QueryNo PROVE Cardinality(Copies(q)') + Owed(q)' <= 1 + faults'
    BY <1>0, <1>2, <1>c, <1>w, <2>1 DEF RepeatInv
  <2>4. Sorted'
    BY <1>2 DEF RepeatInv, Sorted
  <2> QED
    BY <1>q, <2>2, <2>3, <2>4 DEF RepeatInv
\* A step that leaves the entries, the log and the offset alone.
<1>3. ASSUME UNCHANGED <<log, issued, pending, completed, rows, Offset>>, faults <= faults'
      PROVE  RepeatInv'
  <2>1. InMemory' = InMemory /\ Sorted'
    BY <1>3 DEF InMemory, RepeatInv, Sorted
  <2>2. \A q : (Unread(q)' => Unread(q)) /\ (Buffered(q)' => Buffered(q)) /\ (InHand(q)' => InHand(q))
    BY <1>3 DEF Unread, Buffered, InHand
  <2>3. \A q : Owed(q)' <= Owed(q)
    BY <1>o, <1>w, <2>2
  <2> QED
    BY <1>0, <1>1, <1>3, <2>1, <2>3
\* What dnsmasq does.
<1>4. ASSUME NEW line \in Line, log' = Append(log, line),
             UNCHANGED <<readVars, pc, stopping, persistVars>>
      PROVE  /\ UNCHANGED <<pending, completed, InMemory>>
             /\ \A q : Unread(q)' => Unread(q) \/ (line.kind = "query" /\ line.n = q)
  <2>1. UNCHANGED <<pending, completed, pos, handle, InPoll, InMemory>>
    BY <1>4 DEF readVars, persistVars, InPoll, InMemory
  <2>2. /\ Len(log') = Len(log) + 1 /\ log'[Len(log) + 1] = line
        /\ \A i \in 1 .. Len(log) : log'[i] = log[i]
    BY <1>0, <1>4
  <2>3. Offset \in Nat /\ Offset' \in Nat /\ Offset <= Offset'
    BY <1>0, <2>1, <2>2 DEF Offset
  <2>4. ASSUME NEW q, NEW i \in 1 .. Len(log'), i > Offset', log'[i].kind = "query", log'[i].n = q
        PROVE  Unread(q) \/ (line.kind = "query" /\ line.n = q)
    <3>1. i = Len(log) + 1 \/ i \in 1 .. Len(log)
      BY <1>0, <2>2
    <3>2. CASE i \in 1 .. Len(log)
      BY <2>2, <2>3, <2>4, <3>2 DEF Unread
    <3> QED
      BY <2>2, <2>4, <3>1, <3>2
  <2> QED
    BY <2>1, <2>4 DEF Unread
<1>5. ASSUME NEW ip \in Ips, NEW domain \in Domains, LogQuery(ip, domain)
      PROVE  RepeatInv'
  <2> DEFINE line == [kind |-> "query", n |-> issued + 1, ip |-> ip, domain |-> domain, at |-> now]
  <2>1. line \in Line /\ line.n = issued + 1 /\ line.kind = "query"
    BY <1>5 DEF LogQuery, Line, QueryNo, TypeOK, IngestTypeOK, StoreTypeOK
  <2>2. /\ log' = Append(log, line) /\ issued' = issued + 1
        /\ UNCHANGED <<readVars, pc, stopping, persistVars, rows, faults>>
    BY <1>5 DEF LogQuery, history
  <2> HIDE DEF line
  <2>3. /\ UNCHANGED <<pending, completed, InMemory>>
        /\ \A q : Unread(q)' => Unread(q) \/ line.n = q
    BY <1>4, <2>1, <2>2
  <2>4. Sorted' /\ issued <= issued'
    BY <1>0, <2>1, <2>2, SortedAppend DEF RepeatInv
  <2>5. ASSUME NEW q \in QueryNo, q # issued + 1 PROVE Owed(q)' <= Owed(q)
    <3>1. (Unread(q)' => Unread(q)) /\ (Buffered(q)' => Buffered(q)) /\ (InHand(q)' => InHand(q))
      BY <2>1, <2>3, <2>5 DEF Buffered, InHand
    <3> QED
      BY <1>o, <1>w, <3>1
  \* The new query has neither been stored nor read.
  <2>6. ASSUME NEW q \in QueryNo, q = issued + 1
        PROVE  Owed(q)' <= 1 /\ Cardinality(Copies(q)) = 0
    <3>1. q \notin Recorded /\ q \notin InMemory
      BY <1>0, <2>6 DEF RepeatInv
    <3>2. Copies(q) = {}
      BY <3>1 DEF Copies, Recorded
    <3>3. ~Buffered(q)' /\ ~InHand(q)'
      BY <2>3, <3>1, InMemoryFacts DEF Buffered, InHand
    <3>4. One(Buffered(q)') = 0 /\ One(InHand(q)') = 0
      BY <3>3 DEF One
    <3> QED
      BY <1>o, <1>w, <3>2, <3>4, FS_EmptySet
  <2>7. Recorded' = Recorded /\ \A q : Copies(q)' = Copies(q)
    BY <2>2 DEF Recorded, Copies
  <2>8. \A n \in InMemory' \cup Recorded' : n <= issued'
    <3>1. \A n \in InMemory \cup Recorded : n \in Nat
      BY StoredFacts
    <3> QED
      BY <1>0, <2>2, <2>3, <2>7, <3>1 DEF RepeatInv
  <2>9. ASSUME NEW q \in QueryNo PROVE Cardinality(Copies(q)') + Owed(q)' <= 1 + faults'
    <3>1. CASE q = issued + 1
      BY <1>0, <1>w, <2>2, <2>6, <2>7, <3>1
    <3>2. CASE q # issued + 1
      BY <1>0, <1>c, <1>w, <2>2, <2>5, <2>7, <3>2 DEF RepeatInv
    <3> QED
      BY <3>1, <3>2
  <2> QED
    BY <1>q, <2>4, <2>8, <2>9 DEF RepeatInv
<1>6. ASSUME NEW domain \in Domains, NEW outcome \in Outcome,
             LogReply(domain, outcome)
      PROVE  RepeatInv'
  <2> DEFINE line == [kind |-> "reply", n |-> issued, domain |-> domain,
                      outcome |-> outcome, address |-> replied + 1]
  <2>1. line \in Line /\ line.n = issued /\ line.kind = "reply"
    BY <1>6 DEF LogReply, Line, QueryNo, TypeOK, IngestTypeOK
  <2>2. /\ log' = Append(log, line) /\ issued' = issued
        /\ UNCHANGED <<readVars, pc, stopping, persistVars, rows, faults>>
    BY <1>6 DEF LogReply, history
  <2> HIDE DEF line
  <2>3. /\ UNCHANGED <<pending, completed, InMemory>>
        /\ \A q : Unread(q)' => Unread(q)
    BY <1>4, <2>1, <2>2
  <2>4. Sorted'
    BY <1>0, <2>1, <2>2, SortedAppend DEF RepeatInv
  <2>5. \A q : (Buffered(q)' => Buffered(q)) /\ (InHand(q)' => InHand(q))
    BY <2>3 DEF Buffered, InHand
  <2>6. \A q : Owed(q)' <= Owed(q)
    BY <1>o, <1>w, <2>3, <2>5
  <2> QED
    BY <1>0, <1>1, <2>2, <2>3, <2>4, <2>6
<1>7. CASE StartPoll
  <2>1. /\ pc = "idle" /\ pc' = "reading" /\ ~stopping /\ stopping' = stopping
        /\ handle' = IF pos > Len(log) THEN 0 ELSE pos
        /\ pending' \in {None, pending}
        /\ UNCHANGED <<log, issued, pos, completed, rows, faults>>
    BY <1>0, <1>7 DEF StartPoll, RepeatInv, Quiet, logVars, persistVars
  <2>2. Offset' = Offset
    <3>1. InPoll' /\ ~InPoll
      BY <2>1 DEF InPoll, Persisting
    <3> QED
      BY <1>0, <2>1, <3>1 DEF Offset
  <2>3. InMemory' \subseteq InMemory /\ Sorted'
    BY <2>1 DEF InMemory, RepeatInv, Sorted
  <2>4. \A q : (Unread(q)' => Unread(q)) /\ (Buffered(q)' => Buffered(q)) /\ (InHand(q)' => InHand(q))
    BY <2>1, <2>2 DEF Unread, Buffered, InHand
  <2>5. \A q : Owed(q)' <= Owed(q)
    BY <1>o, <1>w, <2>4
  <2> QED
    BY <1>0, <1>1, <2>1, <2>3, <2>5
<1>8. ASSUME pc = "reading", handle < Len(log), handle' = handle + 1, InPoll, InPoll',
             UNCHANGED log
      PROVE  Offset = handle /\ Offset' = handle + 1 /\ \A q : Unread(q)' => Unread(q)
  <2>1. Offset = handle /\ Offset' = handle + 1
    BY <1>0, <1>8 DEF Offset
  <2> QED
    BY <1>0, <1>8, <2>1 DEF Unread
<1>9. CASE ReadQuery
  <2> DEFINE line == log[handle + 1]
  <2>1. /\ pc = "reading" /\ handle < Len(log) /\ handle' = handle + 1 /\ completed' = pending
        /\ pending' = NewEntry(line) /\ line.kind = "query" /\ completed = None
        /\ pc' \in {"reading", "resolve"} /\ ~stopping /\ ~stopping'
        /\ UNCHANGED <<log, issued, rows, faults>>
    BY <1>0, <1>9 DEF ReadQuery, logVars, history, Persisting, RepeatInv, Quiet
  <2>2. handle + 1 \in 1 .. Len(log) /\ line \in Line
    BY <1>0, <2>1
  <2>3. pending' # None /\ pending'.n = line.n
    BY <2>1, <2>2, LineFields, IngestAssumption DEF NewEntry, Entry, Outcome
  <2>4. InPoll /\ InPoll'
    BY <2>1 DEF InPoll, Persisting
  <2>5. Offset = handle /\ Offset' = handle + 1 /\ \A q : Unread(q)' => Unread(q)
    BY <1>8, <2>1, <2>4
  <2>6. Unread(line.n)
    BY <1>0, <2>1, <2>2, <2>5 DEF Unread
  <2>7. ASSUME NEW q, q = line.n PROVE ~Unread(q)'
    <3> SUFFICES ASSUME NEW i \in 1 .. Len(log), i > handle + 1, log[i].kind = "query",
                        log[i].n = line.n
                 PROVE  FALSE
      BY <2>1, <2>5, <2>7 DEF Unread
    <3>1. log[handle + 1].n < log[i].n
      BY <1>0, <2>1, <2>2 DEF RepeatInv, Sorted
    <3>2. line.n \in Nat
      BY <2>2, LineFields, IngestAssumption
    <3> QED
      BY <3>1, <3>2
  <2>8. line.n <= issued
    BY <2>2 DEF RepeatInv, Sorted
  <2> HIDE DEF line
  <2>9. \A q : (InHand(q)' => Buffered(q)) /\ ~InHand(q)
               /\ (Buffered(q)' => q = line.n)
    BY <2>1, <2>3 DEF InHand, Buffered
  <2>10. ASSUME NEW q \in QueryNo PROVE Owed(q)' <= Owed(q)
    <3>1. One(InHand(q)') <= One(Buffered(q))
      BY <2>9, OneFacts
    <3>2. CASE q = line.n
      <4>1. One(Unread(q)) = 1 /\ One(Unread(q)') = 0
        BY <2>6, <2>7, <3>2 DEF One
      <4> QED
        BY <1>o, <1>w, <3>1, <4>1
    <3>3. CASE q # line.n
      <4>1. One(Buffered(q)') = 0
        BY <2>9, <3>3 DEF One
      <4>2. One(Unread(q)') <= One(Unread(q))
        BY <1>o, <2>5
      <4> QED
        BY <1>o, <1>w, <3>1, <4>1, <4>2
    <3> QED
      BY <3>2, <3>3
  <2>11. \A q : Copies(q)' = Copies(q)
    BY <2>1 DEF Copies
  <2>12. \A n \in InMemory' \cup Recorded' : n <= issued'
    <3>1. InMemory' \subseteq InMemory \cup {line.n} /\ Recorded' = Recorded
      BY <2>1, <2>3 DEF InMemory, Recorded
    <3> QED
      BY <2>1, <2>8, <3>1 DEF RepeatInv
  <2>13. ASSUME NEW q \in QueryNo PROVE Cardinality(Copies(q)') + Owed(q)' <= 1 + faults'
    BY <1>0, <1>c, <1>w, <2>1, <2>10, <2>11 DEF RepeatInv
  <2>14. Sorted'
    BY <2>1 DEF RepeatInv, Sorted
  <2> QED
    BY <1>q, <2>12, <2>13, <2>14 DEF RepeatInv
<1>10. CASE ReadReply
  <2> DEFINE line == log[handle + 1]
  <2>1. /\ pc = "reading" /\ pc' = "reading" /\ handle < Len(log) /\ handle' = handle + 1
        /\ line.kind = "reply" /\ UNCHANGED <<log, issued, completed, rows, faults>>
        /\ pending' = (IF pending # None /\ pending.domain = line.domain
                       THEN MergeReply(pending, line) ELSE pending)
        /\ ~stopping /\ ~stopping'
    BY <1>10 DEF ReadReply, logVars, persistVars, history, RepeatInv, Quiet
  <2>2. (pending' = None <=> pending = None) /\ (pending # None => pending'.n = pending.n)
    <3>1. line \in Line
      BY <1>0, <2>1
    <3> HIDE DEF line
    <3>2. pending # None => MergeReply(pending, line) \in Entry /\ MergeReply(pending, line).n = pending.n
      BY <1>0, <2>1, <3>1, MergeReplyType
    <3> QED
      BY <1>0, <2>1, <3>2
  <2>3. InMemory' = InMemory
    BY <2>1, <2>2, InMemoryFacts DEF InMemory
  <2>4. InPoll /\ InPoll'
    BY <2>1 DEF InPoll
  <2>5. \A q : Unread(q)' => Unread(q)
    BY <1>8, <2>1, <2>4
  <2>6. \A q : (Buffered(q)' => Buffered(q)) /\ (InHand(q)' => InHand(q))
    BY <2>1, <2>2 DEF Buffered, InHand
  <2>7. \A q : Owed(q)' <= Owed(q)
    BY <1>o, <1>w, <2>5, <2>6
  <2>8. Sorted'
    BY <2>1 DEF RepeatInv, Sorted
  <2> QED
    BY <1>0, <1>1, <2>1, <2>3, <2>7, <2>8
<1>11. CASE EndOfFile \/ TruncatePos
  <2>1. /\ pc \in {"reading", "truncate"} /\ pc' \in {"truncate", "commit"}
        /\ UNCHANGED <<log, issued, handle, pending, completed, rows, faults, stopping>>
    BY <1>11 DEF EndOfFile, TruncatePos, logVars, readVars, persistVars, history
  <2>2. InPoll /\ InPoll'
    BY <2>1 DEF InPoll, RepeatInv, Quiet
  <2>3. Offset' = Offset
    BY <2>1, <2>2 DEF Offset
  <2> QED
    BY <1>0, <1>3, <2>1, <2>3
<1>12. CASE CommitPos
  <2>1. /\ pc = "commit" /\ pc' = "idle" /\ pos' = handle
        /\ UNCHANGED <<log, issued, handle, pending, completed, rows, faults, stopping>>
    BY <1>12 DEF CommitPos, logVars, persistVars, history
  <2>2. InPoll /\ ~InPoll'
    BY <2>1 DEF InPoll, RepeatInv, Quiet, Persisting
  <2>3. Offset' = Offset
    BY <2>1, <2>2 DEF Offset
  <2> QED
    BY <1>0, <1>3, <2>1, <2>3
<1>13. CASE ResolveDevice \/ AllotDevice \/ CreatePlaceholder \/ ReadStatus \/ ObservePlaceholder
  <2>1. /\ pc \in Persisting /\ pc' \in Persisting
        /\ UNCHANGED <<log, issued, pos, handle, pending, completed, rows, faults, stopping>>
    BY <1>13 DEF ResolveDevice, AllotDevice, CreatePlaceholder, ReadStatus, ObservePlaceholder,
                 logVars, readVars, persistVars, history, Persisting
  <2>2. Offset' = Offset
    BY <2>1 DEF Offset, InPoll
  <2> QED
    BY <1>0, <1>3, <2>1, <2>2
<1>14. CASE InsertQuery
  <2> DEFINE row == [n |-> completed.n, ip |-> completed.ip,
                     domain |-> completed.domain, at |-> completed.at, device |-> device,
                     status |-> completed.status, merged |-> completed.merged]
  <2>1. /\ pc = "insert" /\ rows' = Append(rows, row) /\ completed' = None
        /\ pc' = IF stopping THEN "down" ELSE "reading"
        /\ UNCHANGED <<log, issued, pos, handle, pending, stopping, faults>>
    BY <1>14 DEF InsertQuery, logVars, readVars, history
  <2>2. row.n = completed.n /\ completed # None
    BY <1>0, <2>1 DEF Persisting
  <2> HIDE DEF row
  <2>3. Recorded' = Recorded \cup {completed.n}
    BY <2>1, <2>2, RecordedGrows
  <2>4. InMemory' \subseteq InMemory /\ completed.n \in InMemory
    BY <2>1, <2>2 DEF InMemory
  <2>5. \A n \in InMemory' \cup Recorded' : n <= issued'
    BY <2>1, <2>3, <2>4 DEF RepeatInv
  <2>6. Offset' = Offset
    BY <2>1 DEF Offset, InPoll, Persisting
  <2>7. \A q : (Unread(q)' => Unread(q)) /\ (Buffered(q)' => Buffered(q)) /\ ~InHand(q)'
    BY <2>1, <2>6 DEF Unread, Buffered, InHand
  <2>8. /\ DOMAIN rows = 1 .. Len(rows) /\ DOMAIN rows' = 1 .. Len(rows) + 1 /\ Len(rows) \in Nat
        /\ rows'[Len(rows) + 1] = row /\ \A i \in 1 .. Len(rows) : rows'[i] = rows[i]
    BY <1>0, <2>1
  <2>9. ASSUME NEW q \in QueryNo PROVE Cardinality(Copies(q)') + Owed(q)' <= 1 + faults'
    <3>1. CASE q = completed.n
      <4>1. Copies(q)' = Copies(q) \cup {Len(rows) + 1} /\ Len(rows) + 1 \notin Copies(q)
        BY <2>2, <2>8, <3>1 DEF Copies
      <4>2. Cardinality(Copies(q)') = Cardinality(Copies(q)) + 1
        BY <4>1, CopiesFinite, FS_AddElement
      <4>3. One(InHand(q)) = 1 /\ One(InHand(q)') = 0
        BY <2>2, <2>7, <3>1 DEF One, InHand
      <4>4. Owed(q)' <= Owed(q) - 1
        BY <1>o, <1>w, <2>7, <4>3
      <4> QED
        BY <1>0, <1>c, <1>w, <2>1, <4>2, <4>4 DEF RepeatInv
    <3>2. CASE q # completed.n
      <4>1. Copies(q)' = Copies(q)
        BY <2>2, <2>8, <3>2 DEF Copies
      <4>2. Owed(q)' <= Owed(q)
        BY <1>o, <1>w, <2>7
      <4> QED
        BY <1>0, <1>c, <1>w, <2>1, <4>1, <4>2 DEF RepeatInv
    <3> QED
      BY <3>1, <3>2
  <2>10. Sorted'
    BY <2>1 DEF RepeatInv, Sorted
  <2> QED
    BY <1>q, <2>5, <2>9, <2>10 DEF RepeatInv
<1>15. CASE Abort
  <2>1. /\ pending' = None /\ completed' \in {None, pending} /\ faults' = faults + 1
        /\ UNCHANGED <<log, issued, rows>>
    BY <1>15 DEF Abort, Unwind, Fault, logVars
  <2>2. InMemory' \subseteq InMemory
    BY <2>1 DEF InMemory
  <2>3. \A q : ~Buffered(q)' /\ (InHand(q)' => Buffered(q))
    BY <2>1 DEF Buffered, InHand
  <2>4. ASSUME NEW q \in QueryNo PROVE Owed(q)' <= Owed(q) + 1
    <3>1. One(Buffered(q)') = 0 /\ One(InHand(q)') <= One(Buffered(q))
      BY <2>3, OneFacts DEF One
    <3> QED
      BY <1>o, <1>w, <3>1
  <2> QED
    BY <1>2, <2>1, <2>2, <2>4
<1>16. CASE Kill
  <2>1. /\ pending' = None /\ completed' = None /\ faults' = faults + 1
        /\ UNCHANGED <<log, issued, rows>>
    BY <1>16 DEF Kill, Fault, logVars
  <2>2. InMemory' \subseteq InMemory
    BY <2>1 DEF InMemory
  <2>3. \A q : (Buffered(q)' => Buffered(q)) /\ (InHand(q)' => InHand(q))
    BY <2>1 DEF Buffered, InHand
  <2>4. \A q \in QueryNo : Owed(q)' <= Owed(q) + 1
    BY <1>o, <1>w, <2>3
  <2> QED
    BY <1>2, <2>1, <2>2, <2>4
<1>17. CASE ReadFails
  <2>1. faults' = faults + 1 /\ UNCHANGED <<log, issued, rows, pending, completed>>
    BY <1>17 DEF ReadFails, Fault, logVars, readVars, persistVars
  <2>2. InMemory' \subseteq InMemory
    BY <2>1 DEF InMemory
  <2>3. \A q : (Buffered(q)' => Buffered(q)) /\ (InHand(q)' => InHand(q))
    BY <2>1 DEF Buffered, InHand
  <2>4. \A q \in QueryNo : Owed(q)' <= Owed(q) + 1
    BY <1>o, <1>w, <2>3
  <2> QED
    BY <1>2, <2>1, <2>2, <2>4
<1>18. CASE Rotate
  <2>1. log' = <<>> /\ faults' = faults + 1 /\ UNCHANGED <<issued, rows, pending, completed>>
    BY <1>18 DEF Rotate, Fault, readVars, persistVars
  <2>2. InMemory' = InMemory /\ Sorted'
    BY <2>1 DEF InMemory, Sorted
  <2>3. \A q : ~Unread(q)' /\ (Buffered(q)' => Buffered(q)) /\ (InHand(q)' => InHand(q))
    BY <2>1 DEF Unread, Buffered, InHand
  <2>4. \A q \in QueryNo : Owed(q)' <= Owed(q)
    BY <1>o, <1>w, <2>3
  <2> QED
    BY <1>0, <1>1, <2>1, <2>2, <2>4
<1>19. CASE Restart
  <2>1. pc = "down" /\ pc' = "idle"
        /\ UNCHANGED <<log, issued, pos, handle, pending, completed, rows, faults>>
    BY <1>19 DEF Restart, logVars, readVars, persistVars, history
  <2>2. Offset' = Offset
    BY <2>1 DEF Offset, InPoll, Persisting
  <2> QED
    BY <1>0, <1>3, <2>1, <2>2
<1>20. CASE Clock \/ UNCHANGED vars
  <2>1. UNCHANGED <<log, issued, pos, handle, pending, completed, rows, faults, pc, stopping>>
    BY <1>20 DEF Clock, vars, ingestVars, logVars, readVars, persistVars, history
  <2>2. Offset' = Offset
    BY <2>1 DEF Offset, InPoll
  <2> QED
    BY <1>0, <1>3, <2>1, <2>2
<1> QED
  BY <1>5, <1>6, <1>7, <1>9, <1>10, <1>11, <1>12, <1>13, <1>14, <1>15, <1>16, <1>17, <1>18,
     <1>19, <1>20
  DEF Next, IngestNext, Dnsmasq, Ingester, Poll, Persist, FaultStep

\* No query has more than one row more than there were faults, whatever they
\* were: a fault, a lost or truncated position file included, makes the daemon
\* read a line again at most once (process_new_lines, _write_pos).
THEOREM RepeatTheorem == Spec => []RepeatsBounded
<1>1. Init => RepeatInv
  <2> SUFFICES ASSUME Init PROVE RepeatInv
    OBVIOUS
  <2>1. /\ log = <<>> /\ pos = 0 /\ handle = 0 /\ faults = 0 /\ rows = <<>>
        /\ pending = None /\ completed = None /\ stopping = FALSE
    BY DEF Init, IngestInit
  <2>2. Sorted /\ Quiet /\ InMemory = {} /\ Recorded = {}
    BY <2>1 DEF Sorted, Quiet, InMemory, Recorded
  <2>3. \A q : Copies(q) = {} /\ ~Unread(q) /\ ~Buffered(q) /\ ~InHand(q)
    BY <2>1 DEF Copies, Unread, Buffered, InHand
  <2>4. \A q : Owed(q) = 0
    BY <2>3 DEF Owed, One
  <2> QED
    BY <2>1, <2>2, <2>3, <2>4, FS_EmptySet DEF RepeatInv
<1>2. TypeOK /\ TypeOK' /\ RepeatInv /\ [Next]_vars => RepeatInv'
  BY RepeatStep
<1>3. TypeOK /\ RepeatInv => RepeatsBounded
  <2> SUFFICES ASSUME TypeOK, RepeatInv, NEW q \in Recorded
               PROVE  Cardinality(Copies(q)) <= 1 + faults
    BY DEF RepeatsBounded, Copies
  <2>1. q \in QueryNo
    BY StoredFacts
  <2>2. Owed(q) \in Nat /\ Cardinality(Copies(q)) \in Nat /\ faults \in Nat
    BY CopiesFinite DEF Owed, One, TypeOK, IngestTypeOK
  <2> QED
    BY <2>1, <2>2 DEF RepeatInv
<1> QED
  BY <1>1, <1>2, <1>3, TypeCorrect, PTL DEF Spec

-----------------------------------------------------------------------------
(***************************************************************************)
(* What Collector needs, where discovery scans write the same tables       *)
(* between the ingester's steps: the ingester takes no device or address   *)
(* away, and it survives others adding some.                               *)
(***************************************************************************)
Attributed(ip, d) ==
  /\ d # None => \E a \in addresses : a.device = d /\ a.ip = ip
  /\ ip \in Candidates => d # None

\* The rows are attributed, and so is the one about to be stored.
AttributedInv ==
  /\ pc = "insert" => Attributed(completed.ip, device)
  /\ \A i \in DOMAIN rows : Attributed(rows[i].ip, rows[i].device)

LEMMA IngesterAdds ==
  ASSUME TypeOK, [Next]_vars \/ PlaceholderConflict
  PROVE  Stored \subseteq Stored' /\ addresses \subseteq addresses'
<1>1. CASE CreatePlaceholder
  <2>1. completed.at \in Time /\ InsertDevice(device, None, "LOW", completed.at)
    BY <1>1 DEF CreatePlaceholder, TypeOK, IngestTypeOK, Persisting, Entry
  <2>2. None \in Macs \cup {None} /\ "LOW" \in Confidence /\ StoreTypeOK
    BY DEF Confidence, TypeOK
  <2> QED
    BY <2>1, <2>2, InsertDeviceFacts
<1>2. CASE ObservePlaceholder
  <2>1. /\ completed \in Entry /\ device \in Stored /\ wasOffline \in BOOLEAN /\ StoreTypeOK
        /\ RecordObservation(device, completed.ip, None, None, completed.at, "LOW", wasOffline)
    BY <1>2, StoreAssumption
    DEF ObservePlaceholder, TypeOK, IngestTypeOK, Persisting, Stored
  <2>2. completed.ip \in Ips /\ completed.at \in Time /\ "LOW" \in Confidence
    BY <2>1 DEF Entry, Confidence
  <2> QED
    BY <2>1, <2>2, RecordObservationFacts
<1>3. ASSUME UNCHANGED <<devices, addresses>>
      PROVE  Stored \subseteq Stored' /\ addresses \subseteq addresses'
  BY <1>3 DEF Stored
<1>4. CASE Dnsmasq
  BY <1>3, <1>4 DEF Dnsmasq, LogQuery, LogReply, storeVars
<1>5. CASE Poll
  BY <1>3, <1>5 DEF Poll, StartPoll, ReadQuery, ReadReply, EndOfFile, TruncatePos, CommitPos,
                    storeVars
<1>6. CASE ResolveDevice \/ AllotDevice \/ ReadStatus \/ InsertQuery \/ Restart
  BY <1>3, <1>6 DEF ResolveDevice, AllotDevice, ReadStatus, InsertQuery, Restart, storeVars
<1>7. CASE FaultStep \/ PlaceholderConflict
  BY <1>3, <1>7 DEF FaultStep, Abort, PlaceholderConflict, Unwind, Kill, ReadFails, Rotate,
                    storeVars
<1>8. CASE Clock \/ UNCHANGED vars
  BY <1>3, <1>8 DEF Clock, Tick, vars, storeVars
<1> QED
  BY <1>1, <1>2, <1>4, <1>5, <1>6, <1>7, <1>8 DEF Next, IngestNext, Ingester, Persist

LEMMA AttributedStays ==
  ASSUME addresses \subseteq addresses', NEW ip, NEW d, Attributed(ip, d)
  PROVE  Attributed(ip, d)'
  BY DEF Attributed

LEMMA AttributedStep ==
  ASSUME TypeOK, AttributedInv, [Next]_vars \/ PlaceholderConflict
  PROVE  AttributedInv'
<1>0. addresses \subseteq addresses' /\ rows \in Seq(Row)
  BY IngesterAdds DEF TypeOK, IngestTypeOK
<1>1. ASSUME UNCHANGED rows,
             pc' = "insert" => Attributed(completed.ip, device)'
      PROVE  AttributedInv'
  <2>1. ASSUME NEW i \in DOMAIN rows
        PROVE  Attributed(rows[i].ip, rows[i].device)'
    <3> DEFINE ip == rows[i].ip
               d == rows[i].device
    <3>1. Attributed(ip, d) /\ ip' = ip /\ d' = d
      BY <1>1 DEF AttributedInv
    <3>2. ASSUME NEW x, NEW y, Attributed(x, y) PROVE Attributed(x, y)'
      BY <1>0, <3>2, AttributedStays
    <3> QED
      BY <1>1, <3>1, <3>2 DEF Attributed
  <2> QED
    BY <1>1, <2>1 DEF AttributedInv
<1>2. ASSUME UNCHANGED <<rows, pc, completed, device>>
      PROVE  AttributedInv'
  BY <1>0, <1>1, <1>2 DEF AttributedInv, Attributed
<1>3. CASE Dnsmasq
  BY <1>2, <1>3 DEF Dnsmasq, LogQuery, LogReply, persistVars
<1>4. CASE Poll
  BY <1>1, <1>4 DEF Poll, StartPoll, ReadQuery, ReadReply, EndOfFile, TruncatePos, CommitPos
<1>5. CASE ResolveDevice
  <2>1. StoreTypeOK /\ device' \in ResolveIp(completed.ip) /\ completed' = completed
        /\ pc' = (IF device' = None /\ completed.ip \in Candidates THEN "allot" ELSE "insert")
        /\ UNCHANGED <<addresses, rows>>
    BY <1>5 DEF ResolveDevice, TypeOK, storeVars
  <2>2. \/ device' = None
        \/ \E a \in addresses : a.ip = completed.ip /\ a.device = device'
    BY <2>1, ResolveIpFacts
  <2> QED
    BY <1>1, <2>1, <2>2 DEF Attributed
<1>6. CASE AllotDevice \/ CreatePlaceholder \/ ReadStatus
  BY <1>1, <1>6 DEF AllotDevice, CreatePlaceholder, ReadStatus
<1>7. CASE ObservePlaceholder
  <2> DEFINE a == [device |-> device, ip |-> completed.ip, mac |-> None, host |-> None,
                   at |-> completed.at]
  <2>1. a \in addresses' /\ device # None /\ UNCHANGED <<completed, device, rows>>
    BY <1>7 DEF ObservePlaceholder, RecordObservation, TypeOK, IngestTypeOK, persistVars
  <2>2. a.device = device /\ a.ip = completed.ip
    OBVIOUS
  <2> HIDE DEF a
  <2> QED
    BY <1>1, <2>1, <2>2 DEF Attributed
<1>8. CASE InsertQuery
  <2> DEFINE row == [n |-> completed.n, ip |-> completed.ip,
                     domain |-> completed.domain, at |-> completed.at, device |-> device,
                     status |-> completed.status, merged |-> completed.merged]
  <2>1. /\ pc = "insert" /\ pc' # "insert" /\ rows' = Append(rows, row)
        /\ UNCHANGED addresses
    BY <1>8 DEF InsertQuery, storeVars
  <2>2. row.ip = completed.ip /\ row.device = device
    OBVIOUS
  <2> HIDE DEF row
  <2>3. Attributed(row.ip, row.device)
    BY <2>1, <2>2 DEF AttributedInv
  <2>4. \A i \in DOMAIN rows' : (i \in DOMAIN rows /\ rows'[i] = rows[i]) \/ rows'[i] = row
    BY <1>0, <2>1
  <2>5. \A i \in DOMAIN rows' : Attributed(rows'[i].ip, rows'[i].device)
    BY <2>3, <2>4 DEF AttributedInv
  <2> QED
    BY <2>1, <2>5 DEF AttributedInv, Attributed
<1>9. CASE Abort \/ PlaceholderConflict
  <2>1. UNCHANGED rows /\ pc' # "insert"
    BY <1>9 DEF Abort, PlaceholderConflict, Unwind
  <2> QED
    BY <1>1, <2>1
<1>10. CASE Kill \/ ReadFails \/ Restart
  BY <1>1, <1>10 DEF Kill, ReadFails, Restart
<1>11. CASE Rotate
  BY <1>2, <1>11 DEF Rotate, persistVars
<1>12. CASE Clock \/ UNCHANGED vars
  BY <1>2, <1>12 DEF Clock, vars, ingestVars, persistVars
<1> QED
  BY <1>3, <1>4, <1>5, <1>6, <1>7, <1>8, <1>9, <1>10, <1>11, <1>12
  DEF Next, IngestNext, Ingester, Persist, FaultStep

\* Steps of others.
LEMMA OthersKeep ==
  ASSUME TypeOK, AttributedInv, UNCHANGED ingestVars, StoreTypeOK',
         Stored \subseteq Stored', addresses \subseteq addresses'
  PROVE  TypeOK' /\ AttributedInv'
<1>1. UNCHANGED <<log, issued, replied, pos, handle, pending, pc, stopping, completed,
                  device, wasOffline, rows, dropped, faults, rotated>>
  BY DEF ingestVars, logVars, readVars, persistVars, history
<1>2. pc \in {"status", "observe"} => devices'[device] # None
  <2>1. pc \in {"status", "observe"} => device \in Stored
    BY StoreAssumption DEF TypeOK, IngestTypeOK, Stored
  <2> QED
    BY <2>1 DEF Stored
<1>3. IngestTypeOK'
  BY <1>1, <1>2 DEF TypeOK, IngestTypeOK
<1>4. AttributedInv'
  BY <1>1 DEF AttributedInv, Attributed
<1> QED
  BY <1>3, <1>4 DEF TypeOK

=============================================================================
