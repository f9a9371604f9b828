----------------------------- MODULE DnsIngest -----------------------------
(***************************************************************************)
(* collector/dns: the daemon that tails the dnsmasq log, pairs query lines *)
(* with reply lines (LogParser), saves its byte position in a file and     *)
(* stores one row per query, creating a placeholder device for a LAN       *)
(* address no scan has mapped yet (Ingester).                              *)
(*                                                                         *)
(* Queries are numbered in the order dnsmasq logs them; a line's n is the  *)
(* number of queries logged up to and including it.  A byte offset is the  *)
(* number of lines before it.  The numbers, `dropped' and `rotated' are    *)
(* bookkeeping for the properties: no guard of the code reads them.        *)
(***************************************************************************)
EXTENDS DeviceStore

CONSTANTS
  Domains,
  Candidates,      \* the IPs _is_device_candidate_ip accepts
  MaxQueries,      \* bound on the queries dnsmasq logs
  MaxReplies,      \* bound on the reply lines it logs
  Faults,          \* the faults that may happen, a subset of FaultKinds
  MaxFaults        \* bound on how many do

FaultKinds == {"kill", "abort", "oserror", "rotate"}

VARIABLES
  log,          \* the lines of the current dnsmasq log file
  issued,       \* number of queries logged so far
  replied,      \* number of reply lines logged so far
  pos,          \* content of .dns_ingester_pos
  handle,       \* offset of the open log file
  pending,      \* LogParser._pending
  pc,           \* where the daemon is
  stopping,     \* in run_forever's finally clause
  completed,    \* the entry _persist is storing
  device,       \* device_id in _persist
  wasOffline,   \* was_offline in record_observation
  rows,         \* the dns_queries table, in id order
  dropped,      \* queries a fault erased from the daemon's memory
  faults,       \* number of faults so far
  rotated       \* the log was rotated

logVars == <<log, issued, replied>>
readVars == <<pos, handle, pending>>
persistVars == <<completed, device, wasOffline>>
history == <<dropped, faults, rotated>>
ingestVars == <<logVars, readVars, pc, stopping, persistVars, rows, history>>
vars == <<storeVars, ingestVars>>

Persisting == {"resolve", "allot", "create", "status", "observe", "insert"}
PCs == {"down", "idle", "reading", "truncate", "commit"} \cup Persisting

\* A line is a query from an IP, or a reply naming a domain and an address,
\* which is no other reply's.
QueryNo == 1 .. MaxQueries
Outcome == {"NOERROR", "NXDOMAIN"}

Line ==
  [kind : {"query"}, n : QueryNo, ip : Ips, domain : Domains, at : Time]
    \cup [kind : {"reply"}, n : 0 .. MaxQueries, domain : Domains, outcome : Outcome,
          address : 1 .. MaxReplies]

\* DnsLogEntry; `merged', the reply lines it was given, stands for
\* resolved_addresses.
Entry == [n : QueryNo, ip : Ips, domain : Domains, at : Time,
          status : Outcome, merged : SUBSET Line]

\* A row of dns_queries; dns_visibility is PARTIAL when device is None.
Row == [n : QueryNo, ip : Ips, domain : Domains, at : Time,
        device : DeviceIds \cup {None}, status : Outcome, merged : SUBSET Line]

ASSUME IngestAssumption ==
  /\ Candidates \subseteq Ips
  /\ MaxQueries \in Nat
  /\ MaxReplies \in Nat
  /\ MaxFaults \in Nat
  /\ Faults \subseteq FaultKinds
  /\ None \notin Domains \cup Entry

IngestTypeOK ==
  /\ log \in Seq(Line)
  /\ issued \in 0 .. MaxQueries
  /\ replied \in 0 .. MaxReplies
  /\ pos \in Nat
  /\ handle \in Nat
  /\ pending \in Entry \cup {None}
  /\ pc \in PCs
  /\ stopping \in BOOLEAN
  /\ completed \in Entry \cup {None}
  /\ completed # None <=> pc \in Persisting
  /\ device \in DeviceIds \cup {None}
  /\ pc \in {"create", "status", "observe"} => device # None
  /\ pc \in {"status", "observe"} => devices[device] # None
  /\ wasOffline \in BOOLEAN
  /\ rows \in Seq(Row)
  /\ dropped \subseteq QueryNo
  /\ faults \in 0 .. MaxFaults
  /\ rotated \in BOOLEAN

TypeOK == StoreTypeOK /\ IngestTypeOK

IngestInit ==
  /\ log = <<>> /\ issued = 0 /\ replied = 0
  /\ pos = 0 /\ handle = 0 /\ pending = None
  /\ pc = "idle" /\ stopping = FALSE
  /\ completed = None /\ device = None /\ wasOffline = FALSE
  /\ rows = <<>> /\ dropped = {} /\ faults = 0 /\ rotated = FALSE

Init == StoreInit /\ IngestInit

(***************************************************************************)
(* dnsmasq (external): it logs each query when it arrives, and replies     *)
(* when its upstream answers: none or several lines for a query, some of   *)
(* them under another name (a CNAME's target), between the queries and     *)
(* replies of others.                                                      *)
(***************************************************************************)
LogQuery(ip, domain) ==
  /\ issued < MaxQueries
  /\ issued' = issued + 1
  /\ log' = Append(log, [kind |-> "query", n |-> issued + 1, ip |-> ip,
                         domain |-> domain, at |-> now])
  /\ UNCHANGED <<storeVars, replied, readVars, pc, stopping, persistVars, rows,
                 history>>

LogReply(domain, outcome) ==
  /\ issued > 0
  /\ replied < MaxReplies
  /\ replied' = replied + 1
  /\ log' = Append(log, [kind |-> "reply", n |-> issued, domain |-> domain,
                         outcome |-> outcome, address |-> replied + 1])
  /\ UNCHANGED <<storeVars, issued, readVars, pc, stopping, persistVars, rows,
                 history>>

Dnsmasq ==
  \/ \E ip \in Ips, domain \in Domains : LogQuery(ip, domain)
  \/ \E domain \in Domains, outcome \in Outcome : LogReply(domain, outcome)

(***************************************************************************)
(* process_new_lines.                                                      *)
(***************************************************************************)

\* Open the log; a log shorter than the saved position was rotated, so
\* start over with a new parser.
StartPoll ==
  /\ pc = "idle"
  /\ pc' = "reading"
  /\ \/ /\ pos > Len(log)
        /\ handle' = 0
        /\ pending' = None
        /\ dropped' = IF pending = None THEN dropped
                      ELSE dropped \cup {pending.n}
     \/ /\ pos <= Len(log)
        /\ handle' = pos
        /\ UNCHANGED <<pending, dropped>>
  /\ UNCHANGED <<storeVars, logVars, pos, stopping, persistVars, rows, faults,
                 rotated>>

\* Mutant: the answer list is a default shared by all entries.
NewEntrySharedList(line) ==
  [n |-> line.n, ip |-> line.ip, domain |-> line.domain, at |-> line.at,
   status |-> "NOERROR", merged |-> IF pending = None THEN {} ELSE pending.merged]

NewEntry(line) ==
  [n |-> line.n, ip |-> line.ip, domain |-> line.domain, at |-> line.at,
   status |-> "NOERROR", merged |-> {}]

\* parse_line on a query line: the entry it buffered is complete.
ReadQuery ==
  /\ pc = "reading"
  /\ handle < Len(log)
  /\ log[handle + 1].kind = "query"
  /\ handle' = handle + 1
  /\ completed' = pending
  /\ pending' = NewEntry(log[handle + 1])
  /\ pc' = IF pending = None THEN "reading" ELSE "resolve"
  /\ UNCHANGED <<storeVars, logVars, pos, stopping, device, wasOffline, rows,
                 history>>

MergeReply(entry, line) ==
  IF line.outcome = "NXDOMAIN"
  THEN [entry EXCEPT !.status = "NXDOMAIN"]
  ELSE [entry EXCEPT !.merged = @ \cup {line}]

\* parse_line on a reply line: merged into the buffered entry if that is for
\* the same domain, whichever query the reply answers.
ReadReply ==
  /\ pc = "reading"
  /\ handle < Len(log)
  /\ log[handle + 1].kind = "reply"
  /\ handle' = handle + 1
  /\ pending' = IF pending # None /\ pending.domain = log[handle + 1].domain
                THEN MergeReply(pending, log[handle + 1])
                ELSE pending
  /\ UNCHANGED <<storeVars, logVars, pos, pc, stopping, persistVars, rows,
                 history>>

\* The end of the file; _write_pos truncates the state file, then writes it.
\* _read_pos takes an empty file for 0.
EndOfFile ==
  /\ pc = "reading"
  /\ handle >= Len(log)
  /\ pc' = "truncate"
  /\ UNCHANGED <<storeVars, logVars, readVars, stopping, persistVars, rows,
                 history>>

TruncatePos ==
  /\ pc = "truncate"
  /\ pos' = 0
  /\ pc' = "commit"
  /\ UNCHANGED <<storeVars, logVars, handle, pending, stopping, persistVars,
                 rows, history>>

\* Mutants: the size of the file instead of what was read; nothing at all.
CommitPosFileSize ==
  /\ pc = "commit"
  /\ pos' = Len(log)
  /\ pc' = "idle"
  /\ UNCHANGED <<storeVars, logVars, handle, pending, stopping, persistVars,
                 rows, history>>

CommitPosForgotten ==
  /\ pc = "commit"
  /\ pc' = "idle"
  /\ UNCHANGED <<storeVars, logVars, readVars, stopping, persistVars, rows,
                 history>>

CommitPos ==
  /\ pc = "commit"
  /\ pos' = handle
  /\ pc' = "idle"
  /\ UNCHANGED <<storeVars, logVars, handle, pending, stopping, persistVars,
                 rows, history>>

(***************************************************************************)
(* _persist: find the device, make a placeholder for a LAN address no scan *)
(* has mapped, insert the row.  Each write commits on its own.             *)
(***************************************************************************)
ResolveDevice ==
  /\ pc = "resolve"
  /\ device' \in ResolveIp(completed.ip)
  /\ pc' = IF device' = None /\ completed.ip \in Candidates
           THEN "allot" ELSE "insert"
  /\ UNCHANGED <<storeVars, logVars, readVars, stopping, completed, wasOffline,
                 rows, history>>

AllotDevice ==
  /\ pc = "allot"
  /\ NextDeviceId \in DeviceIds
  /\ device' = NextDeviceId
  /\ pc' = "create"
  /\ UNCHANGED <<storeVars, logVars, readVars, stopping, completed, wasOffline,
                 rows, history>>

\* Mutant: the placeholder's address is never recorded.
CreatePlaceholderOnly ==
  /\ pc = "create"
  /\ InsertDevice(device, None, "LOW", completed.at)
  /\ pc' = "insert"
  /\ UNCHANGED <<logVars, readVars, stopping, persistVars, rows, history>>

CreatePlaceholder ==
  /\ pc = "create"
  /\ InsertDevice(device, None, "LOW", completed.at)
  /\ pc' = "status"
  /\ UNCHANGED <<logVars, readVars, stopping, persistVars, rows, history>>

ReadStatus ==
  /\ pc = "status"
  /\ wasOffline' = (devices[device].status = "offline")
  /\ pc' = "observe"
  /\ UNCHANGED <<storeVars, logVars, readVars, stopping, completed, device,
                 rows, history>>

ObservePlaceholder ==
  /\ pc = "observe"
  /\ RecordObservation(device, completed.ip, None, None, completed.at, "LOW",
                       wasOffline)
  /\ pc' = "insert"
  /\ UNCHANGED <<logVars, readVars, stopping, persistVars, rows, history>>

\* Mutant: the stored entry stays in hand.
InsertQueryKept ==
  /\ pc = "insert"
  /\ rows' = Append(rows, [n |-> completed.n, ip |-> completed.ip,
                           domain |-> completed.domain,
                           at |-> completed.at, device |-> device,
                           status |-> completed.status,
                           merged |-> completed.merged])
  /\ pc' = IF stopping THEN "down" ELSE "reading"
  /\ UNCHANGED <<storeVars, logVars, readVars, stopping, persistVars, history>>

\* insert_dns_query; then back to the read loop, or exit after a flush.
InsertQuery ==
  /\ pc = "insert"
  /\ rows' = Append(rows, [n |-> completed.n, ip |-> completed.ip,
                           domain |-> completed.domain,
                           at |-> completed.at, device |-> device,
                           status |-> completed.status,
                           merged |-> completed.merged])
  /\ completed' = None
  /\ pc' = IF stopping THEN "down" ELSE "reading"
  /\ UNCHANGED <<storeVars, logVars, readVars, stopping, device, wasOffline,
                 history>>

(***************************************************************************)
(* Faults.                                                                 *)
(***************************************************************************)
InMemory == {e.n : e \in {pending, completed} \ {None}}

Fault(kind) ==
  /\ kind \in Faults
  /\ faults < MaxFaults
  /\ faults' = faults + 1

\* An exception leaves the loop: sqlite3.OperationalError (the database is
\* locked), IntegrityError or Ctrl+C.  The finally clause of run_forever
\* flushes the pending entry; the entry in hand is gone.  A second one ends
\* the flush.
Unwind ==
  /\ dropped' = dropped \cup (IF completed = None THEN {} ELSE {completed.n})
  /\ pending' = None
  /\ completed' = IF stopping THEN None ELSE pending
  /\ stopping' = TRUE
  /\ pc' = IF completed' = None THEN "down" ELSE "resolve"
  /\ UNCHANGED <<storeVars, logVars, pos, handle, device, wasOffline, rows,
                 rotated>>

Abort ==
  /\ pc # "down"
  /\ Fault("abort")
  /\ Unwind

\* Another process took the id between AllotDevice and the INSERT: not a step
\* of the daemon alone, so Collector has it and Next here has not.
PlaceholderConflict ==
  /\ pc = "create"
  /\ devices[device] # None
  /\ Unwind
  /\ UNCHANGED faults

\* SIGTERM (systemctl stop installs no handler), SIGKILL or power loss.
Kill ==
  /\ pc # "down"
  /\ Fault("kill")
  /\ pc' = "down"
  /\ pending' = None
  /\ completed' = None
  /\ dropped' = dropped \cup InMemory
  /\ UNCHANGED <<storeVars, logVars, pos, handle, stopping, device, wasOffline,
                 rows, rotated>>

\* The read fails: the poll returns without writing the position, and the
\* parser keeps its buffered entry.
ReadFails ==
  /\ pc = "reading"
  /\ Fault("oserror")
  /\ pc' = "idle"
  /\ UNCHANGED <<storeVars, logVars, readVars, stopping, persistVars, rows,
                 dropped, rotated>>

\* The log is rotated or truncated (external).
Rotate ==
  /\ log # <<>>
  /\ Fault("rotate")
  /\ log' = <<>>
  /\ rotated' = TRUE
  /\ UNCHANGED <<storeVars, issued, replied, readVars, pc, stopping,
                 persistVars, rows, dropped>>

\* systemd: Restart=always.
Restart ==
  /\ pc = "down"
  /\ pc' = "idle"
  /\ stopping' = FALSE
  /\ UNCHANGED <<storeVars, logVars, readVars, persistVars, rows, history>>

Poll ==
  \/ StartPoll \/ ReadQuery \/ ReadReply
  \/ EndOfFile \/ TruncatePos \/ CommitPos

Persist ==
  \/ ResolveDevice \/ AllotDevice \/ CreatePlaceholder
  \/ ReadStatus \/ ObservePlaceholder \/ InsertQuery

FaultStep == Abort \/ Kill \/ ReadFails \/ Rotate

Ingester == Poll \/ Persist \/ Restart

IngestNext == Dnsmasq \/ Ingester \/ FaultStep

Clock == Tick /\ UNCHANGED ingestVars

Next == IngestNext \/ Clock

Spec == Init /\ [][Next]_vars

\* run_forever never stops polling by itself, and systemd restarts it.
FairSpec == Spec /\ WF_vars(Ingester)

(***************************************************************************)
(* Properties.                                                             *)
(***************************************************************************)
Recorded == {rows[i].n : i \in DOMAIN rows}

QueriesBefore(offset) ==
  {log[i].n : i \in {j \in DOMAIN log : j <= offset /\ log[j].kind = "query"}}

\* Queries the daemon will not read again and has not stored.
Lost == QueriesBefore(pos) \ (Recorded \cup InMemory)

\* Undisturbed, the ingester is the ledger of QueryLedger: every query once,
\* in log order (process_new_lines, _persist, the position file).
recordedIds == [i \in DOMAIN rows |-> rows[i].n]
Ledger == INSTANCE QueryLedger WITH logged <- issued, recorded <- recordedIds
LedgerSpec == Ledger!Spec

\* A query before the saved position is stored, still buffered by the parser,
\* or was in the daemon's memory when a fault struck: _write_pos never runs
\* ahead of parse_line and _persist.  Not so once the log was rotated: one
\* that has grown past the saved position is read from the middle.
NothingSkipped ==
  rotated \/ QueriesBefore(pos) \subseteq Recorded \cup InMemory \cup dropped

\* A crash, an exception or a failed read costs at most one query: the one
\* the parser had buffered past the saved position.
LossBounded == rotated \/ Cardinality(Lost) <= faults

\* A fault re-reads at most the lines since the last saved position: each
\* makes at most one more copy of a query (_write_pos runs after the loop).
RepeatsBounded ==
  \A q \in Recorded : Cardinality({i \in DOMAIN rows : rows[i].n = q}) <= 1 + faults

\* A device row with no address row (create_device committed, and
\* record_observation did not) is left behind at most once per fault.
OrphansBounded ==
  LET orphans == {d \in Stored : \A a \in addresses : a.device # d}
      unfinished == IF pc \in {"status", "observe"} THEN {device} ELSE {}
  IN  Cardinality(orphans \ unfinished) <= faults

\* Placeholders are per address: one address never gets a second device,
\* and no query of a LAN address stays unattributed (_persist).
OnePlaceholderPerIp ==
  /\ \A a, b \in addresses : a.ip = b.ip => a.device = b.device
  /\ \A i \in DOMAIN rows :
       rows[i].device = None <=> rows[i].ip \notin Candidates

\* dnsmasq logged this answer about e's domain between e's query and the next.
AnswerFor(line, e) ==
  /\ line.kind = "reply" /\ line.outcome = "NOERROR"
  /\ line.n = e.n /\ line.domain = e.domain

Answers(e) == {log[i] : i \in {j \in DOMAIN log : AnswerFor(log[j], e)}}

\* A row holds the answers about its domain that were logged between its query
\* and the next, whoever asked, however many polls and position saves lie
\* between the lines; after a fault perhaps not all, but never others
\* (LogParser buffers one query; process_new_lines).
AnswersFit ==
  \A i \in DOMAIN rows :
    /\ rows[i].merged \subseteq Answers(rows[i])
    /\ faults = 0 => rows[i].merged = Answers(rows[i])

\* A query that another one follows in the log is stored in the end.
FollowedQueryRecorded ==
  \A q \in QueryNo : issued > q ~> q \in Recorded

=============================================================================
