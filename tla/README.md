# Parental Safety Platform: TLA+ models, checks and proofs

These modules model the platform's own logic: the DNS collector, device
discovery and the database they share, the Safe-DNS switch with its failsafe,
the live feed from the database to the pages, classification and alerts, who
may ask, and what the dashboard reads. TLC checks them on small instances;
TLAPS proves the safety properties of the ingester, the scans, their composition,
the switch, the live feed, the classification requests and the parent's sessions for
every value of the constants. Paths are relative to the repository.

## The system

One host on the LAN runs everything. Its processes share a SQLite database
(WAL mode; every write is committed on its own), a few files, and the router.

| Part | State it keeps | Operations | Interacts with |
| --- | --- | --- | --- |
| DNS ingester, `collector/dns` | the byte position file, the parser's buffered query, its rows | poll the log, pair lines, persist, flush on exit | reads the dnsmasq log; writes devices, addresses and `dns_queries` |
| Device store, `collector/device_discovery/storage.py` | `devices`, `device_addresses`, `device_status_events` | create, observe, mark offline, resolve an IP | called by the ingester, scans, proxy and API |
| Identity, `identity.py` | none | `match_device`: MAC, then host name, then IP | called by a scan for each observation |
| Discovery, `discovery_service.py` | a scan's locals | gather, match, store, sweep | hourly timer, `POST /api/devices/scan` (120 s), CLI: three independent processes |
| Safe-DNS switch, `routers/router_dns.py`, `router-dns.sh` | deadline file, the router's DNS setting | `POST /mode`, `GET /status` | requests in a thread pool, no lock |
| Failsafe, `router-dns-revert-check.sh` | none of its own | compare the deadline, switch back, remove the file | systemd timer every 5 minutes |
| Real-time push, `services/realtime.py`, `routers/realtime.py` | watermarks, sockets, SSE queues | poll, broadcast, connect, drop | polls the database, pushes to browsers |
| Dashboard connection, `hooks/useRealtime.ts` | socket, timers, backoff | connect, ping, reconnect | the push end points |
| Classification, `db/classification_repo.py`, `classifiers/openrouter_classifier.py` | `domain_classifications`, verdict cache, model cooldowns | rule pass, AI pass, override, sync | an external model; feeds alerts |
| Alerts, `alerts/`, `db/alert_repo.py` | `safety_alerts` | scan, dedup, change status | reads queries and classifications |
| Authentication, `core/auth.py`, `core/security_middleware.py` | session registry, request histories, `.env` | login, logout, change password, limit | in front of every request |
| Static rules, `classifiers/rules.py`, `engine.py`, `domain_security.py`, `traffic_tags.py` | none: five tables of names | classify, evaluate, label | used by classification, alerts, feed and reads |
| Read API, `db/repository.py`, `db/analytics_repo.py`, routers | none | lists, pages, charts, exports | reads every table |
| Proxy recorder, `collector/proxy/addon.py` | one connection under a lock | record a request | writes proxy tables, resolves IPs |
| Pages, installer, backup | none of interest here | rendering, file copies | |

Hard in this system: commits of three processes interleave between a SELECT
and the write that relies on it; every process may die between two commits;
the log position, the database and the parser's memory are saved at different
moments; the failsafe, the requests and the router change two pieces of state
(router, file) in two steps each, as a password change does (process, `.env`);
the broadcast awaits each client while others come and go; a classification
pass asks a model for minutes between its reads and its writes; and nothing
retries what was half done.

What makes each part correct:

* ingester: no query is skipped; a fault costs at most one query and repeats
  each at most once; a row's answers are its domain's; a LAN address is always
  attributed, to one device;
* discovery: a MAC keeps its device; the events of a device tell its status;
  nobody seen within the grace window is marked offline;
* Safe DNS: a window that was opened stays armed; it ends only after its
  deadline, and it does end;
* push: each client gets an unbroken stretch of the feed, in order, and no slow
  or broken client costs another an event; a page reconnects, with one socket;
* classification: an override is never taken back by a verdict, what is reported
  as classified is stored, the database is not locked while a model is asked;
* alerts: a hit has an alert of its own device, type and domain;
* tables and reads: no rule is shadowed by accident, no two lists contradict
  each other, pages, charts and exports of one log agree;
* authentication: no window lets more logins of a limiter key pass than the limit, no session
  outlives a password change, the file a restart reads keeps up with the process.

## Modules

| Module | Models |
| --- | --- |
| `DeviceStore` | the device tables, one operator per committed statement group, and the clock |
| `QueryLedger` | the abstract promise of the ingester: each logged query stored once, in order |
| `DnsIngest` | `Ingester` and `LogParser`, dnsmasq as their environment, and faults; EXTENDS `DeviceStore` |
| `Discovery` | `run_discovery_cycle` and `match_device` for any number of concurrent scans; EXTENDS `DeviceStore` |
| `Collector` | the composition: one ingester and several scans on one `DeviceStore` (both INSTANCEd) |
| `SafeDns` | `set_mode`, `get_status`, the deadline file, the revert check, the router |
| `Realtime` | `SqliteChangeWatcher`, `ConnectionManager`, the WebSocket and SSE handlers |
| `RealtimeHook` | the `useRealtime` hook of any number of pages |
| `LiveFeed` | the composition: pages and SSE clients on one backend; EXTENDS `Realtime`, INSTANCEs `RealtimeHook` |
| `StaticRules` | the rule table of `classifiers/rules.py` and `classify` |
| `AlertRules` | the evaluators of `alerts/rules.py` and `evaluate`; EXTENDS `StaticRules` |
| `DomainLabels` | security levels, tags, search engines, subjects, the proxy's engines; EXTENDS `AlertRules` |
| `Safety` | classification requests, the model with its cache and cooldowns, alert scans; EXTENDS `DomainLabels` |
| `Reads` | what `repository.py`, `analytics_repo.py` and the routers compute, as operators on the tables |
| `Dashboard` | `Safety` with one reading request on small tables; EXTENDS `Safety`, `Reads` |
| `Access` | the limiter, the origin check, sessions, login, logout, password change |
| `DeviceStoreProofs`, `DnsIngestProofs`, `DiscoveryProofs`, `CollectorProofs`, `SafeDnsProofs`, `LiveFeedProofs`, `SafetyProofs`, `AccessProofs` | theorems |
| `MC*` | model values and small sets for TLC |

### How the modules correspond to the code

**DeviceStore.** `devices` maps ids to rows; ids are numbers because
`_next_device_id` formats `dev_NN` from one. A commit is one step, what a caller
read before it is an argument: `RecordObservation(.., wasOffline)` and
`MarkOffline(gone)` take the result of an earlier SELECT, since Python's
`sqlite3` opens a transaction only at the first write, so the SELECTs of
`record_observation`, `create_device` and `mark_offline_except` run outside it.
`ORDER BY observed_at DESC LIMIT 1` leaves ties open, so `ResolveIp`,
`LastHostname` and `LastIp` are sets of possible answers.

**DnsIngest.** `pc` follows one poll: `StartPoll` (open, compare with the saved
position, reset if the file is shorter), `ReadQuery` and `ReadReply` (one line of
`parse_line`), `EndOfFile`, then `TruncatePos` and `CommitPos` (`write_text`
truncates before it writes). A query line that completes a buffered entry enters
`_persist`: `ResolveDevice`, for an unknown LAN address `AllotDevice`,
`CreatePlaceholder`, `ReadStatus`, `ObservePlaceholder`, then `InsertQuery`.
dnsmasq logs a query when it arrives and replies when an upstream answers:
`LogReply` appends a reply that names any domain (a CNAME's target, or the name
of any earlier query), so a query may have several replies, late ones, or none,
and queries of other names and of the same name come in between. A line carries
the number of queries logged so far, a reply an address of its own; a byte
offset is a number of lines. `dropped`, `faults` and `rotated` are history for
the properties. Faults: `Abort` (an exception leaves the loop; the `finally` of
`run_forever` flushes), `Kill` (SIGTERM has no handler, so it is the same as
SIGKILL), `ReadFails` (`OSError`), `Rotate`. `PlaceholderConflict` (another
process took the device id meanwhile) is a step of `Collector`, where there is
another process.

**Discovery.** `scan[s]` holds the locals of one `run_discovery_cycle`.
`ReadKnown` reads the ids and MACs of the devices; `ReadHostname` and `ReadIp`
are the two SELECTs that follow for each of them, with commits of others in
between. `Hear` picks an observation (an ARP neighbour, or after `ReadLeases` a
lease) and matches it with the scan's copy of the devices; `AllotId`,
`CreateDevice`, `ReadStatus`, `Observe` store it; `EndOfLeases`, `ReadDns`,
`ReadRecentlySeen`, `SelectGone`, `MarkGone` are the sweep, active or passive.
`ScanDies` may end a scan before any statement, `IdTaken` is the primary key
conflict. `kept` (the device a MAC was created for or found by in this pass) and
`raced` of `DeviceStore` (writes decided on a status that was no longer the
device's) are history. Neighbours without a MAC are dropped by the code that
reads them, so every observation has one. The unit of time is the 30-minute DNS
window, or a scaled-down stand-in: the runs choose windows of 0 and 1 ticks,
which keeps the order DNS window <= grace <= stale.

**SafeDns.** A request passes `PostMode`, `Switch` (the script), for `on`
`StampDeadline` (the epoch is computed before the file is touched),
`TruncateDeadline` and `WriteDeadline`, for `off` `ClearDeadline`, and then, as
`GetStatus` does from the start, `ReadDeadline`, `ReadRouter` and perhaps
`DropDeadline`. `StartCheck`, `ReadContent`, `Revert`, `RemoveDeadline` are the
check; a missing switch script, an installation error, is left out. Nothing
keeps these steps apart: requests, checks and changes interleave freely.
`PanelChange` is anyone at the router itself, in its panel or with `sudo
router-dns.sh on|off`; it can turn the filter on with no deadline, and `ByHand`
names the servers a run lets them choose. The one thing assumed of time is that a
request or a check takes less than a tick. `clean` is history: the deadline now
in the file was written when nothing that had already decided what to do was
left to act, and nobody has switched since. Fault kinds: `refused` (no session
key; the router does not answer), `lost` (curl fails, the script reports
success), `timeout` (60 s; the killed script's curl lives on as an orphan),
`readonly`, `full` (the file cannot be opened, written or removed), `unreadable`
(the router's page lacks the DNS fields), `revert` (the check's switch fails),
`crash`.

**Realtime.** Everything runs on one asyncio loop, so a step lasts from one
await to the next. `watch` is the poll: `Initialize` takes the marks (and may
fail half way), `Fetch` reads a table, `TakeRow` moves the mark and takes the
lock, `Send` is one `send_text`, `Push` ends the broadcast and fills the SSE
queues without an await. `Join` and `Leave` wait while a broadcast sends. `LookupFails` is the
device-name query between the mark of an alert and its broadcast. A row is its
table and id. `sent`, `pushed`, `got` and `from` are history. An SSE client
that goes before its generator reached the `try` leaves its queue behind
(`Abandon`), as in the code.

**RealtimeHook, LiveFeed.** A page has a ref to its current socket and a number
of pending timers, of which the ref names one. `Connect`, `Mount`, `Unmount`,
`OnOpen`, `OnClose`, `Reconnect` are the functions of the hook; `ConnectThrows`
is a `connect()` that ends in its catch (useRealtime.ts:84): it has closed the
old socket and schedules no other attempt. `Mount` and `Reconnect` take what
their `connect()` does as an argument. `threw` is history. `LiveFeed` joins each
socket to the handler that serves it. Identities of sockets are used again.

**StaticRules, AlertRules, DomainLabels.** The tables are copied as sets of
names, in the blocks and the order of the source; matching is by suffix at a
dot, by substring, at word boundaries or by whole label, as each table does it.

**Safety.** A thread holds a request with its SQLAlchemy session: the rows it has
`seen` (the identity map), the changes it has `pend`ing, the domains left to do.
A step ends where another thread can come between: after a SELECT, at SQLite's
write lock (`writer`; a wait fails after five seconds only where the holder is
at the network, `Busy`), and around a call to a model. A flush takes the lock and a
commit or rollback gives it back (`Flushes`, `Commits`, `End`); an UPDATE writes
the columns that changed; `expire_on_commit` clears the identity map. A scan is
`sync`, AI pass, then `Scan` and `Store`; the failure of the first two is
swallowed; it regards the newest queries up to its limit (`HitsOf`), each with its device, which is
part of the key of an alert (`DedupKey`). `Ask` is one call with its retries over the models that are not
cooling; `Verdicts` are the answers it may have.

**Reads, Dashboard.** A log is a sequence of rows, a time a number; GROUP BY is
`Counts`, ORDER BY a sort on time and id. The pure operators are evaluated in
states that hold one question: a name of the tables, a log of 2 rows, a log of 4
visits, a gateway and a clock.

**Access.** The middleware is one step (it runs on the loop without an await
before the handler); handlers run in threads, so `VerifyLogin` and
`CreateSession`, `Revoke` and `Remove`, `SetPassword` and `Clear` are steps of
their own, and `OpenEnv` (which empties the file) and `FillEnv` are the two
halves of `write_text`. A limiter key is the first value of `X-Forwarded-For`
(security_middleware.py:68-71): the caller chooses it, so `Dispatch` takes any
key and does not tie it to the caller. `Reread` is what is read back from a
password's line. The file that is written is the root's (auth.py:185); what a
restart reads is `Effective`: `outside` where the environment or another working
directory's `.env` gives a password (config.py:35), else the root's, which the
installed unit reads in both ways (parental-monitor-api.service:13 and :44).
`NonAscii` passwords cannot be compared (`secrets.compare_digest` raises,
auth.py:62): the request ends in a 500. Rows of the audit log are not modelled.
`admitted` (every login let through, with the number of restarts before it),
`broken` and a session's `raced` are history; a restart empties the limiter's
lists and not `admitted`.

## What TLC checks

| Run | Instance | Shows |
| --- | --- | --- |
| `DnsIngest_ledger` | 3 queries of 2 domains, 2 replies of either outcome, no faults | the ingester implements `QueryLedger` (`LedgerSpec`); rows have the answers of their domain and time (`AnswersFit`); one device per LAN address; every followed query is stored (`FollowedQueryRecorded`) |
| `DnsIngest_faults` | 3 queries, a reply, 2 of kill, abort, read error, rotation at any step | while the log was not rotated `NothingSkipped` and `LossBounded`; always `RepeatsBounded`, `OrphansBounded`: what a fault costs at most |
| `Discovery_scans` | 2 scanners side by side, 2 scans of 2 observations each, 2 devices and addresses, a MAC, a host name | `EventsBounded`, `PassKeepsMac`, `OrphansBounded` under every interleaving of their statements, with scans that die anywhere |
| `Collector_shared` | an ingester and a scan, 2 queries, a LAN address and one that gets no placeholder | `RowsAttributed` while both create devices, id conflicts included |
| `SafeDns_overlap` | 2 threads, the check and changes by hand, 2 requests, one fault of any kind, a 3-tick window | `WindowStaysArmed`, `OpenWindowKept` |
| `SafeDns_ends` | the same, fair, with one of refusal, timeout, read-only file, crash | `ExpiredReverts`: an expired filter ends unless a fault worse than a refusal strikes; `FilteringEnds` |
| `LiveFeed_clients` | 1 page with 2 sockets, 1 SSE client with a queue of 1, 3 rows in 2 tables, 1 fault | `StreamIsSegment`, `StreamIsComplete`, `FeedInOrder` in every order of connects, stalls, breaks and polls |
| `LiveFeed_pages` | 1 page mounted twice, 2 sockets, 1 row, 2 faults, a throwing constructor among them | `OneSocketPerPage`; `FeedCatchesUp` and `PageReconnects` under fairness |
| `Safety_requests` | 2 threads, 2 requests of 7 kinds, 2 domains (one unknown to the rules, one of theirs), 2 queries of 2 devices, scans of the newest 1 or 2, 1 model; every name of the tables, all logs of 2 rows, 4 visits, 3 devices | `OverridesSacred`, `BulkAsksUnlocked`, `SyncKept`, `HitsAlerted`; `RulesReachable`, `ListsAgree`, `ReadsAgree` |
| `Access_parent` | 2 threads, 3 requests, 4 passwords (one too short, one read back as another, one not ASCII), a window of 2 ticks in 3, 1 restart | `LoginsBounded`, `SessionsCurrent`, `PasswordKept` |

Two runs show where the code and what it says of itself part:

* `Collector_GraceKept`. A scan reads the devices seen within the grace window
  (discovery_service.py:191) before it selects the ones to mark offline
  (storage.py:355). A placeholder the ingester creates in between is in the second
  set and not in the first, and goes offline at once, against
  discovery_service.py:30-31 "A device seen within this window stays online". One
  scan beside the always-running ingester is enough.
* `SafeDns_RevertRetried`. The deadline file is removed although the switch
  failed, because the pipeline's status is `tail`'s, against
  router-dns-revert-check.sh:68 "deadline kept so the next tick retries".

### What holds only under conditions

These were met while modelling; each property below is stated with the condition
under which the code keeps it.

* `NothingSkipped` needs a log that was not rotated, and grants the query in
  memory: stopping the daemon loses the one its parser had buffered past the
  saved position (docs/architecture/phase-2-dns.md:148 "no history is lost").
* `AnswersFit` goes by domain and place in the log, not by query, as
  log_parser.py:154 does. Two queries of one name that wait together (A and AAAA, or
  two devices) do mix: the answer to the first is stored with the second, against
  log_parser.py:115 "pairs query lines with their reply lines". A reply that comes
  after the next query of another name is stored with nobody.
* `EventsBounded` counts `raced` writes. `record_observation` reads the status
  (storage.py:311) before its write transaction; a sweep of another process in
  between leaves the device online after an `offline` event, or logs `online` twice.
* `PassKeepsMac` is about the devices a pass created or found by MAC. One it
  *adopted* by address is not updated in `known_devices` (discovery_service.py:98),
  so when the MAC is heard again in that pass at another address it is found by
  nothing and a second device is created, against identity.py:138 "Adopt the MAC
  into that record instead of duplicating the device".
* A passive scan marks a device offline that has just asked DNS (storage.py:240
  "A query is proof of life").
* `WindowStaysArmed` and `OpenWindowKept` are about a window whose deadline was
  written while nothing else had already decided (`clean`). Where something had,
  the LAN may be filtered with no deadline (of two overlapping requests the `router` one
  switches first and clears last, router_dns.py:231; or a status poll that read the
  router earlier drops the new deadline, :189), or a window may be restarted and
  end at once (a check that has compared the old deadline switches without looking
  again, router-dns-revert-check.sh:42). A filter turned on by hand has no deadline
  at all.
* `FeedInOrder` counts the faults: an error between a mark and its broadcast
  loses that row for every client. `FeedCatchesUp` excepts tables whose mark a half-failed
  first poll left out: they stay silent until a restart.
* `PageReconnects` is about a first mount and constructors that do not throw: in
  StrictMode the sockets of two mounts close each other in turns, and a constructor that
  throws schedules nothing (useRealtime.ts:84). An unmounted page reconnects, too.
* `OverridesSacred` excepts a pass that got the row before the override was
  committed: its verdict replaces the category, and the override's flag stays.
* An UNKNOWN verdict is cached, and a late one replaces a good one, so the
  domain is not asked again (README.md:105 "stay retryable"). A call whose
  models have all cooled down meanwhile caches UNKNOWN without asking any.
* `POST /ai-classify` flushes its row and then saves the verdict over another
  connection, which waits for its own lock and fails; hence `BulkAsksUnlocked`
  speaks of the passes over many domains only.
* `HitsAlerted` says nothing of counts: scans keep no watermark, so a query is
  counted by every scan, and alerts a parent dismissed come back.
* `RulesReachable` names the shadowed rules: twitch.tv and linkedin.com are
  listed twice, and some of the infrastructure block lie below earlier rules.
  `ListsAgree` excepts a resolver below a safe root (dns.google.com), labelled
  safe although it raises an alert.
* `get_daily_timeline` returns the oldest days where its docstring says "recent
  days"; `DailyTimeline` does the same, and `ReadsAgree` asks only logs that fit.
* `SessionsCurrent` excepts a login that is between its comparison and its
  session while the password changes; it does outlive it.
* `LoginsBounded` bounds a limiter key, between restarts. A caller who sends another
  `X-Forwarded-For` with every request has a fresh key each time, and a restart of the API
  empties the lists: docs/security/threat-model.md:75 "5 requests per minute per
  IP" is more than the code gives.
* `PasswordKept` excepts overlapping changes and a write cut short (a full disk,
  a restart): the file then has another password, or none of its other lines. It is
  also about the root's `.env` deciding (`outside`), and a password that is read back as it
  was written: one with ` #` in it comes back shortened after a restart.
* After a change to a password with a character that is not ASCII every login and
  every further change is a 500 (auth.py:62), although api/routers/auth.py:219 says
  "Please log in again with your new password".

### Bounds, and why they are enough

Three queries give every parser situation: a completed entry in `_persist`, one
buffered, one unread; with two domains and two replies an answer may belong to any of
them or to a name two of them share; two faults let one strike the handling of another (the
flush of an aborted loop, the re-read after a restart). Two scans at once, each of two
observations, are a wrong match, a taken id, a device the other has just observed or
marked, and two addresses of one MAC in a pass. Two threads and one check are all the
pairs of Safe-DNS actors. A request and a check each last up to a tick, so the window has 3
(`ROUTER_DNS_MAX_HOURS` of at least a few minutes) in a clock of 7, which leaves room to restart it.
`MaxTime`, `MaxQueries`, `MaxReplies`, `MaxScans`, `MaxHeard`,
`MaxPosts`, `MaxFaults` and `MaxDevices` bound the counters; each is named in a
guard.

In the live feed two sockets let one be served while another joins, leaves or
breaks off, and a page hold an old one beside the new; a queue of one event and
two rows fill it; one row per fetch makes polls follow each other with rows
waiting. Two requests on two threads are every pair of kinds in every
interleaving, and on one thread every order; two queries make a scan meet a domain twice, within a
cooldown of 1 that aggregates them where their alert is active and of their own domain; a cooldown
that elapses needs a third query and is not reached. Names, devices and logs are
all the names in the tables and one below each, and every log of two rows over
three times, two devices (one unknown) and three domains; four visits overlap windows of one tick.
Three requests are a login between two others, or two password changes around
one; with two logins per window and two ticks a window can begin anywhere. The
code's numbers (5 and 120 per 60 s, 50 and 20 rows per poll, 100 events, 500
rows per page) are constants of the modules or are not reached; nothing else in the modules depends on them.

`CHECK_DEADLOCK FALSE` stands only where those bounds really stop the
system: when clock, scans, rows, mounts or requests are used up.

### Fairness

`DnsIngest!FairSpec`: the daemon's loop goes on (`run_forever`) and systemd
restarts it (`Restart=always`). dnsmasq and faults owe nothing.
`SafeDns!FairSpec`: accepted requests are served, time passes, a running check
ends, and the timer fires while there is a file (weak fairness: nothing a request does
keeps the timer from firing). `LiveFeed!Fairness`: the loop runs every task that is ready; asyncio's
lock is fair, so a handler that waits for it gets it although the broadcast
takes it again and again (strong fairness on `Serves`); a client that does not
read reads again or is cut off by uvicorn's keepalive, so every send returns;
the browser runs its timers and close events. Rows, faults, clients that come
and go owe nothing. `Spec` alone is used for everything safe; `Safety` and `Access` state no fairness.

## What is proved

Everything here holds for all values of the constants that satisfy the ASSUMEs of
the modules. These say only of what kind each constant is (a bound is a number, a
fault one of the modelled kinds), that the LAN addresses are addresses, that the three
windows of discovery are ordered as in the code, that the scanners are finitely many,
that the two kinds of client differ, and that `None` is none of the values it stands beside.

`DnsIngestProofs`:

* `TypeCorrect`. The interesting conjuncts relate `pc` to the entry and device in
  hand; they need that the id `AllotDevice` reads is a device id. `DeviceStoreProofs`
  holds the lemma that it is not in use.
* `PositionNeverSkips` (`NothingSkipped`), for any number of kills, exceptions and
  read errors. The property speaks of the saved position, which moves only at
  `CommitPos`; the inductive invariant says the same of the read position while a
  poll runs, that both lie within the log, and that what leaves memory goes to a row or
  to `dropped`.
* `LossTheorem` (`LossBounded`): a kill between a completed entry and its row finds
  two queries in memory but costs one. `LossInv` says why: while an entry is in hand
  the poll's saved position lies before the line that completed it, and that line is the
  buffered query's own, which is therefore read again. The invariant counts, beside the queries lost before the saved
  position, those before the read position, which `CommitPos` turns into the former.
* `RepeatTheorem` (`RepeatsBounded`), for every kind of fault, rotations included.
  The rows of a query say nothing about the rows to come, so `RepeatInv` counts
  its rows together with what it is still owed: an unread line, a buffered entry, an entry
  in hand. The sum is one at most at first, and only a fault adds to it, by one at most:
  it moves back the place from which the daemon reads on.
* `AnswersTheorem` (`AnswersFit`), for any number of outstanding queries and any replies,
  when the faults are kills and exceptions; a failed read keeps the buffered entry and goes
  back in the log, and a rotation puts other lines at the old offset. `OwnInv` ties the buffered
  query to the position: it is the last query line before the line read next, so what it is
  given was logged after it and before the next one, and without a fault nothing between is missed.
* `PlaceholdersPerAddress` (`OnePlaceholderPerIp`) and `OrphansTheorem`
  (`OrphansBounded`), whatever the faults: an entry for which a device is being made has an
  address nobody has, and each fault turns at most the device in hand into an orphan.
* `ImplementsLedger`: without faults, `Spec => LedgerSpec`, the refinement of
  `QueryLedger` by `logged <- issued, recorded <- recordedIds`. The invariant
  says that the rows are the queries 1, 2, ..., k in order, that the entry in
  hand is query k+1 and the buffered one the next, and that the lines read so far
  contain exactly those queries.

`DiscoveryProofs`, over `ScanInv`, which says of every scan that the device it is
about to observe, those it knows and those it is about to mark are stored. It is
kept by other scans' steps because none removes a device. All of it holds for any number of
scans that overlap and die.

* `TypeCorrect` and `OrphansTheorem` (`OrphansBounded`). The last counts: each scan that
  has ended pays for at most one device it created and did not observe.
* `EventsTheorem` (`EventsBounded`): a write decided on the status the device still has
  logs nothing or the event that changes it, so the log goes on alternating; one decided on
  another status repeats an event or leaves one out, and is counted in `raced`. `EventsInv`
  adds that a device not yet created has no events (`RecordKeepsEvents`, `MarkKeepsEvents`,
  over `SlipsBound`, in `DeviceStoreProofs`).
* `PassTheorem` (`PassKeepsMac`), with every rule of `match_device` in play and any
  store at the start: `KeptInv` says that the first device in a scan's copy that has a MAC of `kept`
  is the one it is kept with, and that a MAC about to get a new device is in the copy
  nowhere.

`CollectorProofs`: `TypeOK` and `RowsAttributed` for one ingester, any number of scans and
every interleaving. It INSTANCEs the two proof modules, shows that their definitions are
those `Collector` instantiates, and takes their invariants together: a step
of one process keeps the other's invariant because it takes no device and no
address away (`IngesterAdds`, `ScanAdds`, `OthersKeep`). `AttributedInv` adds the entry in hand, whose device is
looked up some steps before its row is written.

`SafeDnsProofs` proves:

* `TypeCorrect`: `Spec => []TypeOK`, whatever overlaps and fails. The invariant
  adds to the types what each request is at a time (`Timely`): one that writes a
  deadline was asked for the filter at most one tick ago, so that the deadline
  lies within the clock's bound.
* `WindowTheorem` (`WindowStaysArmed`) and `OpenWindowTheorem` (`OpenWindowKept`), for any
  number of threads, any window and any faults, of which an unreadable page and a failed revert end the claim.
  The invariant (`GuardInv`) says what holds as long as nobody switches (`Kept`): there is no
  orphan and no request that switches or writes; while the LAN is filtered the file has a
  deadline, no status poll is about to drop it, and a check about to switch has seen it expired.
  It is established where `WriteDeadline` finds nothing else in flight, and each step of a poll
  or a check that starts later keeps it, because what it reads is what the window has left there.

`LiveFeedProofs`, for any number of pages, sockets, SSE clients, tables, rows and faults:

* `ClientsFollowFeed`, `ClientsMissNothing`, `FeedKeepsOrder` (`StreamIsSegment`,
  `StreamIsComplete`, `FeedInOrder`), all from `FeedInvariant`. Its parts: the
  batch in hand is the run of rows that follows the mark (`WatchInv`); between a
  broadcast and its push the queues lag the feed by one event, and the sockets that are
  still to be sent it are registered (`CastInv`); what a client has is the feed from its
  place on (`SocketsInv`, `StreamsInv`). The properties need all of it: that a row
  extends what a client has rests on the client being registered, and the order of the
  feed on the batch starting at the mark.
* `PageHoldsOneSocket` (`OneSocketPerPage`): `connect` closes what the ref names before it
  opens, also where opening then throws, and nothing else opens. `FeedTypeCorrect` (`FeedTypeOK`) is proved beside it.

`SafetyProofs`, for any number of threads, domains, models and requests, from
`RequestInvariant` (`SafetyInv`). It says of each request, given the rows and the holder of
the write lock: where its handler may hold the lock (`LockOK`); that a change it has
still to write fits the committed rows, is no override, and updates no row it knew as
one, unless the request is an override itself (`PendOK`); that the domains the model is asked
about have a row or an INSERT that waits in the same session (`AskedOK`); and that what
a sync counts is stored or is such an INSERT under the lock (`SyncOK`). `OneRequest` is the
argument for everybody else: a step writes rows only where nobody else holds the lock, and no row goes
away, so what others rely on stays. The rules enter by one fact, that `classify`
gives every name a category (`StaticType`), which rests on the table block by block.

* `BulkTheorem` (`BulkAsksUnlocked`) is `LockOK` at the network: the rules are committed, and the lock with
  them given back, before the model is asked.
* `SyncTheorem` (`SyncKept`): a session that holds the lock cannot fail to commit,
  because its INSERTs were checked at the flush and nobody else writes until then; every
  failure after that finds the rows committed.
* `OverrideTheorem` (`OverridesSacred`): only a commit changes a row (`OnlyCommits`); an
  INSERT over an override is a clash and raises, an UPDATE leaves its flag, and one that changes
  the category was planned on a row not yet overridden, or by an override.
* `HitsTheorem` (`HitsAlerted`), from `AlertInvariant`. Once a scan has read, each of its hits has an alert or is in
  the list its `Store` still adds (`HitsOK`): up to the first hit without an alert of its own, reading has added
  nothing, so the hits before it are covered by the alerts that were there (`FirstNew`). In the
  meantime alerts only become more and keep their domain and type, whoever stores or closes them
  (`Grows`, `HitsStay`), so what was covered stays covered; and each hit that `Store` adds covers itself,
  on top of whatever is there by then (`AlertsAfter`, `AfterFacts`).
* `TypeCorrect` (`TypeOK`) joins the three invariants: `SafetyInv`; `AlertInv`, which has the alerts and hits, and
  that a request tries models of the list (`ModelsOK`); and the bounds (`LimitInv`). An alert
  always has one of the types of `AlertType`, because every check of `Evaluate` answers with one or not at all
  (`EvaluateType`) and the scan filters the quiet ones out (`HitsOfType`).

`AccessProofs`, from `AccessAssumption` alone (no password is the mark of an absent
line; what is read back from a password's line is a password): `TypeOK`, `SessionsCurrent`,
`PasswordKept` and `LoginsBounded`. `SessionsCurrent` needs
`LoginsVerified`: a login about to open its session has the password in force or
was overtaken by a change. `PasswordKept` speaks only of moments when nobody is
in the middle of a rewrite, so it rests on `FileInv`: without an overlap there is at most one
thread from reading the file to setting the password (`RewriterAlone`); it
holds complete lines and has its password in the file before it sets the
process's (`RewriterHolds`); and outside the two middle steps the file has its lines and
either a restart reads the password in force or the file has it as it was set (`Agrees`). The
second case is a password that is read back as another: until a restart the process
has what was written, and after one it has what was read.

`LoginsBounded` (`LoginsTheorem`) speaks of every login ever let through, while the limiter keeps
only a list that it filters at each request and loses at a restart. `LimiterInv` relates the two: both
sequences are in the order of time and not ahead of the clock (`ListsInOrder`), and the list is what is
left of the logins let through when the oldest are dropped, all of them outside the window or before
the last restart (`LoginsListed`, `Gone`). `CountedKeeps` shows that a request keeps this. A login is let
through when fewer than the limit are left by the filter, so the one that many logins earlier is
outside the window or of an earlier run (`LoginBounded`).

The filters and the fold of these proofs (`Recent`, `Without`, `AlertsAfter`) are recursive functions on
the positions of a sequence. What such a definition computes is an induction over data, for
which the library's theorems cannot be used here: they take an operator. The proofs take a set in its
place: a set of numbers up to N that has 0 and, with n - 1, also n is 0 .. N (`UpTo`), since what is missing
would have a smallest element (`SmallestExists`, from the well-foundedness of finite subsets). By it a function that satisfies the
equations exists (`FoldExists`), so that the definition has the value its equations give,
and what each step keeps holds at the end.

Only model-checked: `ExpiredReverts`, `FilteringEnds`, `FollowedQueryRecorded`,
`FeedCatchesUp` and `PageReconnects`, which are liveness under fairness; and `RulesReachable`,
`ListsAgree` and `ReadsAgree`. The first two evaluate how the tables of `StaticRules`, `AlertRules` and `DomainLabels` match
names, and no backend takes a string apart. `ReadsAgree` compares sorted, grouped and
filtered logs; it is evaluated on all logs within the bounds.

## Not modelled, and why

* Text: log lines, host names and addresses, titles, prompts, HTTP bodies and
  headers, number formats, regular expressions beyond the matching they do.
* Partial lines at the end of the dnsmasq log (the model appends whole lines).
* Proxy recorder (`addon.py`): its flows come from mitmproxy and its two tables have
  one writer; keyword extraction is the parsing of URLs. A failure between its INSERT and its
  commit is listed as a hazard without a property.
* Emergency reset, installer, backup and restore: sequential shell over units
  and files. A restore stops the API and the collector but not the proxy and the
  scan timer; what a writer does whose database file is replaced is SQLite's matter.
* Database set-up and migrations: they run before anything modelled here.
* Network readers (ARP, router page, DNS names, vendor table): stateless; what
  they return is an input of `Discovery`.
* Pages and API client of the dashboard: rendering; their one stateful part is `useRealtime`.
* Single writes nothing here reads: friendly name, device type, notes of overrides, titles of alerts.
* Of the read API: health, proxy listings, schemas, audit listing. `lru_cache`
  of the pure classifiers, which cannot go stale.
* `_pick_models` reads the cooldowns twice; another thread that clears them
  between makes it raise a KeyError. The model takes the two reads as one.

## What is left

Every safety property of a component's state machine and the refinement are proved; the three
that evaluate tables and small logs are checked. What remains open is liveness beyond the bounds,
and the code under "Not modelled", first the proxy recorder's transaction.
