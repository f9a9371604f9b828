-------------------------------- MODULE Reads --------------------------------
(***************************************************************************)
(* What the dashboard reads: the queries of repository.py, of              *)
(* analytics_repo.py and of the routers, as operators on the tables.  A    *)
(* log is a sequence of DNS queries in the order of their ids; `stored' is *)
(* the category a domain has in domain_classifications.  A time is a       *)
(* number.                                                                 *)
(***************************************************************************)
EXTENDS DomainLabels, Integers, FiniteSetsExt, SequencesExt

LOCAL Absent == "none"

Least(a, b) == IF a < b THEN a ELSE b
Cut(s, n) == SubSeq(s, 1, Least(n, Len(s)))

\* ORDER BY occurred_at DESC, id DESC.
Newest(rows) == SortSeq(rows, LAMBDA a, b : a.at > b.at \/ (a.at = b.at /\ a.id > b.id))
Oldest(rows) == SortSeq(rows, LAMBDA a, b : a.at < b.at \/ (a.at = b.at /\ a.id < b.id))

\* The filters: device, start and end of a period; all devices and all times
\* when they are absent.
Forever == 1000000
All == [dev |-> Absent, from |-> 0, to |-> Forever]
Filtered(log, f) ==
  SelectSeq(log, LAMBDA r : /\ f.dev # Absent => r.dev = f.dev
                            /\ f.from <= r.at /\ r.at <= f.to)

\* GROUP BY, of the rows' keys: how many rows there are of each; ORDER BY the count.
Counts(keys) == [k \in Range(keys) |-> Cardinality({i \in DOMAIN keys : keys[i] = k})]
ByCount(counts) == SetToSortSeq(DOMAIN counts, LAMBDA a, b : counts[a] > counts[b])
Total(counts) == FoldFunction(+, 0, counts)
Distinct(keys) == Cardinality(Range(keys) \ {Absent})
Doms(rows) == [i \in DOMAIN rows |-> rows[i].dom]
Devs(rows) == [i \in DOMAIN rows |-> rows[i].dev]

-----------------------------------------------------------------------------
(* repository.py                                                           *)

OfflineAfter == 120

\* _effective_status
EffectiveStatus(device, now) ==
  IF device.status # "online" THEN "offline"
  ELSE IF now - device.last > OfflineAfter THEN "offline" ELSE "online"

\* The newest IPv4 address of a device: one with a dot in it.
IPv6 == {"fe80::1"}
CurrentIp(device) ==
  LET v4 == SelectSeq(device.addresses, LAMBDA a : a.ip \notin IPv6) IN
  IF v4 = <<>> THEN Absent ELSE Newest(v4)[1].ip

Visibility(log, dev) ==
  LET rows == SelectSeq(log, LAMBDA r : r.dev = dev) IN
  IF rows = <<>> THEN "NONE"
  ELSE IF \E i \in DOMAIN rows : rows[i].vis = "PARTIAL" THEN "PARTIAL" ELSE "FULL"

Summary(device, log, gateway, now) ==
  [dev |-> device.dev, last |-> device.last, status |-> EffectiveStatus(device, now),
   ip |-> CurrentIp(device), gateway |-> gateway # Absent /\ CurrentIp(device) = gateway,
   visibility |-> Visibility(log, device.dev),
   count |-> Len(SelectSeq(log, LAMBDA r : r.dev = device.dev))]

\* list_devices: the gateway is not among the devices online.
ListDevices(devices, log, gateway, now, status) ==
  LET all == SetToSortSeq({Summary(d, log, gateway, now) : d \in devices},
                          LAMBDA a, b : a.last > b.last)
  IN  SelectSeq(all, LAMBDA s : /\ status # Absent => s.status = status
                                /\ ~(s.gateway /\ status = "online"))

\* get_device: the summary with the history of the device; which 15 of its
\* domains, where it has more, is up to SQLite.
GetDevice(devices, log, gateway, now, dev) ==
  {[summary |-> Summary(d, log, gateway, now), addresses |-> Cut(Newest(d.addresses), 50),
    events |-> Cut(Newest(d.events), 20),
    domains |-> Cut(SetToSeq({r.dom : r \in ToSet(SelectSeq(log, LAMBDA q : q.dev = dev))}), 15)]
   : d \in {e \in devices : e.dev = dev}}

\* list_activity: a page and the number of rows in all pages; of the filters on
\* one column those on the device and the visibility.
Shows(where, r) == /\ where.dev # Absent => r.dev = where.dev
                   /\ where.vis # Absent => r.vis = where.vis
ListActivity(log, where, limit, offset) ==
  LET rows == Newest(SelectSeq(log, LAMBDA r : Shows(where, r)))
      from == Max({0, offset})
  IN  [total |-> Len(rows),
       items |-> SubSeq(rows, from + 1, Least(from + Max({1, Least(limit, 500)}), Len(rows)))]

QueryTypeCounts(log) == Counts([i \in DOMAIN log |-> log[i].type])

\* get_top_domains
TopDomains(log, f, limit) ==
  LET rows == Filtered(log, f)
      counts == Counts(Doms(rows))
      devices(d) == Distinct(Devs(SelectSeq(rows, LAMBDA r : r.dom = d)))
      top == Cut(ByCount(counts), Max({1, Least(limit, 100)}))
  IN  [i \in DOMAIN top |-> [dom |-> top[i], count |-> counts[top[i]], devices |-> devices(top[i])]]

\* get_dns_stats
DnsStats(log) ==
  LET vis(v) == Len(SelectSeq(log, LAMBDA r : r.vis = v)) IN
  [total |-> Len(log), full |-> vis("FULL"), partial |-> vis("PARTIAL"),
   domains |-> Distinct(Doms(log)), devices |-> Distinct(Devs(log))]

-----------------------------------------------------------------------------
(* analytics_repo.py                                                       *)

Stored(stored, d) == IF d \in DOMAIN stored THEN stored[d] ELSE "UNCATEGORIZED"

CategoryDistribution(log, stored, f) ==
  LET rows == Filtered(log, f) IN Counts([i \in DOMAIN rows |-> Stored(stored, rows[i].dom)])

\* Hours of the day, all of them; n is the number of hours.
HourlyActivity(log, f, n) ==
  LET rows == Filtered(log, f)
      counts == Counts([i \in DOMAIN rows |-> rows[i].at % n])
  IN  [h \in 0 .. n - 1 |-> IF h \in DOMAIN counts THEN counts[h] ELSE 0]

\* Dates in ascending order, from the oldest on; n is the length of a day.
DailyTimeline(log, f, n, days) ==
  LET rows == Filtered(log, [All EXCEPT !.dev = f.dev])
      counts == Counts([i \in DOMAIN rows |-> rows[i].at \div n])
      dates == Cut(SetToSortSeq(DOMAIN counts, <), days)
  IN  [i \in DOMAIN dates |-> [date |-> dates[i], count |-> counts[dates[i]]]]

Overview(log, stored, f) ==
  LET rows == Filtered(log, f)
      dist == CategoryDistribution(log, stored, f)
  IN  [total |-> Len(rows), domains |-> Distinct(Doms(rows)),
       devices |-> Distinct(Devs(rows)),
       top |-> IF rows = <<>> THEN "UNCATEGORIZED" ELSE ByCount(dist)[1]]

\* export_dns_records
ExportRecords(log, stored, f, category, limit) ==
  Cut(Newest(SelectSeq(Filtered(log, f), LAMBDA r : category # Absent => Stored(stored, r.dom) = category)),
      limit)

\* The engine of each name, worked out once; at most one, see ListsAgree.
Known == Names \cup {"news.example", "chat.example"}
EngineOf == [d \in Known |-> MatchSearchEngine(d)]

\* The first index from i on at which a row is after the time.
After(rows, i, time) == Min({j \in i .. Len(rows) : rows[j].at > time} \cup {Len(rows) + 1})

\* _opened_after_engine (the five most frequent of each engine are shown): one
\* pass over the visits in ascending order, with a
\* pointer into the ascending rows.  Mutant: the pointer goes on to the end of
\* the window.
OpenedByCursor(visits, rows, window) ==
  LET Visit(s, v) ==
        LET pos == After(rows, s.pos, v.at)
            cursor == After(rows, pos, v.at + window)
            here == {d \in {rows[i].dom : i \in pos .. cursor - 1} : EngineOf[d] = {}}
        IN  [pos |-> cursor, opened |-> [s.opened EXCEPT ![v.engine] = @ \o SetToSeq(here)]]
      done == FoldLeft(Visit, [pos |-> 1, opened |-> [e \in {v.engine : v \in ToSet(visits)} |-> <<>>]],
                       Oldest(visits))
  IN  [e \in DOMAIN done.opened |-> Counts(done.opened[e])]

OpenedAfterEngine(visits, rows, window) ==
  LET Visit(s, v) ==
        LET pos == After(rows, s.pos, v.at)
            cursor == After(rows, pos, v.at + window)
            here == {d \in {rows[i].dom : i \in pos .. cursor - 1} : EngineOf[d] = {}}
        IN  [pos |-> pos, opened |-> [s.opened EXCEPT ![v.engine] = @ \o SetToSeq(here)]]
      done == FoldLeft(Visit, [pos |-> 1, opened |-> [e \in {v.engine : v \in ToSet(visits)} |-> <<>>]],
                       Oldest(visits))
  IN  [e \in DOMAIN done.opened |-> Counts(done.opened[e])]

\* get_search_engine_activity: the visits since the cutoff, the newest of them
\* listed, and what was opened after the listed ones.
SearchEngineActivity(log, f, window, listed) ==
  LET rows == Cut(Newest(SelectSeq(Filtered(log, f), LAMBDA r : EngineOf[r.dom] # {})), 5000)
      visit(r) == [engine |-> CHOOSE e \in EngineOf[r.dom] : TRUE, at |-> r.at, id |-> r.id]
      visits == [i \in DOMAIN rows |-> visit(rows[i])]
      shown == Cut(visits, listed)
      after == Filtered(log, [All EXCEPT !.dev = f.dev, !.from = IF shown = <<>> THEN 0 ELSE Last(shown).at])
  IN  [engines |-> Counts([i \in DOMAIN visits |-> visits[i].engine]), visits |-> shown,
       opened |-> OpenedAfterEngine(shown, Cut(Oldest(after), 20000), window)]

-----------------------------------------------------------------------------
(* The routers that do more than pass a query on.                          *)

\* The labels of each name, worked out once.
LevelOf == [d \in Known |-> SecurityLevel(d)]
SubjectOf == [d \in Known |-> Subject(d)]

\* domain_security.py: a stored category goes before the keywords.
SecurityOf(d, stored) ==
  IF d \notin DOMAIN stored \/ Stored(stored, d) = "UNCATEGORIZED" THEN LevelOf[d]
  ELSE IF stored[d] = "ADULT_CONTENT" THEN "DANGEROUS" ELSE "SAFE"

\* get_domain_security: the top domains and how many there are of each level.
DomainSecurity(log, stored, f, limit) ==
  LET top == TopDomains(log, f, limit)
      level(i) == SecurityOf(top[i].dom, stored)
  IN  [domains |-> [i \in DOMAIN top |-> [dom |-> top[i].dom, count |-> top[i].count, level |-> level(i)]],
       levels |-> [l \in {"SAFE", "RISKY", "DANGEROUS", "UNKNOWN"} |->
                     Cardinality({i \in DOMAIN top : level(i) = l})]]

\* get_dangerous_domains
DangerousDomains(log, stored, f, limit) ==
  SelectSeq(DomainSecurity(log, stored, f, limit).domains, LAMBDA r : r.level \in {"DANGEROUS", "RISKY"})

\* get_subjects_by_device
Subjects(log, f, limit) ==
  LET top == TopDomains(log, f, limit)
      of(s) == {i \in DOMAIN top : SubjectOf[top[i].dom] = s}
  IN  [s \in {SubjectOf[top[i].dom] : i \in DOMAIN top} |-> FoldSet(LAMBDA i, n : n + top[i].count, 0, of(s))]

\* get_proxy_coverage: who sends traffic through the proxy.
Coverage(devices, log, proxied, from) ==
  LET since(rows, dev) == Len(SelectSeq(rows, LAMBDA r : r.dev = dev /\ r.at >= from))
  IN  [d \in {e.dev : e \in devices} |-> [dns |-> since(log, d), proxy |-> since(proxied, d),
                                          hasProxy |-> since(proxied, d) > 0]]

-----------------------------------------------------------------------------
(* What the reads promise.                                                 *)

\* The pages of the activity list, put together, are the whole list, newest
\* first; the charts over the same rows add up to its length.
PagesAddUp(log) ==
  \A f \in {All, [All EXCEPT !.dev = "dev_1"], [All EXCEPT !.from = 1, !.to = 1]} :
    LET page(vis, i) == ListActivity(log, [dev |-> f.dev, vis |-> vis], 1, i)
        whole == [i \in 1 .. page(Absent, 0).total |-> page(Absent, i - 1).items[1]]
        rows == Filtered(whole, f)
        stored == [d \in {"google.com"} |-> "PRODUCTIVITY"]
        dist == CategoryDistribution(log, stored, f)
        overview == Overview(log, stored, f)
        top == TopDomains(log, f, 2)
        security == DomainSecurity(log, stored, f, 2)
    IN  /\ ToSet(rows) = ToSet(Filtered(log, f)) /\ Len(rows) = Cardinality(ToSet(rows))
        /\ page("FULL", 0).total + page("PARTIAL", 0).total = Len(whole)
        /\ \A i \in 1 .. Len(rows) - 1 : rows[i].at >= rows[i + 1].at
        /\ rows = ExportRecords(log, stored, f, Absent, Len(rows))
        /\ Total(dist) = Len(rows) /\ overview.total = Len(rows)
        /\ Total(HourlyActivity(log, f, 2)) = Len(rows)
        /\ Len(rows) > 0 => dist[overview.top] = Max({dist[c] : c \in DOMAIN dist})
        /\ \A i \in DOMAIN top : top[i].devices <= top[i].count
        /\ Total(Subjects(log, f, 2)) = FoldLeft(LAMBDA n, r : n + r.count, 0, top)
        /\ Total(security.levels) = Len(top)
        /\ ToSet(DangerousDomains(log, stored, f, 2)) \subseteq ToSet(security.domains)
        /\ LET days == DailyTimeline(log, f, 2, 2)
               stats == DnsStats(log)
               coverage == Coverage({[dev |-> "dev_1"]}, log, <<>>, f.from)
           IN  /\ f.to = Forever /\ f.from = 0 => FoldLeft(LAMBDA n, r : n + r.count, 0, days) = Len(rows)
               /\ stats.full + stats.partial = stats.total /\ stats.total = Total(QueryTypeCounts(log))
               /\ f.dev = "dev_1" => coverage["dev_1"].dns = Len(rows) /\ ~coverage["dev_1"].hasProxy

\* What was opened within the window after a visit of a search engine, counted
\* once for every visit that it followed.
OpenedIsRight(log) ==
  LET window == 1
      found == SearchEngineActivity(log, All, window, 100)
      followed(e, d) ==
        {v \in ToSet(log) : e \in EngineOf[v.dom] /\ EngineOf[d] = {} /\
           \E r \in ToSet(log) : r.dom = d /\ v.at < r.at /\ r.at <= v.at + window}
  IN  \A e \in DOMAIN found.opened, d \in {r.dom : r \in ToSet(log)} :
        IF followed(e, d) = {} THEN d \notin DOMAIN found.opened[e]
        ELSE found.opened[e][d] = Cardinality(followed(e, d))

\* Every device is either in the view of those online or of those offline,
\* except for the gateway, which a list of clients leaves out.
DevicesSplit(devices, gateway, now) ==
  LET list(status) == ToSet(ListDevices(devices, <<>>, gateway, now, status)) IN
  /\ list("online") \cap list("offline") = {}
  /\ list(Absent) = list("online") \cup list("offline") \cup {s \in list(Absent) : s.gateway /\ s.status = "online"}
  /\ \A s \in list(Absent) : s.status = "online" => now - s.last <= OfflineAfter
  /\ \A s \in list(Absent) : \E d \in GetDevice(devices, <<>>, gateway, now, s.dev) :
       /\ d.summary = s
       /\ d.events # <<>> => (s.status = "online" => d.events[1].status = "online")
       /\ s.ip # Absent => \E i \in DOMAIN d.addresses : d.addresses[i].ip = s.ip
=============================================================================
