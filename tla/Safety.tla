-------------------------------- MODULE Safety --------------------------------
(***************************************************************************)
(* How queried domains get their category and raise alerts: the requests   *)
(* that classify by rules, ask the AI model, override by hand or scan the  *)
(* queries, each on a thread and a database session of its own.  A step    *)
(* ends where another thread can come between: after a read, at a wait for *)
(* SQLite's write lock, before and after a call to the model.              *)
(***************************************************************************)
EXTENDS DomainLabels, FiniteSetsExt, SequencesExt

CONSTANTS
  None,
  Threads,      \* worker threads of the backend
  Domains,      \* names that devices ask for
  Askers,       \* device_id of a query: the devices, None where it has none
  Kinds,        \* the kinds of request that are made, see Request
  Models,       \* FREE_MODELS, in the order of preference
  Verdicts,     \* answers of a model, a subset of the DOMAIN of MapAiCategory
  Chosen,       \* categories a parent overrides with
  AiLimit,      \* ai_limit: domains per AI pass
  ScanLimits,   \* limit: how many of the newest queries a scan reads
  Cooldown,     \* the window in which an alert aggregates hits
  MaxQueries,   \* how many queries are logged
  MaxRequests,  \* how many requests are made
  MaxClosed     \* how many alerts the parent closes

Categories == {"SOCIAL_MEDIA", "STREAMING_VIDEO", "GAMING", "EDUCATION", "PRODUCTIVITY",
               "ADULT_CONTENT", "ADS_TRACKING", "TECH_INFRASTRUCTURE", "NEWS_MEDIA", "SHOPPING",
               "UNCATEGORIZED"}

\* AI_CATEGORY_TO_RULE_CATEGORY; UNKNOWN has no category.
MapAiCategory ==
  [UNSAFE |-> "ADULT_CONTENT", GAMBLING |-> "ADULT_CONTENT", SOCIAL_MEDIA |-> "SOCIAL_MEDIA",
   STREAMING |-> "STREAMING_VIDEO", GAMING |-> "GAMING", MESSAGING |-> "SOCIAL_MEDIA",
   NEWS_INFORMATION |-> "NEWS_MEDIA", PRODUCTIVITY_EDUCATION |-> "PRODUCTIVITY",
   SEARCH_PORTAL |-> "PRODUCTIVITY", INFRASTRUCTURE_SYSTEM |-> "TECH_INFRASTRUCTURE",
   UNKNOWN |-> None]

\* A row of domain_classifications: its category, is it a manual override.
Row == [cat: Categories, over: BOOLEAN]

\* A change a session has still to commit: an INSERT, or an UPDATE of the
\* columns that the ORM saw change.
Change == [new: BOOLEAN, cat: Categories \cup {None}, over: BOOLEAN]

Request == {"sync", "aisync", "aiclassify", "override", "scan", "ask", "reask"}

ASSUME SafetyAssumption ==
  /\ None \notin Threads \cup Categories \cup DOMAIN MapAiCategory
  /\ None \notin Row /\ None \notin Change
  /\ Kinds \subseteq Request /\ Chosen \subseteq Categories
  /\ Verdicts \subseteq DOMAIN MapAiCategory /\ "UNKNOWN" \in Verdicts
  /\ Models \in Seq(STRING) /\ Len(Models) > 0
  /\ AiLimit \in Nat \ {0} /\ ScanLimits \subseteq Nat \ {0} /\ Cooldown \in Nat
  /\ MaxQueries \in Nat /\ MaxRequests \in Nat /\ MaxClosed \in Nat

VARIABLES
  queries,   \* dns_queries in the order of their ids, one per unit of time
  class,     \* domain_classifications: the committed row of each domain
  cache,     \* openrouter_results
  alerts,    \* safety_alerts in the order of their ids
  key,       \* an API key is saved
  cooling,   \* the models in _MODEL_COOLDOWN_UNTIL whose time has not come
  writer,    \* the thread whose session holds SQLite's write lock
  req,       \* the request on each thread, with its session
  made,      \* requests made so far
  closed     \* alerts closed so far

vars == <<queries, class, cache, alerts, key, cooling, writer, req, made, closed>>
aiVars == <<cache, key, cooling>>
dataVars == <<queries, class, cache, alerts, key, cooling>>

Nothing == [d \in Domains |-> None]

Query == [dom: Domains, dev: Askers]
Hit == [dev: Askers, dom: Domains, type: AlertType, at: Nat]
Alert == [dev: Askers, dom: Domains, type: AlertType, last: Nat, active: BOOLEAN]

\* The domains that have been asked for.
Queried == {q.dom : q \in ToSet(queries)}

\* generate_dedup_key, of a hit or of an alert.
DedupKey(h) == <<h.dev, h.type, h.dom>>

Rest == [kind |-> None, pc |-> "idle", cat |-> None, todo |-> {}, dom |-> None, left |-> <<>>,
         seen |-> Nothing, pend |-> Nothing, answer |-> Nothing, count |-> {},
         bump |-> {}, hits |-> <<>>]

TypeOK ==
  /\ queries \in Seq(Query) /\ Len(queries) <= MaxQueries
  /\ class \in [Domains -> Row \cup {None}]
  /\ cache \in [Domains -> Verdicts \cup {None}]
  /\ alerts \in Seq(Alert)
  /\ key \in BOOLEAN /\ cooling \subseteq ToSet(Models)
  /\ writer \in Threads \cup {None}
  /\ \A t \in Threads : LET r == req[t] IN
       /\ r.kind \in Kinds \cup {None} /\ r.todo \subseteq Domains /\ r.count \subseteq Domains
       /\ r.pend \in [Domains -> Change \cup {None}] /\ r.seen \in [Domains -> Row \cup {None}]
       /\ r.answer \in [Domains -> Verdicts \cup {None}] /\ r.hits \in Seq(Hit)
       /\ r.pc \in {"idle", "ok", "error"} => writer # t /\ r.pend = Nothing
  /\ made \in 0 .. MaxRequests /\ closed \in 0 .. MaxClosed

Init ==
  /\ queries = <<>> /\ class = Nothing /\ cache = Nothing /\ alerts = <<>>
  /\ key \in BOOLEAN /\ cooling = {}
  /\ writer = None /\ req = [t \in Threads |-> Rest]
  /\ made = 0 /\ closed = 0

-----------------------------------------------------------------------------
(* Sessions.                                                               *)

\* The verdict of the rules, and the alert for a domain of a category.
Static == [d \in Domains |-> Classify(d)]
AlertFor == [d \in Domains |-> [c \in Categories |-> Evaluate(d, c, "FULL")]]

Applied(row, ch) ==
  IF ch = None THEN row
  ELSE IF ch.new THEN [cat |-> ch.cat, over |-> ch.over]
  ELSE [cat |-> IF ch.cat = None THEN row.cat ELSE ch.cat, over |-> row.over \/ ch.over]

\* A SELECT on the session sees what the session itself has flushed.
View(t) == [d \in Domains |-> IF writer = t THEN Applied(class[d], req[t].pend[d]) ELSE class[d]]

Differs(cat, row) == IF row.cat = cat THEN None ELSE cat

\* A later change of a row in the same session joins the earlier one.
Joined(old, ch) ==
  IF old = None \/ ch = None THEN (IF ch = None THEN old ELSE ch)
  ELSE [old EXCEPT !.cat = IF ch.cat = None THEN @ ELSE ch.cat, !.over = @ \/ ch.over]

\* upsert_classification on the row a session got.
RuleChange(d, row) ==
  IF row = None THEN [new |-> TRUE, cat |-> Static[d], over |-> FALSE]
  ELSE IF row.over THEN None
  ELSE [new |-> FALSE, cat |-> Differs(Static[d], row), over |-> FALSE]

\* upsert_ai_classification.  Mutant: overrides are rewritten as well.
AiChangeAlways(row, verdict) ==
  IF MapAiCategory[verdict] = None THEN None
  ELSE [new |-> FALSE, cat |-> Differs(MapAiCategory[verdict], row), over |-> FALSE]

AiChange(row, verdict) ==
  IF row.over \/ MapAiCategory[verdict] = None THEN None
  ELSE [new |-> FALSE, cat |-> Differs(MapAiCategory[verdict], row), over |-> FALSE]

\* set_override
OverrideChange(row, cat) ==
  IF row = None THEN [new |-> TRUE, cat |-> cat, over |-> TRUE]
  ELSE [new |-> FALSE, cat |-> Differs(cat, row), over |-> TRUE]

\* A statement that writes waits for the lock.  It fails after five seconds,
\* which only a holder that calls the network keeps it for.
AtNetwork(t) == req[t].pc \in {"cached", "pick", "wait", "ask", "save"}
Free(t) == writer \in {None, t}
Busy(t) == ~Free(t) /\ AtNetwork(writer)

\* An INSERT of a row that another session has committed in the meantime.
Clash(t) == writer # t /\ \E d \in Domains : req[t].pend[d] # None /\ req[t].pend[d].new /\ class[d] # None
Dirty(t) == req[t].pend # Nothing

Becomes(t, r) == req' = [req EXCEPT ![t] = r]

\* The answer is sent and the session closed, which rolls back what it has
\* not committed.  Mutant: the session is left open.
EndUnclosed(t, pc, count, hits) ==
  /\ req' = [req EXCEPT ![t] = [Rest EXCEPT !.kind = req[t].kind, !.pc = pc, !.count = count, !.hits = hits]]
  /\ writer' = writer

End(t, pc, count, hits) ==
  /\ req' = [req EXCEPT ![t] = [Rest EXCEPT !.kind = req[t].kind, !.pc = pc, !.count = count, !.hits = hits]]
  /\ writer' = IF writer = t THEN None ELSE writer

Fail(t) == End(t, "error", {}, <<>>)
Succeed(t) == End(t, "ok", req[t].count, req[t].hits)

\* session.flush(): the lock is kept until the commit.
Flushes(t) ==
  /\ Dirty(t) => Free(t) /\ ~Clash(t)
  /\ writer' = IF Dirty(t) THEN t ELSE writer

\* session.commit(); every row is read again afterwards.
Commits(t) ==
  /\ Dirty(t) => Free(t) /\ ~Clash(t)
  /\ class' = [d \in Domains |-> Applied(class[d], req[t].pend[d])]
  /\ writer' = IF writer = t THEN None ELSE writer
Clean(t) == [req[t] EXCEPT !.pend = Nothing, !.seen = Nothing]

\* A flush or a commit raises.
Raises(t) == Dirty(t) /\ (Busy(t) \/ (Free(t) /\ Clash(t)))

-----------------------------------------------------------------------------
(* What the other processes and the parent do in a single statement.       *)

LogQuery(q) ==
  /\ writer = None /\ Len(queries) < MaxQueries
  /\ queries' = Append(queries, q)
  /\ UNCHANGED <<class, cache, alerts, key, cooling, writer, req, made, closed>>

SaveKey ==
  /\ writer = None /\ ~key
  /\ key' = TRUE
  /\ UNCHANGED <<queries, class, cache, alerts, cooling, writer, req, made, closed>>

\* update_alert: acknowledged, dismissed or resolved, or made active again.
UpdateAlert(i, active) ==
  /\ writer = None /\ closed < MaxClosed
  /\ alerts[i].active # active
  /\ alerts' = [alerts EXCEPT ![i].active = active]
  /\ closed' = closed + 1
  /\ UNCHANGED <<queries, class, cache, key, cooling, writer, req, made>>

\* A cooldown ends.
Recover(m) ==
  /\ m \in cooling
  /\ cooling' = cooling \ {m}
  /\ UNCHANGED <<queries, class, cache, alerts, key, writer, req, made, closed>>

\* The backend is restarted: SQLite rolls back, the cooldowns are forgotten.
Restart ==
  /\ \E t \in Threads : req[t].pc \notin {"idle", "ok", "error"}
  /\ req' = [t \in Threads |-> Rest] /\ writer' = None /\ cooling' = {}
  /\ UNCHANGED <<queries, class, cache, alerts, key, made, closed>>

Start(t, kind, d, cat) ==
  /\ req[t].pc \in {"idle", "ok", "error"} /\ made < MaxRequests
  /\ made' = made + 1
  /\ LET r == [Rest EXCEPT !.kind = kind, !.cat = cat, !.todo = {d}, !.dom = d] IN
     Becomes(t,
       CASE kind \in {"sync", "scan"} -> [Rest EXCEPT !.kind = kind, !.pc = "list"]
         [] kind = "aisync" -> [Rest EXCEPT !.kind = kind, !.pc = "ai"]
         [] kind = "aiclassify" /\ ~key -> [Rest EXCEPT !.kind = kind, !.pc = "error"]
         [] kind \in {"aiclassify", "override"} -> [r EXCEPT !.pc = "look"]
         [] kind = "ask" -> [r EXCEPT !.pc = "cached"]
         [] kind = "reask" -> [r EXCEPT !.pc = "pick"])
  /\ UNCHANGED <<dataVars, writer, closed>>

-----------------------------------------------------------------------------
(* The passes over the queried domains.                                    *)

\* Where a request goes on after the AI pass, done, skipped or failed.
AfterAi(kind) == IF kind = "scan" THEN "scan" ELSE "final"

\* sync_unclassified: the domains without a row ...
List(t) ==
  /\ req[t].pc = "list"
  /\ LET todo == {d \in Queried : class[d] = None} IN
     Becomes(t, [req[t] EXCEPT !.todo = todo, !.count = todo, !.pc = IF todo = {} THEN "ai" ELSE "get"])
  /\ UNCHANGED <<dataVars, writer, made, closed>>

\* ... then the row of each of them ...
Planned(t) ==
  [d \in Domains |-> IF d \in req[t].todo THEN Joined(req[t].pend[d], RuleChange(d, View(t)[d]))
                     ELSE req[t].pend[d]]
Seen(t, S) == [d \in Domains |-> IF d \in S THEN View(t)[d] ELSE req[t].seen[d]]

Get(t) ==
  /\ req[t].pc = "get"
  /\ Becomes(t, [req[t] EXCEPT !.pend = Planned(t), !.seen = Seen(t, req[t].todo), !.pc = "flush"])
  /\ UNCHANGED <<dataVars, writer, made, closed>>

\* ... and the flush.  Mutant: without it, the rows wait for a commit.
FlushLeftOut(t) ==
  /\ req[t].pc = "flush"
  /\ Becomes(t, [req[t] EXCEPT !.pc = "ai"])
  /\ UNCHANGED <<dataVars, writer, made, closed>>

Flush(t) ==
  /\ req[t].pc = "flush"
  /\ Flushes(t)
  /\ Becomes(t, [req[t] EXCEPT !.pc = "ai"])
  /\ UNCHANGED <<dataVars, made, closed>>

\* An error of the flush ends a sync; a scan swallows it without a rollback,
\* so that its next query fails on the broken session.
FlushFails(t) ==
  /\ req[t].pc = "flush" /\ Raises(t)
  /\ Fail(t)
  /\ UNCHANGED <<dataVars, made, closed>>

\* ai=false in the request, or no key.
SkipAi(t) ==
  /\ req[t].pc = "ai" /\ (req[t].kind = "aisync" => ~key)
  /\ Becomes(t, [req[t] EXCEPT !.pc = AfterAi(req[t].kind)])
  /\ UNCHANGED <<dataVars, writer, made, closed>>

\* ai_sync_uncategorized: the domains without a row or an uncategorized one,
\* any AiLimit of them (the code takes the most frequent) ...
Candidates(t) ==
  /\ req[t].pc = "ai" /\ key
  /\ LET open == {d \in Queried : \/ View(t)[d] = None
                                  \/ View(t)[d].cat = "UNCATEGORIZED" /\ ~View(t)[d].over}
         n == IF Cardinality(open) < AiLimit THEN Cardinality(open) ELSE AiLimit
     IN  \E S \in kSubset(n, open) : Becomes(t, [req[t] EXCEPT !.todo = S, !.pc = "regard"])
  /\ UNCHANGED <<dataVars, writer, made, closed>>

\* ... the rules first ...
Regard(t) ==
  /\ req[t].pc = "regard"
  /\ LET needsAi == {d \in req[t].todo : /\ View(t)[d] = None \/ ~View(t)[d].over
                                         /\ Static[d] = "UNCATEGORIZED"}
     IN  Becomes(t, [req[t] EXCEPT !.pend = Planned(t), !.seen = Seen(t, req[t].todo),
                                   !.todo = needsAi, !.pc = "commit"])
  /\ UNCHANGED <<dataVars, writer, made, closed>>

\* ... and a commit before the model is asked.  Mutant: without it.
CommitLeftOut(t) ==
  /\ req[t].pc = "commit"
  /\ Flushes(t)
  /\ Becomes(t, [req[t] EXCEPT !.pc = IF req[t].todo = {} THEN AfterAi(req[t].kind) ELSE "cached"])
  /\ UNCHANGED <<dataVars, made, closed>>

CommitRules(t) ==
  /\ req[t].pc = "commit"
  /\ Commits(t)
  /\ Becomes(t, [Clean(t) EXCEPT !.pc = IF req[t].todo = {} THEN AfterAi(req[t].kind) ELSE "cached"])
  /\ UNCHANGED <<queries, aiVars, alerts, made, closed>>

\* An exception of the AI pass: sync and scan go on with what is left.
AiFails(t) ==
  IF req[t].kind \in {"sync", "scan"}
  THEN /\ Becomes(t, [Rest EXCEPT !.kind = req[t].kind, !.count = req[t].count,
                                  !.pc = AfterAi(req[t].kind)])
       /\ writer' = IF writer = t THEN None ELSE writer
  ELSE Fail(t)

\* A commit that fails has rolled the session back.
CommitFails(t) ==
  /\ req[t].pc \in {"commit", "commit2"} /\ Raises(t)
  /\ AiFails(t)
  /\ UNCHANGED <<dataVars, made, closed>>

\* The verdicts are joined to the rows as they are now; the row that a single
\* classification has held since it looked is not read again.
ReadBack(t) ==
  /\ req[t].pc = "read"
  /\ LET answered == {d \in Domains : req[t].answer[d] # None}
         rows == IF req[t].kind = "aiclassify" THEN req[t].seen ELSE Seen(t, answered)
         written == [d \in Domains |-> IF d \in answered THEN AiChange(rows[d], req[t].answer[d]) ELSE None]
     IN  Becomes(t, [req[t] EXCEPT
           !.seen = rows, !.pend = [d \in Domains |-> Joined(@[d], written[d])],
           !.pc = IF req[t].kind = "aiclassify" THEN "final"
                  ELSE IF written = Nothing THEN AfterAi(req[t].kind) ELSE "commit2"])
  /\ UNCHANGED <<dataVars, writer, made, closed>>

CommitVerdicts(t) ==
  /\ req[t].pc = "commit2"
  /\ Commits(t)
  /\ Becomes(t, [Clean(t) EXCEPT !.pc = AfterAi(req[t].kind)])
  /\ UNCHANGED <<queries, aiVars, alerts, made, closed>>

-----------------------------------------------------------------------------
(* One domain: override_classification and ai_classify_domain.             *)

\* An uncategorized row is only touched, which is no statement at all within
\* the second of its last change.
Look(t) ==
  /\ req[t].pc = "look"
  /\ LET d == req[t].dom
         row == class[d]
         change == IF req[t].kind = "override" THEN OverrideChange(row, req[t].cat) ELSE RuleChange(d, row)
     IN  \E ch \in {change} \cup (IF change = [new |-> FALSE, cat |-> None, over |-> FALSE]
                                  THEN {None} ELSE {}) :
           Becomes(t, [req[t] EXCEPT !.pend[d] = ch, !.seen[d] = Applied(row, ch),
                                     !.pc = IF req[t].kind = "override" THEN "final" ELSE "flushone"])
  /\ UNCHANGED <<dataVars, writer, made, closed>>

\* The flush before the model is asked: with a change to write, this session
\* holds the lock from here on.
FlushOne(t) ==
  /\ req[t].pc = "flushone"
  /\ Flushes(t)
  /\ LET row == req[t].seen[req[t].dom] IN
     Becomes(t, [req[t] EXCEPT !.pc = IF row.over \/ row.cat # "UNCATEGORIZED" THEN "final" ELSE "cached"])
  /\ UNCHANGED <<dataVars, made, closed>>

\* The commit of the handler.
Final(t) ==
  /\ req[t].pc = "final"
  /\ Commits(t) /\ Succeed(t)
  /\ UNCHANGED <<queries, aiVars, alerts, made, closed>>

WriteFails(t) ==
  /\ req[t].pc \in {"flushone", "final"} /\ Raises(t)
  /\ Fail(t)
  /\ UNCHANGED <<dataVars, made, closed>>

-----------------------------------------------------------------------------
(* The AI model: classify_domains_batch and the OpenRouter endpoints.      *)

\* The next domain of the batch, or what follows it.
Answered(t, d, verdict) ==
  LET todo == req[t].todo \ {d} IN
  [req[t] EXCEPT !.answer[d] = verdict, !.todo = todo, !.dom = None, !.left = <<>>,
                 !.pc = IF todo = {} THEN "read" ELSE "cached"]

\* Only the classifications write verdicts into domain_classifications.
Settles(t, d, verdict) ==
  IF req[t].kind \in {"ask", "reask"} THEN Succeed(t)
  ELSE Becomes(t, Answered(t, d, verdict)) /\ UNCHANGED writer

\* get_cached_classification: a stored verdict is final, UNKNOWN as well.
Cached(t) ==
  /\ req[t].pc = "cached"
  /\ \E d \in req[t].todo :
       IF cache[d] # None THEN Settles(t, d, cache[d])
       ELSE Becomes(t, [req[t] EXCEPT !.dom = d, !.pc = "pick"]) /\ UNCHANGED writer
  /\ UNCHANGED <<dataVars, made, closed>>

\* The members of a sequence that are not in a set, in their order.
Without(s, S) ==
  LET kept[i \in 0 .. Len(s)] ==
        IF i = 0 THEN <<>>
        ELSE IF s[i] \in S THEN kept[i - 1] ELSE Append(kept[i - 1], s[i])
  IN  kept[Len(s)]

Told(t, v) == [req[t] EXCEPT !.answer[req[t].dom] = v, !.left = <<>>, !.pc = "save"]

\* _pick_models: the models that are not cooling.  Without a key nothing is
\* asked.
Pick(t) ==
  /\ req[t].pc = "pick"
  /\ LET fresh == Without(Models, cooling) IN
     IF ~key THEN Becomes(t, Told(t, "UNKNOWN"))
     ELSE Becomes(t, [req[t] EXCEPT !.left = fresh, !.pc = IF fresh = <<>> THEN "wait" ELSE "ask"])
  /\ UNCHANGED <<dataVars, writer, made, closed>>

\* After the bounded wait: those that recovered, or all of them afresh.
Wake(t) ==
  /\ req[t].pc = "wait"
  /\ LET recovered == Without(Models, cooling) IN
     IF recovered # <<>>
     THEN Becomes(t, [req[t] EXCEPT !.left = recovered, !.pc = "ask"]) /\ UNCHANGED cooling
     ELSE Becomes(t, [req[t] EXCEPT !.left = Models, !.pc = "ask"]) /\ cooling' = {}
  /\ UNCHANGED <<queries, class, cache, alerts, key, writer, made, closed>>

\* The next model that has not been cooled down since.  A miss (rate limit,
\* retired, empty answer, network) cools it down; when all have missed, or were
\* skipped, the verdict is UNKNOWN.
Ask(t) ==
  /\ req[t].pc = "ask"
  /\ LET left == Without(req[t].left, cooling)
     IN  \/ left = <<>> /\ Becomes(t, Told(t, "UNKNOWN")) /\ UNCHANGED cooling
         \/ left # <<>> /\ (\E v \in Verdicts : Becomes(t, Told(t, v))) /\ UNCHANGED cooling
         \/ left # <<>> /\ Becomes(t, [req[t] EXCEPT !.left = Tail(left)])
                        /\ cooling' = cooling \cup {Head(left)}
  /\ UNCHANGED <<queries, class, cache, alerts, key, writer, made, closed>>

\* save_classification, on a connection of its own; UNKNOWN is stored as well
\* when there is a key by now.
Stores(t) == req[t].answer[req[t].dom] # "UNKNOWN" \/ key

Save(t) ==
  /\ req[t].pc = "save"
  /\ IF Stores(t) THEN writer = None /\ cache' = [cache EXCEPT ![req[t].dom] = req[t].answer[req[t].dom]]
     ELSE UNCHANGED cache
  /\ Settles(t, req[t].dom, req[t].answer[req[t].dom])
  /\ UNCHANGED <<queries, class, alerts, key, cooling, made, closed>>

\* It fails behind a session that keeps the lock, the caller's own included.
SaveFails(t) ==
  /\ req[t].pc = "save" /\ Stores(t) /\ writer # None /\ (writer = t \/ Busy(t))
  /\ AiFails(t)
  /\ UNCHANGED <<dataVars, made, closed>>

-----------------------------------------------------------------------------
(* scan_queries_for_alerts.                                                *)

\* create_or_dedup_alert: the newest active alert with the key of the hit, or
\* 0 when there is none within the cooldown.  Mutant: of any device.
DedupAnyDevice(as, h) ==
  LET same == {i \in DOMAIN as : as[i].active /\ as[i].type = h.type /\ as[i].dom = h.dom}
      i == IF same = {} THEN 0 ELSE CHOOSE n \in same : \A m \in same : m <= n
  IN  IF i # 0 /\ as[i].last <= h.at + Cooldown /\ h.at <= as[i].last + Cooldown THEN i ELSE 0

Dedup(as, h) ==
  LET same == {i \in DOMAIN as : as[i].active /\ DedupKey(as[i]) = DedupKey(h)}
      i == IF same = {} THEN 0 ELSE CHOOSE n \in same : \A m \in same : m <= n
  IN  IF i # 0 /\ as[i].last <= h.at + Cooldown /\ h.at <= as[i].last + Cooldown THEN i ELSE 0

NewAlert(h) == [dev |-> h.dev, dom |-> h.dom, type |-> h.type, last |-> h.at, active |-> TRUE]
Aggregate(as, h) ==
  IF Dedup(as, h) = 0 THEN Append(as, NewAlert(h)) ELSE [as EXCEPT ![Dedup(as, h)].last = h.at]

\* The alerts after none, one, two ... of the hits.
AlertsAfter(as, hits) ==
  LET after[n \in 0 .. Len(hits)] == IF n = 0 THEN as ELSE Aggregate(after[n - 1], hits[n])
  IN  after

\* The hits among the newest queries, newest first, with the categories as they
\* are.
HitsOf(t, limit) ==
  LET n == Len(queries)
      cat(d) == IF View(t)[d] = None THEN Static[d] ELSE View(t)[d].cat
      type(d) == AlertFor[d][cat(d)].type
      hit(i) == [dev |-> queries[i].dev, dom |-> queries[i].dom, type |-> type(queries[i].dom), at |-> i]
      scanned == [i \in 1 .. (IF n < limit THEN n ELSE limit) |-> hit(n + 1 - i)]
  IN  Without(scanned, {h \in ToSet(scanned) : h.type = "NONE"})

\* Up to the first hit that needs an alert of its own the scan only reads: it
\* takes the lock with that INSERT, or with the updates at the end.
Scan(t) ==
  /\ req[t].pc = "scan"
  /\ \E limit \in ScanLimits :
       LET hits == HitsOf(t, limit)
           read == AlertsAfter(alerts, hits)
           first == CHOOSE n \in 0 .. Len(hits) :
                      /\ Len(read[n]) = Len(alerts)
                      /\ n < Len(hits) => Len(read[n + 1]) > Len(alerts)
           bump == {<<i, read[first][i].last>> : i \in {k \in DOMAIN alerts : read[first][k] # alerts[k]}}
       IN  Becomes(t, [req[t] EXCEPT
             !.hits = hits, !.bump = bump, !.left = SubSeq(hits, first + 1, Len(hits)),
             !.pc = IF hits = <<>> THEN "final" ELSE "store"])
  /\ UNCHANGED <<dataVars, writer, made, closed>>

\* With the lock: the first alert whatever others have added since, the rest
\* on what is there now, and the commit.
Store(t) ==
  /\ req[t].pc = "store" /\ Free(t) /\ Commits(t)
  /\ LET last(i) == {b[2] : b \in {c \in req[t].bump : c[1] = i}}
         bumped == [i \in DOMAIN alerts |-> IF last(i) = {} THEN alerts[i]
                                            ELSE [alerts[i] EXCEPT !.last = CHOOSE x \in last(i) : TRUE]]
         left == req[t].left
     IN  alerts' = IF left = <<>> THEN bumped
                   ELSE AlertsAfter(Append(bumped, NewAlert(Head(left))), Tail(left))[Len(left) - 1]
  /\ Succeed(t)
  /\ UNCHANGED <<queries, aiVars, made, closed>>

StoreFails(t) ==
  /\ req[t].pc = "store" /\ Busy(t)
  /\ Fail(t)
  /\ UNCHANGED <<dataVars, made, closed>>

-----------------------------------------------------------------------------
Outside ==
  \/ \E q \in Query : LogQuery(q)
  \/ SaveKey
  \/ \E i \in DOMAIN alerts, b \in BOOLEAN : UpdateAlert(i, b)
  \/ \E m \in cooling : Recover(m)
  \/ Restart

Pass(t) ==
  \/ List(t) \/ Get(t) \/ Flush(t) \/ FlushFails(t) \/ SkipAi(t) \/ Candidates(t) \/ Regard(t)
  \/ CommitRules(t) \/ CommitFails(t) \/ ReadBack(t) \/ CommitVerdicts(t)

Single(t) == Look(t) \/ FlushOne(t) \/ Final(t) \/ WriteFails(t)

Model(t) == Cached(t) \/ Pick(t) \/ Wake(t) \/ Ask(t) \/ Save(t) \/ SaveFails(t)

Alerting(t) == Scan(t) \/ Store(t) \/ StoreFails(t)

Next ==
  \/ Outside
  \/ \E t \in Threads, k \in Kinds, d \in Domains, c \in Chosen : Start(t, k, d, c)
  \/ \E t \in Threads : Pass(t)
  \/ \E t \in Threads : Single(t)
  \/ \E t \in Threads : Model(t)
  \/ \E t \in Threads : Alerting(t)

Spec == Init /\ [][Next]_vars

-----------------------------------------------------------------------------
(* Properties.                                                             *)

\* A manual override is sacred: no request takes it back, and its category is
\* changed only by another override, or by a pass that got the row before the
\* override was committed (the code does not exclude that race).
OverridesSacred ==
  [][\A d \in Domains : class[d] # None /\ class[d].over =>
       /\ class'[d].over
       /\ class'[d].cat = class[d].cat
          \/ \E t \in Threads : /\ req[t].pend[d] # None
                                /\ \/ req[t].kind = "override"
                                   \/ req[t].seen[d] # None /\ ~req[t].seen[d].over]_vars

\* A pass over many domains never calls the model while its session holds the
\* write lock, which would keep the DNS collector out.
BulkAsksUnlocked ==
  \A t \in Threads : req[t].kind \in {"sync", "aisync", "scan"} /\ AtNetwork(t) => writer # t

\* What a sync counts as classified is in the database when it answers, also
\* when its AI pass failed on the way and was swallowed.
SyncKept ==
  \A t \in Threads : req[t].kind = "sync" /\ req[t].pc = "ok" =>
    \A d \in req[t].count : class[d] # None

\* After a scan every hit has an alert of its own device, type and domain,
\* whatever other scans, the parent's changes or failed passes did in the
\* meantime; the parent may have closed it by then.
HitsAlerted ==
  \A t \in Threads : req[t].kind = "scan" /\ req[t].pc = "ok" =>
    \A h \in ToSet(req[t].hits) : \E i \in DOMAIN alerts : DedupKey(alerts[i]) = DedupKey(h)
=============================================================================
