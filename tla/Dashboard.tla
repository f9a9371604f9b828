------------------------------ MODULE Dashboard ------------------------------
(***************************************************************************)
(* The backend's requests on classifications and alerts, and beside them   *)
(* the requests that only read: each is answered from the tables as they   *)
(* are and keeps nothing, so that one is made on tables of a few rows      *)
(* before anything else has happened.                                      *)
(***************************************************************************)
EXTENDS Safety, Reads

VARIABLE view   \* what the dashboard asked last

dashboardVars == <<vars, view>>

Entry == [at: 0 .. 2, dev: {"dev_1", "none"}, dom: {"google.com", "bing.com", "chat.example"},
          vis: {"FULL", "PARTIAL"}, type: {"A"}]
Numbered(rows) == [i \in DOMAIN rows |-> rows[i] @@ [id |-> i]]

\* Logs in any order of time.
ShortLogs == {Numbered(rows) : rows \in TupleOf(Entry, 2)}

\* Logs in the order of time, with enough visits for their windows to overlap.
Visited(at, dom) == [at |-> at, dev |-> "dev_1", dom |-> dom, vis |-> "FULL", type |-> "A"]
VisitLogs ==
  {Numbered([i \in 1 .. 4 |-> Visited(times[i], doms[i])]) :
     times \in {ts \in TupleOf(0 .. 2, 4) : \A i \in 1 .. 3 : ts[i] <= ts[i + 1]},
     doms \in TupleOf({"google.com", "bing.com", "chat.example"}, 4)}

Status(id, status) == [id |-> id, at |-> id, status |-> status]
Devices ==
  {[dev |-> "dev_1", status |-> "online", last |-> 0, events |-> <<Status(1, "online")>>,
    addresses |-> <<[id |-> 1, at |-> 0, ip |-> "ip1"], [id |-> 2, at |-> 0, ip |-> "ip2"]>>],
   [dev |-> "dev_2", status |-> "online", last |-> 60, events |-> <<Status(2, "offline"), Status(3, "online")>>,
    addresses |-> <<[id |-> 3, at |-> 1, ip |-> "ip1"], [id |-> 4, at |-> 2, ip |-> "fe80::1"]>>],
   [dev |-> "dev_3", status |-> "offline", last |-> 130, events |-> <<>>, addresses |-> <<>>]}

Nowhere == [page |-> "none"]

AskName(d) == view' = [page |-> "domain", name |-> d]
AskLog(log) == view' = [page |-> "activity", log |-> log]
AskSearches(log) == view' = [page |-> "searches", log |-> log]
AskDevices(gateway, now) == view' = [page |-> "devices", gateway |-> gateway, now |-> now]

Reading ==
  /\ queries = <<>> /\ made = 0 /\ view = Nowhere
  /\ \/ \E d \in Names : AskName(d)
     \/ \E log \in ShortLogs : AskLog(log)
     \/ \E log \in VisitLogs : AskSearches(log)
     \/ \E gateway \in {"none", "ip1", "ip2"}, now \in {60, 120, 121, 200} : AskDevices(gateway, now)
  /\ UNCHANGED vars

DashboardInit == Init /\ view = Nowhere
DashboardNext == (view = Nowhere /\ Next /\ UNCHANGED view) \/ Reading
DashboardSpec == DashboardInit /\ [][DashboardNext]_dashboardVars

\* Every rule of classifiers/rules.py is reached by the domain it names: the
\* order of the blocks shadows none but the known exceptions.
RulesReachable == view.page = "domain" => RuleReached(view.name)

\* The lists of the four files that judge a name do not contradict each other.
ListsAgree == view.page = "domain" => ListsConsistent(view.name)

\* The pages, charts and exports of one log tell the same, the single pass
\* over search visits finds what followed them, and the two device lists
\* share the devices out.
ReadsAgree ==
  /\ view.page = "activity" => PagesAddUp(view.log)
  /\ view.page = "searches" => OpenedIsRight(view.log)
  /\ view.page = "devices" => DevicesSplit(Devices, view.gateway, view.now)
=============================================================================
