----------------------------- MODULE Discovery -----------------------------
(***************************************************************************)
(* run_discovery_cycle of collector/device_discovery: gather ARP           *)
(* neighbours and router leases, match each with a known device, store it, *)
(* then mark the devices that are gone offline.  Every scan is a process   *)
(* of its own (the hourly timer, POST /api/devices/scan, the command line) *)
(* and nothing keeps two of them apart.                                    *)
(*                                                                         *)
(* A statement's SELECT and the write that follows it are separate steps;  *)
(* the statements of one transaction are one step.                         *)
(***************************************************************************)
EXTENDS DeviceStore

CONSTANTS
  Scanners,        \* processes that may scan
  GenericHosts,    \* the host names _is_specific_hostname rejects
  DnsWindow,       \* 30 minutes
  Grace,           \* OFFLINE_GRACE_MINUTES
  Stale,           \* STALE_OFFLINE_MINUTES
  MaxScans,        \* bound on the scans started
  MaxHeard         \* bound on the observations of one scan

\* identity.Observation; ARP neighbours and leases without a MAC are skipped
\* where they are parsed.
Observation == [ip : Ips, mac : Macs, host : Hosts \cup {None}]

ASSUME DiscoveryAssumption ==
  /\ GenericHosts \subseteq Hosts
  /\ DnsWindow \in Nat /\ Grace \in Nat /\ Stale \in Nat
  /\ DnsWindow <= Grace /\ Grace <= Stale
  /\ MaxScans \in Nat /\ MaxHeard \in Nat
  /\ IsFiniteSet(Scanners)
  /\ None \notin Observation

VARIABLES
  scan,     \* scanner -> the locals of its run_discovery_cycle
  scans     \* number of scans started

scanVars == <<scan, scans>>
vars == <<storeVars, scanVars>>

KnownDevice == [device : DeviceIds, mac : Macs \cup {None},
                host : Hosts \cup {None}, ip : Ips \cup {None}]

ScanPCs == {"off", "start", "host", "ip", "gather", "allot", "create", "status",
            "observe", "dns", "grace", "sweep", "mark"}

Scan ==
  [pc : ScanPCs,
   active : BOOLEAN,                     \* result.active_scan_succeeded
   leases : BOOLEAN,                     \* past the ARP neighbours
   at : Time,                            \* now_iso
   known : Seq(KnownDevice),             \* known_devices
   reading : Nat,                        \* the device whose columns are read
   kept : SUBSET [mac : Macs, device : DeviceIds],
                      \* devices created, or found by MAC, in this pass:
                      \* bookkeeping for PassKeepsMac
   heard : SUBSET [ip : Ips, mac : Macs],  \* seen_mac_ip
   seen : SUBSET DeviceIds,              \* seen_ids
   obs : Observation \cup {None},
   device : DeviceIds \cup {None},       \* device_id in _ingest
   confidence : Confidence,              \* match.confidence
   wasOffline : BOOLEAN,
   present : SUBSET DeviceIds,           \* present_ids
   sweepAt : Time,                       \* now_dt
   gone : SUBSET DeviceIds]              \* newly_offline

Idle ==
  [pc |-> "off", active |-> FALSE, leases |-> FALSE, at |-> 0, known |-> <<>>,
   reading |-> 0, kept |-> {}, heard |-> {}, seen |-> {}, obs |-> None, device |-> None,
   confidence |-> "LOW", wasOffline |-> FALSE, present |-> {}, sweepAt |-> 0,
   gone |-> {}]

ScanTypeOK ==
  /\ scan \in [Scanners -> Scan]
  /\ scans \in 0 .. MaxScans
  /\ \A s \in Scanners :
       /\ scan[s].pc \in {"host", "ip"} => scan[s].reading \in DOMAIN scan[s].known
       /\ scan[s].pc \in {"allot", "create", "status", "observe"}
            => scan[s].obs # None
       /\ scan[s].pc \in {"create", "status", "observe"} => scan[s].device # None
       /\ scan[s].pc \in {"status", "observe"} => scan[s].device \in Stored
       /\ scan[s].gone \subseteq Stored
       /\ \A i \in DOMAIN scan[s].known : scan[s].known[i].device \in Stored

TypeOK == StoreTypeOK /\ ScanTypeOK

ScanInit == scan = [s \in Scanners |-> Idle] /\ scans = 0

Init == StoreInit /\ ScanInit

(***************************************************************************)
(* identity.match_device.                                                  *)
(***************************************************************************)

\* Mutant: no rule on MACs.
MatchDeviceByIp(o, known) ==
  LET hits == {i \in DOMAIN known : known[i].ip = o.ip}
  IN  [device |-> IF hits = {} THEN None ELSE known[Min(hits)].device,
       confidence |-> "MEDIUM"]

\* The first known device with this MAC, else with this specific host name,
\* else the first without a MAC last seen at this IP; None is a new device.
MatchDevice(o, known) ==
  LET byMac == {i \in DOMAIN known : o.mac # None /\ known[i].mac = o.mac}
      byHost == {i \in DOMAIN known :
                   o.host \notin GenericHosts \cup {None} /\ known[i].host = o.host}
      byIp == {i \in DOMAIN known :
                 o.mac # None /\ known[i].mac = None /\ known[i].ip = o.ip}
      hits == IF byMac # {} THEN byMac ELSE IF byHost # {} THEN byHost ELSE byIp
  IN  [device |-> IF hits = {} THEN None ELSE known[Min(hits)].device,
       confidence |-> IF byMac # {} THEN "HIGH"
                      ELSE IF hits # {} \/ o.mac # None THEN "MEDIUM"
                      ELSE "LOW"]

\* The first SELECT of storage.get_known_devices_for_matching, in row order:
\* ids are handed out in sequence and never deleted.
KnownRows ==
  {k \in [1 .. NextDeviceId - 1 ->
            {[device |-> d, mac |-> devices[d].mac, host |-> None, ip |-> None] :
               d \in Stored}] :
     \A i \in DOMAIN k : k[i].device = i}

(***************************************************************************)
(* The start of a scan: discover_hosts is over and now_iso taken, then the *)
(* devices are read.                                                       *)
(***************************************************************************)
Goto(s, pc) == scan' = [scan EXCEPT ![s].pc = pc]

StartScan(s, active) ==
  /\ scan[s].pc = "off"
  /\ scans < MaxScans
  /\ scans' = scans + 1
  /\ scan' = [scan EXCEPT ![s] =
       [Idle EXCEPT !.pc = "start", !.active = active, !.at = now]]
  /\ UNCHANGED storeVars

\* get_known_devices_for_matching: the ids and MACs of all devices, then for
\* each of them two more SELECTs, with the writes of others between them.
ReadKnown(s) ==
  /\ scan[s].pc = "start"
  /\ \E k \in KnownRows :
       scan' = [scan EXCEPT ![s].known = k, ![s].reading = 1,
                            ![s].pc = IF k = <<>> THEN "gather" ELSE "host"]
  /\ UNCHANGED <<storeVars, scans>>

ReadHostname(s) ==
  /\ scan[s].pc = "host"
  /\ \E host \in LastHostname(scan[s].known[scan[s].reading].device) :
       scan' = [scan EXCEPT ![s].known[scan[s].reading].host = host,
                            ![s].pc = "ip"]
  /\ UNCHANGED <<storeVars, scans>>

ReadIp(s) ==
  /\ scan[s].pc = "ip"
  /\ \E ip \in LastIp(scan[s].known[scan[s].reading].device) :
       scan' = [scan EXCEPT
         ![s].known[scan[s].reading].ip = ip,
         ![s].reading = @ + 1,
         ![s].pc = IF scan[s].reading = Len(scan[s].known) THEN "gather" ELSE "host"]
  /\ UNCHANGED <<storeVars, scans>>

(***************************************************************************)
(* _ingest, for each neighbour and then each lease.                        *)
(***************************************************************************)

\* Neighbours are keyed by IP; a lease that repeats an observation is skipped.
Unheard(s, o) ==
  IF scan[s].leases THEN [ip |-> o.ip, mac |-> o.mac] \notin scan[s].heard
  ELSE \A p \in scan[s].heard : p.ip # o.ip

Hear(s, o) ==
  /\ scan[s].pc = "gather"
  /\ Unheard(s, o)
  /\ Cardinality(scan[s].heard) < MaxHeard
  /\ LET match == MatchDevice(o, scan[s].known)
     IN  scan' = [scan EXCEPT
           ![s].obs = o, ![s].device = match.device,
           ![s].confidence = match.confidence,
           ![s].kept = IF match.confidence = "HIGH"
                       THEN @ \cup {[mac |-> o.mac, device |-> match.device]}
                       ELSE @,
           ![s].pc = IF match.device = None THEN "allot" ELSE "status"]
  /\ UNCHANGED <<storeVars, scans>>

\* create_device: _next_device_id, then the INSERT.
AllotId(s) ==
  /\ scan[s].pc = "allot"
  /\ NextDeviceId \in DeviceIds
  /\ scan' = [scan EXCEPT ![s].pc = "create", ![s].device = NextDeviceId]
  /\ UNCHANGED <<storeVars, scans>>

\* Mutant: known_devices does not grow.
CreateDeviceForgotten(s) ==
  /\ scan[s].pc = "create"
  /\ InsertDevice(scan[s].device, scan[s].obs.mac, scan[s].confidence, scan[s].at)
  /\ scan' = [scan EXCEPT
       ![s].pc = "status",
       ![s].kept = @ \cup {[mac |-> scan[s].obs.mac, device |-> scan[s].device]}]
  /\ UNCHANGED scans

CreateDevice(s) ==
  /\ scan[s].pc = "create"
  /\ InsertDevice(scan[s].device, scan[s].obs.mac, scan[s].confidence, scan[s].at)
  /\ scan' = [scan EXCEPT
       ![s].pc = "status",
       ![s].kept = @ \cup {[mac |-> scan[s].obs.mac, device |-> scan[s].device]},
       ![s].known = Append(@, [device |-> scan[s].device, mac |-> scan[s].obs.mac,
                               host |-> scan[s].obs.host, ip |-> None])]
  /\ UNCHANGED scans

\* record_observation: the SELECT, then the transaction.
ReadStatus(s) ==
  /\ scan[s].pc = "status"
  /\ scan' = [scan EXCEPT
       ![s].pc = "observe",
       ![s].wasOffline = devices[scan[s].device].status = "offline"]
  /\ UNCHANGED <<storeVars, scans>>

Observe(s) ==
  /\ scan[s].pc = "observe"
  /\ RecordObservation(scan[s].device, scan[s].obs.ip, scan[s].obs.mac,
                       scan[s].obs.host, scan[s].at, scan[s].confidence,
                       scan[s].wasOffline)
  /\ scan' = [scan EXCEPT
       ![s].pc = "gather",
       ![s].seen = @ \cup {scan[s].device},
       ![s].heard = @ \cup {[ip |-> scan[s].obs.ip, mac |-> scan[s].obs.mac]},
       ![s].obs = None, ![s].device = None, ![s].confidence = "LOW",
       ![s].wasOffline = FALSE]
  /\ UNCHANGED scans

\* get_router_clients; a router that does not answer has no leases.
ReadLeases(s) ==
  /\ scan[s].pc = "gather"
  /\ ~scan[s].leases
  /\ scan' = [scan EXCEPT ![s].leases = TRUE]
  /\ UNCHANGED <<storeVars, scans>>

EndOfLeases(s) ==
  /\ scan[s].pc = "gather"
  /\ scan[s].leases
  /\ scan' = [scan EXCEPT ![s].pc = IF scan[s].active THEN "dns" ELSE "sweep",
                          ![s].sweepAt = now]
  /\ UNCHANGED <<storeVars, scans>>

(***************************************************************************)
(* The sweep.  `chatting' is what get_devices_with_recent_dns returns for  *)
(* the queries since sweepAt - DnsWindow.                                  *)
(***************************************************************************)
ReadDns(s, chatting) ==
  /\ scan[s].pc = "dns"
  /\ scan' = [scan EXCEPT ![s].pc = "grace",
                          ![s].present = scan[s].seen \cup chatting]
  /\ UNCHANGED <<storeVars, scans>>

\* get_devices_seen_since
ReadRecentlySeen(s) ==
  /\ scan[s].pc = "grace"
  /\ scan' = [scan EXCEPT
       ![s].pc = "sweep",
       ![s].present = @ \cup {d \in Stored :
                                devices[d].last_seen + Grace >= scan[s].sweepAt}]
  /\ UNCHANGED <<storeVars, scans>>

\* Mutant: the SELECT does not ask for stored devices that are online.
SelectGoneAll(s) ==
  /\ scan[s].pc = "sweep"
  /\ scan' = [scan EXCEPT ![s].pc = "mark",
                          ![s].gone = DeviceIds \ scan[s].present]
  /\ UNCHANGED <<storeVars, scans>>

\* The SELECT of mark_offline_except, or of mark_stale_offline.
SelectGone(s) ==
  /\ scan[s].pc = "sweep"
  /\ scan' = [scan EXCEPT
       ![s].pc = "mark",
       ![s].gone = IF scan[s].active THEN Online \ scan[s].present
                   ELSE {d \in Online :
                           devices[d].last_seen + Stale < scan[s].sweepAt}]
  /\ UNCHANGED <<storeVars, scans>>

MarkGone(s) ==
  /\ scan[s].pc = "mark"
  /\ MarkOffline(scan[s].gone)
  /\ scan' = [scan EXCEPT ![s] = Idle]
  /\ UNCHANGED scans

(***************************************************************************)
(* A scan that ends early: another process took its new id, the database   *)
(* stayed locked, the API killed it after 120 s, the host went down.  What *)
(* it committed stays.                                                     *)
(***************************************************************************)
IdTaken(s) ==
  /\ scan[s].pc = "create"
  /\ devices[scan[s].device] # None
  /\ scan' = [scan EXCEPT ![s] = Idle]
  /\ UNCHANGED <<storeVars, scans>>

ScanDies(s) ==
  /\ scan[s].pc # "off"
  /\ scan' = [scan EXCEPT ![s] = Idle]
  /\ UNCHANGED <<storeVars, scans>>

Gather(s) ==
  \/ \E active \in BOOLEAN : StartScan(s, active)
  \/ ReadKnown(s) \/ ReadHostname(s) \/ ReadIp(s)
  \/ \E o \in Observation : Hear(s, o)
  \/ AllotId(s) \/ CreateDevice(s) \/ ReadStatus(s) \/ Observe(s)
  \/ ReadLeases(s) \/ EndOfLeases(s)

Sweep(s) == ReadRecentlySeen(s) \/ SelectGone(s) \/ MarkGone(s)

ScanStep(s) == Gather(s) \/ Sweep(s) \/ IdTaken(s) \/ ScanDies(s)

\* Without the ingester in the model, any devices may have asked.
Next ==
  \/ \E s \in Scanners :
       \/ ScanStep(s)
       \/ \E chatting \in SUBSET Stored : ReadDns(s, chatting)
  \/ Tick /\ UNCHANGED scanVars

Spec == Init /\ [][Next]_vars

(***************************************************************************)
(* Properties.                                                             *)
(***************************************************************************)

\* A device without an address row (create_device committed, and
\* record_observation did not) is what one scan that ended early leaves.
OrphansBounded ==
  LET running == {s \in Scanners : scan[s].pc # "off"}
      unfinished == {scan[s].device : s \in
                      {r \in running : scan[r].pc \in {"status", "observe"}}}
      orphans == {d \in Stored : \A a \in addresses : a.device # d}
  IN  Cardinality(orphans \ unfinished) <= scans - Cardinality(running)

\* In one pass a MAC keeps its device: an observation that repeats a MAC the
\* pass created a device for, or found one by, goes to that device, whatever
\* host names and addresses say and other scans store meanwhile
\* (known_devices grows with every device a pass creates, _ingest).  Only a
\* device found by its host name or address alone gets a rival.
PassKeepsMac ==
  \A s \in Scanners : \A a, b \in scan[s].kept : a.mac = b.mac => a.device = b.device

=============================================================================
