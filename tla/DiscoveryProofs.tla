--------------------------- MODULE DiscoveryProofs ---------------------------
(***************************************************************************)
(* Proofs about Discovery, for any number of scanners that overlap as they *)
(* like, and any devices, addresses and host names: what a scan holds, how *)
(* far the events may slip, to whom a pass gives a MAC, and what a scan    *)
(* that ended early leaves.                                                *)
(***************************************************************************)
EXTENDS Discovery, DeviceStoreProofs

-----------------------------------------------------------------------------
(* What a step does to the scanner that takes it.                          *)

Locals == scan \in [Scanners -> Scan]
Becomes(s, r) == scan' = [scan EXCEPT ![s] = r]

LEMMA StartMove ==
  ASSUME Locals, NEW s \in Scanners, NEW active \in BOOLEAN, StartScan(s, active)
  PROVE  Becomes(s, [Idle EXCEPT !.pc = "start", !.active = active, !.at = now])
  BY DEF Locals, Becomes, Scan, StartScan

LEMMA AllotMove ==
  ASSUME Locals, NEW s \in Scanners, AllotId(s)
  PROVE  Becomes(s, [scan[s] EXCEPT !.pc = "create", !.device = NextDeviceId])
  BY DEF Locals, Becomes, Scan, AllotId

LEMMA CreateMove ==
  ASSUME Locals, NEW s \in Scanners, CreateDevice(s)
  PROVE  Becomes(s, [scan[s] EXCEPT
           !.pc = "status",
           !.kept = scan[s].kept \cup {[mac |-> scan[s].obs.mac, device |-> scan[s].device]},
           !.known = Append(scan[s].known,
                            [device |-> scan[s].device, mac |-> scan[s].obs.mac,
                             host |-> scan[s].obs.host, ip |-> None])])
  BY DEF Locals, Becomes, Scan, CreateDevice

LEMMA StatusMove ==
  ASSUME Locals, NEW s \in Scanners, ReadStatus(s)
  PROVE  Becomes(s, [scan[s] EXCEPT
           !.pc = "observe",
           !.wasOffline = (devices[scan[s].device].status = "offline")])
  BY DEF Locals, Becomes, Scan, ReadStatus

LEMMA ObserveMove ==
  ASSUME Locals, NEW s \in Scanners, Observe(s)
  PROVE  Becomes(s, [scan[s] EXCEPT
           !.pc = "gather",
           !.seen = scan[s].seen \cup {scan[s].device},
           !.heard = scan[s].heard \cup {[ip |-> scan[s].obs.ip, mac |-> scan[s].obs.mac]},
           !.obs = None, !.device = None, !.confidence = "LOW", !.wasOffline = FALSE])
  BY DEF Locals, Becomes, Scan, Observe

LEMMA LeasesMove ==
  ASSUME Locals, NEW s \in Scanners, ReadLeases(s)
  PROVE  Becomes(s, [scan[s] EXCEPT !.leases = TRUE])
  BY DEF Locals, Becomes, Scan, ReadLeases

LEMMA EndMove ==
  ASSUME Locals, NEW s \in Scanners, EndOfLeases(s)
  PROVE  Becomes(s, [scan[s] EXCEPT
           !.pc = IF scan[s].active THEN "dns" ELSE "sweep", !.sweepAt = now])
  BY DEF Locals, Becomes, Scan, EndOfLeases

LEMMA DnsMove ==
  ASSUME Locals, NEW s \in Scanners, NEW chatting, ReadDns(s, chatting)
  PROVE  Becomes(s, [scan[s] EXCEPT
           !.pc = "grace", !.present = scan[s].seen \cup chatting])
  BY DEF Locals, Becomes, Scan, ReadDns

LEMMA SeenMove ==
  ASSUME Locals, NEW s \in Scanners, ReadRecentlySeen(s)
  PROVE  Becomes(s, [scan[s] EXCEPT
           !.pc = "sweep",
           !.present = scan[s].present \cup
             {d \in Stored : devices[d].last_seen + Grace >= scan[s].sweepAt}])
  BY DEF Locals, Becomes, Scan, ReadRecentlySeen

LEMMA GoneMove ==
  ASSUME Locals, NEW s \in Scanners, SelectGone(s)
  PROVE  Becomes(s, [scan[s] EXCEPT
           !.pc = "mark",
           !.gone = IF scan[s].active THEN Online \ scan[s].present
                    ELSE {d \in Online : devices[d].last_seen + Stale < scan[s].sweepAt}])
  BY DEF Locals, Becomes, Scan, SelectGone

LEMMA EndsMove ==
  ASSUME Locals, NEW s \in Scanners, MarkGone(s) \/ IdTaken(s) \/ ScanDies(s)
  PROVE  Becomes(s, Idle)
  BY DEF Locals, Becomes, Scan, MarkGone, IdTaken, ScanDies

LEMMA KnownMove ==
  ASSUME Locals, NEW s \in Scanners, ReadKnown(s)
  PROVE  \E k \in KnownRows :
           Becomes(s, [scan[s] EXCEPT !.known = k, !.reading = 1,
                                      !.pc = IF k = <<>> THEN "gather" ELSE "host"])
  BY DEF Locals, Becomes, Scan, ReadKnown

LEMMA HostnameMove ==
  ASSUME Locals, NEW s \in Scanners, ReadHostname(s)
  PROVE  \E host \in LastHostname(scan[s].known[scan[s].reading].device) :
           Becomes(s, [scan[s] EXCEPT
             !.known = [scan[s].known EXCEPT ![scan[s].reading].host = host], !.pc = "ip"])
  BY DEF Locals, Becomes, Scan, ReadHostname

LEMMA IpMove ==
  ASSUME Locals, NEW s \in Scanners, ReadIp(s)
  PROVE  \E ip \in LastIp(scan[s].known[scan[s].reading].device) :
           Becomes(s, [scan[s] EXCEPT
             !.known = [scan[s].known EXCEPT ![scan[s].reading].ip = ip],
             !.reading = scan[s].reading + 1,
             !.pc = IF scan[s].reading = Len(scan[s].known) THEN "gather" ELSE "host"])
  BY DEF Locals, Becomes, Scan, ReadIp

LEMMA HearMove ==
  ASSUME Locals, NEW s \in Scanners, NEW o, Hear(s, o)
  PROVE  LET match == MatchDevice(o, scan[s].known)
         IN  Becomes(s, [scan[s] EXCEPT
               !.obs = o, !.device = match.device, !.confidence = match.confidence,
               !.kept = IF match.confidence = "HIGH"
                        THEN scan[s].kept \cup {[mac |-> o.mac, device |-> match.device]}
                        ELSE scan[s].kept,
               !.pc = IF match.device = None THEN "allot" ELSE "status"])
  BY DEF Locals, Becomes, Scan, Hear

-----------------------------------------------------------------------------
(* The matching.                                                           *)

\* What the first SELECT of get_known_devices_for_matching returns: every
\* stored device, at its id.
LEMMA KnownRowsFacts ==
  ASSUME StoreTypeOK, NEW k \in KnownRows
  PROVE  /\ k \in Seq(KnownDevice)
         /\ \A i \in DOMAIN k : k[i].device = i /\ i \in Stored
<1> DEFINE Row(d) == [device |-> d, mac |-> devices[d].mac, host |-> None, ip |-> None]
           last == NextDeviceId - 1
<1>1. last \in Nat
  BY NextDeviceIdAbove
<1>2. /\ k \in [1 .. last -> {Row(d) : d \in Stored}]
      /\ \A i \in DOMAIN k : k[i].device = i
  BY DEF KnownRows
<1>3. \A d \in Stored : Row(d) \in KnownDevice
  BY DEF KnownDevice, Stored, StoreTypeOK, Device
<1>4. \A i \in 1 .. last : \E d \in Stored : k[i] = Row(d)
  BY <1>2
<1>5. ASSUME NEW i \in 1 .. last PROVE k[i] \in KnownDevice /\ k[i].device = i /\ i \in Stored
  <2>1. PICK d \in Stored : k[i] = Row(d)
    BY <1>4
  <2>2. k[i].device = i /\ k[i].device = d
    BY <1>2, <2>1
  <2> QED
    BY <1>3, <2>1, <2>2
<1> HIDE DEF last, Row
<1> QED
  BY <1>1, <1>2, <1>5

\* Reading a column of a known device leaves its id.
LEMMA ColumnRead ==
  ASSUME NEW k \in Seq(KnownDevice), NEW i \in DOMAIN k, NEW v \in KnownDevice,
         v.device = k[i].device
  PROVE  LET k2 == [k EXCEPT ![i] = v]
         IN  /\ k2 \in Seq(KnownDevice) /\ DOMAIN k2 = DOMAIN k
             /\ \A j \in DOMAIN k : k2[j].device = k[j].device
  OBVIOUS

LEMMA ColumnTypes ==
  ASSUME StoreTypeOK, NEW d
  PROVE  LastHostname(d) \subseteq Hosts \cup {None} /\ LastIp(d) \subseteq Ips \cup {None}
  BY DEF LastHostname, LastIp, Latest, StoreTypeOK, Address

\* The first known device with this MAC is this one.
FirstWith(known, mac, device) ==
  \E i \in DOMAIN known :
    /\ known[i].mac = mac /\ known[i].device = device
    /\ \A j \in DOMAIN known : j < i => known[j].mac # mac

\* Whom match_device names: a known device, the first of that MAC if there is
\* one, and only then with high confidence.
LEMMA MatchFacts ==
  ASSUME NEW known \in Seq(KnownDevice), NEW o \in Observation
  PROVE  /\ MatchDevice(o, known).confidence \in Confidence
         /\ \/ MatchDevice(o, known).device = None
            \/ \E i \in DOMAIN known : MatchDevice(o, known).device = known[i].device
         /\ MatchDevice(o, known).confidence = "HIGH" =>
              FirstWith(known, o.mac, MatchDevice(o, known).device)
         /\ MatchDevice(o, known).confidence # "HIGH" =>
              \A i \in DOMAIN known : known[i].mac # o.mac
<1> DEFINE byMac == {i \in DOMAIN known : o.mac # None /\ known[i].mac = o.mac}
           byHost == {i \in DOMAIN known :
                        o.host \notin GenericHosts \cup {None} /\ known[i].host = o.host}
           byIp == {i \in DOMAIN known :
                      o.mac # None /\ known[i].mac = None /\ known[i].ip = o.ip}
           hits == IF byMac # {} THEN byMac ELSE IF byHost # {} THEN byHost ELSE byIp
           match == [device |-> IF hits = {} THEN None ELSE known[Min(hits)].device,
                     confidence |-> IF byMac # {} THEN "HIGH"
                                    ELSE IF hits # {} \/ o.mac # None THEN "MEDIUM"
                                    ELSE "LOW"]
<1>1. MatchDevice(o, known) = match
  BY DEF MatchDevice
<1>2. o.mac # None
  BY StoreAssumption DEF Observation
<1>3. match.confidence \in Confidence /\ match.device = IF hits = {} THEN None ELSE known[Min(hits)].device
  BY DEF Confidence
<1>4. byMac # {} <=> match.confidence = "HIGH"
  OBVIOUS
<1>5. byMac \in SUBSET (0 .. Len(known)) /\ hits \in SUBSET (0 .. Len(known)) /\ Len(known) \in Nat
  OBVIOUS
<1>6. hits \subseteq DOMAIN known /\ byMac \subseteq DOMAIN known
  OBVIOUS
<1>7. byMac = {} => \A i \in DOMAIN known : known[i].mac # o.mac
  BY <1>2
<1>8. ASSUME byMac # {} PROVE hits = byMac /\ FirstWith(known, o.mac, match.device)
  <2>1. hits = byMac
    BY <1>8
  <2> DEFINE i == Min(byMac)
  <2>2. i \in byMac /\ \A j \in byMac : i <= j
    <3> HIDE DEF byMac
    <3> QED
      BY <1>5, <1>8, MinIsMember
  <2>3. match.device = known[i].device
    BY <1>3, <1>8, <2>1
  <2> HIDE DEF i, match
  <2>4. \A j \in DOMAIN known : j < i => known[j].mac # o.mac
    <3> SUFFICES ASSUME NEW j \in DOMAIN known, j < i, known[j].mac = o.mac PROVE FALSE
      OBVIOUS
    <3>1. j \in byMac
      BY <1>2
    <3>2. i \in Nat /\ j \in Nat
      BY <1>5, <2>2
    <3> QED
      BY <2>2, <3>1, <3>2
  <2>5. known[i].mac = o.mac /\ i \in DOMAIN known
    BY <2>2
  <2> QED
    BY <2>1, <2>3, <2>4, <2>5 DEF FirstWith
<1>9. hits # {} => \E i \in DOMAIN known : match.device = known[i].device
  <2> SUFFICES ASSUME hits # {} PROVE \E i \in DOMAIN known : match.device = known[i].device
    OBVIOUS
  <2>1. Min(hits) \in hits
    <3> HIDE DEF hits
    <3> QED
      BY <1>5, MinIsMember
  <2> QED
    BY <1>3, <1>6, <2>1
<1> HIDE DEF hits, byMac, match
<1> QED
  BY <1>1, <1>3, <1>4, <1>7, <1>8, <1>9

-----------------------------------------------------------------------------
(* Types.                                                                  *)

(***************************************************************************)
(* What a scan holds, with the devices stored so far.                      *)
(***************************************************************************)
LocalsOK(r, stored) ==
  /\ r \in Scan
  /\ r.pc \in {"allot", "create", "status", "observe"} => r.obs # None
  /\ r.pc \in {"create", "status", "observe"} => r.device # None
  /\ r.pc \in {"status", "observe"} => r.device \in stored
  /\ r.gone \subseteq stored /\ (r.pc # "mark" => r.gone = {})
  /\ \A i \in DOMAIN r.known : r.known[i].device \in stored
  /\ r.pc \in {"host", "ip"} => r.reading \in DOMAIN r.known

ScanInv ==
  /\ StoreTypeOK /\ Locals /\ scans \in 0 .. MaxScans
  /\ \A s \in Scanners : LocalsOK(scan[s], Stored)

LEMMA IdleOK ==
  ASSUME NEW stored
  PROVE  LocalsOK(Idle, stored)
<1>1. <<>> \in Seq(KnownDevice) /\ DOMAIN <<>> = {}
  OBVIOUS
<1>2. Idle \in Scan
  BY <1>1, StoreAssumption DEF Idle, Scan, ScanPCs, Confidence, Time
<1> QED
  BY <1>1, <1>2 DEF LocalsOK, Idle

LEMMA Lands ==
  ASSUME ScanInv, NEW s \in Scanners, NEW r, Becomes(s, r), LocalsOK(r, Stored'),
         Stored \subseteq Stored', StoreTypeOK', scans' \in 0 .. MaxScans
  PROVE  ScanInv'
<1>1. \A t \in Scanners : LocalsOK(scan[t], Stored')
  BY DEF ScanInv, LocalsOK
<1>2. /\ scan' = [scan EXCEPT ![s] = r] /\ r \in Scan /\ scan \in [Scanners -> Scan]
  BY DEF Becomes, LocalsOK, ScanInv, Locals
<1>3. Locals' /\ \A t \in Scanners : scan'[t] = IF t = s THEN r ELSE scan[t]
  BY <1>2 DEF Locals
<1>4. \A t \in Scanners : LocalsOK(scan'[t], Stored')
  BY <1>1, <1>3
<1>5. \A t \in Scanners : LocalsOK(scan[t], Stored)'
  BY <1>4 DEF LocalsOK
<1> QED
  BY <1>3, <1>5 DEF ScanInv

\* The record of a scan, and what the tables hand to it.
LEMMA Holds ==
  ASSUME ScanInv, NEW s \in Scanners
  PROVE  /\ Locals /\ scan[s] \in Scan /\ LocalsOK(scan[s], Stored) /\ StoreTypeOK
         /\ scan[s].pc \in {"allot", "create", "status", "observe"} =>
              /\ scan[s].obs \in Observation
              /\ scan[s].obs.ip \in Ips /\ scan[s].obs.mac \in Macs
              /\ scan[s].obs.mac # None /\ scan[s].obs.host \in Hosts \cup {None}
         /\ scan[s].pc \in {"create", "status", "observe"} => scan[s].device \in DeviceIds
         /\ scan[s].pc \in {"status", "observe"} =>
              scan[s].device \in Stored /\ devices[scan[s].device] \in Device
<1>1. Locals /\ scan[s] \in Scan /\ LocalsOK(scan[s], Stored) /\ StoreTypeOK
  BY DEF ScanInv, Locals
<1>2. scan[s].obs \in Observation \cup {None} /\ scan[s].device \in DeviceIds \cup {None}
  BY <1>1 DEF Scan
<1>3. scan[s].pc \in {"allot", "create", "status", "observe"} => scan[s].obs \in Observation
  BY <1>1, <1>2 DEF LocalsOK
<1>4. scan[s].pc \in {"create", "status", "observe"} => scan[s].device \in DeviceIds
  BY <1>1, <1>2 DEF LocalsOK
<1>5. scan[s].pc \in {"status", "observe"} =>
        scan[s].device \in Stored /\ devices[scan[s].device] \in Device
  BY <1>1 DEF LocalsOK, Stored, StoreTypeOK
<1> QED
  BY <1>1, <1>3, <1>4, <1>5, StoreAssumption DEF Observation

LEMMA ScanStepKeeps ==
  ASSUME ScanInv, NEW s \in Scanners,
         ScanStep(s) \/ \E chatting \in SUBSET DeviceIds : ReadDns(s, chatting)
  PROVE  ScanInv'
<1>0. /\ Locals /\ scan[s] \in Scan /\ LocalsOK(scan[s], Stored) /\ StoreTypeOK
      /\ scans \in 0 .. MaxScans /\ now \in Time /\ Stored \subseteq DeviceIds
      /\ None \notin Observation \cup DeviceIds
  BY Holds, StoreAssumption, DiscoveryAssumption DEF ScanInv, StoreTypeOK, Stored
<1>a. ASSUME UNCHANGED storeVars
      PROVE  Stored' = Stored /\ StoreTypeOK'
  BY <1>0, <1>a DEF storeVars, Stored, StoreTypeOK
<1>1. ASSUME NEW active \in BOOLEAN, StartScan(s, active) PROVE ScanInv'
  <2> DEFINE r == [Idle EXCEPT !.pc = "start", !.active = active, !.at = now]
  <2>1. Becomes(s, r)
    BY <1>0, <1>1, StartMove
  <2>2. LocalsOK(r, Stored)
    <3>1. LocalsOK(Idle, Stored)
      BY IdleOK
    <3>2. Idle.pc = "off"
      BY DEF Idle
    <3> QED
      BY <1>0, <3>1, <3>2, ZenonT(60) DEF LocalsOK, Scan, ScanPCs
  <2>3. UNCHANGED storeVars /\ scans' \in 0 .. MaxScans
    BY <1>0, <1>1, DiscoveryAssumption DEF StartScan
  <2> HIDE DEF r
  <2> QED
    BY <1>a, <2>1, <2>2, <2>3, Lands
<1>2. CASE ReadKnown(s)
  <2>1. PICK k \in KnownRows :
          Becomes(s, [scan[s] EXCEPT !.known = k, !.reading = 1,
                                     !.pc = IF k = <<>> THEN "gather" ELSE "host"])
    BY <1>0, <1>2, KnownMove
  <2> DEFINE p == IF k = <<>> THEN "gather" ELSE "host"
             r == [scan[s] EXCEPT !.known = k, !.reading = 1, !.pc = p]
  <2>2. k \in Seq(KnownDevice) /\ \A i \in DOMAIN k : k[i].device \in Stored
    BY <1>0, KnownRowsFacts
  <2>3. p = "host" => 1 \in DOMAIN k
    BY <2>2
  <2>4. p \in {"gather", "host"} /\ scan[s].pc = "start"
    BY <1>2 DEF ReadKnown
  <2> HIDE DEF p
  <2>5. LocalsOK(r, Stored)
    BY <1>0, <2>2, <2>3, <2>4 DEF LocalsOK, Scan, ScanPCs
  <2>6. UNCHANGED storeVars /\ scans' = scans
    BY <1>2 DEF ReadKnown
  <2>7. Becomes(s, r)
    BY <2>1 DEF p
  <2> HIDE DEF r
  <2> QED
    BY <1>0, <1>a, <2>5, <2>6, <2>7, Lands
<1>r. CASE ReadHostname(s) \/ ReadIp(s)
  <2> DEFINE k == scan[s].known
             i == scan[s].reading
  <2>1. k \in Seq(KnownDevice) /\ i \in DOMAIN k /\ \A j \in DOMAIN k : k[j].device \in Stored
    BY <1>0, <1>r DEF LocalsOK, Scan, ReadHostname, ReadIp
  <2>2. UNCHANGED storeVars /\ scans' = scans /\ scan[s].pc \in {"host", "ip"}
    BY <1>r DEF ReadHostname, ReadIp
  <2>3. CASE ReadHostname(s)
    <3>1. PICK host \in LastHostname(k[i].device) :
            Becomes(s, [scan[s] EXCEPT !.known = [k EXCEPT ![i].host = host], !.pc = "ip"])
      BY <1>0, <2>3, HostnameMove
    <3> DEFINE k2 == [k EXCEPT ![i].host = host]
               r == [scan[s] EXCEPT !.known = k2, !.pc = "ip"]
    <3> HIDE DEF k, i
    <3>2. host \in Hosts \cup {None} /\ None \in Ips \cup {None}
      BY <1>0, ColumnTypes
    <3> DEFINE v == [k[i] EXCEPT !.host = host]
    <3>v. v \in KnownDevice /\ v.device = k[i].device
      <4>1. k[i] \in KnownDevice
        BY <2>1
      <4> QED
        BY <3>2, <4>1 DEF KnownDevice
    <3>e. k2 = [k EXCEPT ![i] = v]
      OBVIOUS
    <3> HIDE DEF k2, v
    <3>3. /\ k2 \in Seq(KnownDevice) /\ DOMAIN k2 = DOMAIN k
          /\ \A j \in DOMAIN k : k2[j].device = k[j].device
      BY <2>1, <3>e, <3>v, ColumnRead
    <3> HIDE DEF k2
    <3>4. LocalsOK(r, Stored)
      BY <1>0, <2>1, <2>2, <3>3 DEF LocalsOK, Scan, ScanPCs, i
    <3>5. Becomes(s, r)
      BY <3>1 DEF k2
    <3> HIDE DEF r
    <3> QED
      BY <1>0, <1>a, <2>2, <3>4, <3>5, Lands
  <2>4. CASE ReadIp(s)
    <3>1. PICK ip \in LastIp(k[i].device) :
            Becomes(s, [scan[s] EXCEPT
              !.known = [k EXCEPT ![i].ip = ip], !.reading = i + 1,
              !.pc = IF i = Len(k) THEN "gather" ELSE "host"])
      BY <1>0, <2>4, IpMove
    <3> DEFINE k2 == [k EXCEPT ![i].ip = ip]
               p == IF i = Len(k) THEN "gather" ELSE "host"
               n == i + 1
               r == [scan[s] EXCEPT !.known = k2, !.reading = n, !.pc = p]
    <3> HIDE DEF k, i
    <3>2. ip \in Ips \cup {None} /\ None \in Hosts \cup {None}
      BY <1>0, ColumnTypes
    <3> DEFINE v == [k[i] EXCEPT !.ip = ip]
    <3>v. v \in KnownDevice /\ v.device = k[i].device
      <4>1. k[i] \in KnownDevice
        BY <2>1
      <4> QED
        BY <3>2, <4>1 DEF KnownDevice
    <3>e. k2 = [k EXCEPT ![i] = v]
      OBVIOUS
    <3> HIDE DEF k2, v
    <3>3. /\ k2 \in Seq(KnownDevice) /\ DOMAIN k2 = DOMAIN k
          /\ \A j \in DOMAIN k : k2[j].device = k[j].device
      BY <2>1, <3>e, <3>v, ColumnRead
    <3>4. n \in Nat /\ p \in {"gather", "host"} /\ (p = "host" => n \in DOMAIN k)
      BY <2>1
    <3> HIDE DEF k2, p, n
    <3>5. LocalsOK(r, Stored)
      BY <1>0, <2>1, <2>2, <3>3, <3>4 DEF LocalsOK, Scan, ScanPCs
    <3>6. Becomes(s, r)
      BY <3>1 DEF k2, p, n
    <3> HIDE DEF r
    <3> QED
      BY <1>0, <1>a, <2>2, <3>5, <3>6, Lands
  <2> QED
    BY <1>r, <2>3, <2>4
<1>3. ASSUME NEW o \in Observation, Hear(s, o) PROVE ScanInv'
  <2> DEFINE match == MatchDevice(o, scan[s].known)
             d == match.device
             c == match.confidence
             kept == IF c = "HIGH" THEN scan[s].kept \cup {[mac |-> o.mac, device |-> d]}
                     ELSE scan[s].kept
             r == [scan[s] EXCEPT !.obs = o, !.device = d, !.confidence = c, !.kept = kept,
                                  !.pc = IF d = None THEN "allot" ELSE "status"]
  <2>1. Becomes(s, r)
    BY <1>0, <1>3, HearMove
  <2>2. scan[s].known \in Seq(KnownDevice)
    BY <1>0 DEF Scan
  <2>3. /\ c \in Confidence
        /\ d = None \/ \E i \in DOMAIN scan[s].known : d = scan[s].known[i].device
        /\ c = "HIGH" => \E i \in DOMAIN scan[s].known : d = scan[s].known[i].device
    <3> HIDE DEF match
    <3> QED
      BY <2>2, MatchFacts DEF match, FirstWith
  <2> HIDE DEF match, d, c
  <2>4. (d = None \/ d \in Stored) /\ (c = "HIGH" => d \in Stored)
    BY <1>0, <2>3 DEF LocalsOK
  <2>k. kept \in SUBSET [mac : Macs, device : DeviceIds]
    BY <1>0, <2>4 DEF Scan, Observation
  <2> HIDE DEF kept
  <2>5. LocalsOK(r, Stored)
    BY <1>0, <1>3, <2>3, <2>4, <2>k DEF LocalsOK, Scan, ScanPCs, Hear
  <2>6. UNCHANGED storeVars /\ scans' = scans
    BY <1>3 DEF Hear
  <2> HIDE DEF r
  <2> QED
    BY <1>0, <1>a, <2>1, <2>5, <2>6, Lands
<1>4. CASE AllotId(s)
  <2> DEFINE d == NextDeviceId
             r == [scan[s] EXCEPT !.pc = "create", !.device = d]
  <2>1. Becomes(s, r)
    BY <1>0, <1>4, AllotMove
  <2>2. d \in DeviceIds /\ scan[s].pc = "allot"
    BY <1>4 DEF AllotId
  <2> HIDE DEF d
  <2>3. LocalsOK(r, Stored)
    BY <1>0, <2>2 DEF LocalsOK, Scan, ScanPCs
  <2>4. UNCHANGED storeVars /\ scans' = scans
    BY <1>4 DEF AllotId
  <2> HIDE DEF r
  <2> QED
    BY <1>0, <1>a, <2>1, <2>3, <2>4, Lands
<1>5. CASE CreateDevice(s)
  <2> DEFINE l == scan[s]
             new == [device |-> l.device, mac |-> l.obs.mac, host |-> l.obs.host, ip |-> None]
             k == Append(l.known, new)
             kept == l.kept \cup {[mac |-> l.obs.mac, device |-> l.device]}
             r == [scan[s] EXCEPT !.pc = "status", !.kept = kept, !.known = k]
  <2>1. Becomes(s, r)
    BY <1>0, <1>5, CreateMove
  <2>2. /\ l.pc = "create" /\ l.obs \in Observation /\ l.obs.mac \in Macs
        /\ l.obs.host \in Hosts \cup {None} /\ l.device \in DeviceIds
        /\ l.confidence \in Confidence /\ l.at \in Time /\ l.known \in Seq(KnownDevice)
        /\ InsertDevice(l.device, l.obs.mac, l.confidence, l.at)
    BY <1>0, <1>5, Holds DEF CreateDevice, Scan
  <2>3. StoreTypeOK' /\ Stored' = Stored \cup {l.device}
    BY <1>0, <2>2, InsertDeviceFacts
  <2>4. new \in KnownDevice
    BY <2>2 DEF KnownDevice
  <2>5. k \in Seq(KnownDevice) /\ \A i \in DOMAIN k : k[i].device \in Stored'
    <3> DEFINE old == l.known
    <3>1. old \in Seq(KnownDevice) /\ \A i \in DOMAIN old : old[i].device \in Stored
      BY <1>0, <2>2 DEF LocalsOK
    <3>2. new.device \in Stored'
      BY <2>3
    <3> HIDE DEF old, new
    <3>3. k = Append(old, new) /\ Append(old, new) \in Seq(KnownDevice)
          /\ \A i \in DOMAIN Append(old, new) :
               \/ i \in DOMAIN old /\ Append(old, new)[i] = old[i]
               \/ Append(old, new)[i] = new
      BY <2>4, <3>1, AppendProperties DEF old
    <3> HIDE DEF k
    <3> QED
      BY <2>3, <3>1, <3>2, <3>3
  <2>k. kept \in SUBSET [mac : Macs, device : DeviceIds]
    BY <1>0, <2>2 DEF Scan
  <2> HIDE DEF k, kept
  <2>6. LocalsOK(r, Stored')
    BY <1>0, <2>2, <2>3, <2>5, <2>k DEF LocalsOK, Scan, ScanPCs
  <2>7. scans' = scans
    BY <1>5 DEF CreateDevice
  <2> HIDE DEF r
  <2> QED
    BY <1>0, <2>1, <2>3, <2>6, <2>7, Lands
<1>6. CASE ReadStatus(s)
  <2> DEFINE w == (devices[scan[s].device].status = "offline")
             r == [scan[s] EXCEPT !.pc = "observe", !.wasOffline = w]
  <2>1. Becomes(s, r)
    BY <1>0, <1>6, StatusMove
  <2>2. w \in BOOLEAN /\ scan[s].pc = "status"
    BY <1>6 DEF ReadStatus
  <2> HIDE DEF w
  <2>3. LocalsOK(r, Stored)
    BY <1>0, <2>2 DEF LocalsOK, Scan, ScanPCs
  <2>4. UNCHANGED storeVars /\ scans' = scans
    BY <1>6 DEF ReadStatus
  <2> HIDE DEF r
  <2> QED
    BY <1>0, <1>a, <2>1, <2>3, <2>4, Lands
<1>7. CASE Observe(s)
  <2> DEFINE l == scan[s]
             seen == l.seen \cup {l.device}
             heard == l.heard \cup {[ip |-> l.obs.ip, mac |-> l.obs.mac]}
             r == [scan[s] EXCEPT
                    !.pc = "gather", !.seen = seen, !.heard = heard,
                    !.obs = None, !.device = None, !.confidence = "LOW", !.wasOffline = FALSE]
  <2>1. Becomes(s, r)
    BY <1>0, <1>7, ObserveMove
  <2>2. /\ l.pc = "observe" /\ l.obs.ip \in Ips /\ l.obs.mac \in Macs
        /\ l.obs.host \in Hosts \cup {None} /\ l.device \in Stored
        /\ l.confidence \in Confidence /\ l.at \in Time /\ l.wasOffline \in BOOLEAN
        /\ RecordObservation(l.device, l.obs.ip, l.obs.mac, l.obs.host, l.at, l.confidence,
                             l.wasOffline)
    <3>1. l.pc = "observe"
      BY <1>7 DEF Observe
    <3>2. RecordObservation(l.device, l.obs.ip, l.obs.mac, l.obs.host, l.at, l.confidence,
                            l.wasOffline)
      BY <1>7 DEF Observe
    <3>3. l.confidence \in Confidence /\ l.at \in Time /\ l.wasOffline \in BOOLEAN
      BY <1>0 DEF Scan
    <3> QED
      BY <3>1, <3>2, <3>3, Holds
  <2>3. StoreTypeOK' /\ Stored' = Stored
    <3> DEFINE d == l.device
               ip == l.obs.ip
               mac == l.obs.mac
               host == l.obs.host
               at == l.at
               conf == l.confidence
               was == l.wasOffline
    <3>1. /\ d \in Stored /\ ip \in Ips /\ mac \in Macs \cup {None} /\ host \in Hosts \cup {None}
          /\ at \in Time /\ conf \in Confidence /\ was \in BOOLEAN
          /\ RecordObservation(d, ip, mac, host, at, conf, was)
      BY <2>2
    <3> HIDE DEF d, ip, mac, host, at, conf, was
    <3> QED
      BY <1>0, <3>1, RecordObservationFacts
  <2>4. seen \in SUBSET DeviceIds /\ heard \in SUBSET [ip : Ips, mac : Macs]
    BY <1>0, <2>2 DEF Scan
  <2> HIDE DEF seen, heard
  <2>5. LocalsOK(r, Stored)
    BY <1>0, <2>2, <2>4 DEF LocalsOK, Scan, ScanPCs, Confidence
  <2>6. scans' = scans
    BY <1>7 DEF Observe
  <2> HIDE DEF r
  <2> QED
    BY <1>0, <2>1, <2>3, <2>5, <2>6, Lands
<1>8. CASE ReadLeases(s) \/ EndOfLeases(s)
  <2>0. UNCHANGED storeVars /\ scans' = scans /\ scan[s].pc = "gather"
    BY <1>8 DEF ReadLeases, EndOfLeases
  <2>1. CASE ReadLeases(s)
    <3> DEFINE r == [scan[s] EXCEPT !.leases = TRUE]
    <3>1. Becomes(s, r)
      BY <1>0, <2>1, LeasesMove
    <3>2. LocalsOK(r, Stored)
      BY <1>0, <2>0 DEF LocalsOK, Scan
    <3> HIDE DEF r
    <3> QED
      BY <1>0, <1>a, <2>0, <3>1, <3>2, Lands
  <2>2. CASE EndOfLeases(s)
    <3> DEFINE p == IF scan[s].active THEN "dns" ELSE "sweep"
               r == [scan[s] EXCEPT !.pc = p, !.sweepAt = now]
    <3>1. Becomes(s, r)
      BY <1>0, <2>2, EndMove
    <3>2. p \in {"dns", "sweep"} /\ (p = "sweep" => ~scan[s].active)
      OBVIOUS
    <3> HIDE DEF p
    <3>3. LocalsOK(r, Stored)
      BY <1>0, <2>0, <3>2 DEF LocalsOK, Scan, ScanPCs
    <3> HIDE DEF r
    <3> QED
      BY <1>0, <1>a, <2>0, <3>1, <3>3, Lands
  <2> QED
    BY <1>8, <2>1, <2>2
<1>9. ASSUME NEW chatting \in SUBSET DeviceIds, ReadDns(s, chatting) PROVE ScanInv'
  <2> DEFINE r == [scan[s] EXCEPT !.pc = "grace", !.present = scan[s].seen \cup chatting]
  <2>1. Becomes(s, r)
    BY <1>0, <1>9, DnsMove
  <2>2. UNCHANGED storeVars /\ scans' = scans /\ scan[s].pc = "dns"
    BY <1>9 DEF ReadDns
  <2>3. LocalsOK(r, Stored)
    BY <1>0, <2>2 DEF LocalsOK, Scan, ScanPCs
  <2> HIDE DEF r
  <2> QED
    BY <1>0, <1>a, <2>1, <2>2, <2>3, Lands
<1>10. CASE ReadRecentlySeen(s)
  <2> DEFINE more == {d \in Stored : devices[d].last_seen + Grace >= scan[s].sweepAt}
             r == [scan[s] EXCEPT !.pc = "sweep", !.present = scan[s].present \cup more]
  <2>1. Becomes(s, r)
    BY <1>0, <1>10, SeenMove
  <2>2. UNCHANGED storeVars /\ scans' = scans /\ scan[s].pc = "grace" /\ more \subseteq DeviceIds
    BY <1>0, <1>10 DEF ReadRecentlySeen
  <2> HIDE DEF more
  <2>3. LocalsOK(r, Stored)
    BY <1>0, <2>2 DEF LocalsOK, Scan, ScanPCs
  <2> HIDE DEF r
  <2> QED
    BY <1>0, <1>a, <2>1, <2>2, <2>3, Lands
<1>11. CASE SelectGone(s)
  <2> DEFINE g == IF scan[s].active THEN Online \ scan[s].present
                  ELSE {d \in Online : devices[d].last_seen + Stale < scan[s].sweepAt}
             r == [scan[s] EXCEPT !.pc = "mark", !.gone = g]
  <2>1. Becomes(s, r)
    BY <1>0, <1>11, GoneMove
  <2>2. UNCHANGED storeVars /\ scans' = scans /\ scan[s].pc = "sweep"
        /\ g \subseteq Stored
    BY <1>11 DEF SelectGone, Online
  <2> HIDE DEF g
  <2>3. LocalsOK(r, Stored)
    BY <1>0, <2>2 DEF LocalsOK, Scan, ScanPCs
  <2> HIDE DEF r
  <2> QED
    BY <1>0, <1>a, <2>1, <2>2, <2>3, Lands
<1>12. CASE MarkGone(s)
  <2>1. Becomes(s, Idle)
    BY <1>0, <1>12, EndsMove
  <2>2. scans' = scans /\ MarkOffline(scan[s].gone) /\ scan[s].gone \subseteq Stored
    BY <1>0, <1>12 DEF MarkGone, LocalsOK
  <2>3. StoreTypeOK' /\ Stored' = Stored
    BY <1>0, <2>2, MarkOfflineFacts
  <2> QED
    BY <1>0, <2>1, <2>2, <2>3, IdleOK, Lands
<1>13. CASE IdTaken(s) \/ ScanDies(s)
  <2>1. Becomes(s, Idle)
    BY <1>0, <1>13, EndsMove
  <2>2. UNCHANGED storeVars /\ scans' = scans
    BY <1>13 DEF IdTaken, ScanDies
  <2> QED
    BY <1>0, <1>a, <2>1, <2>2, IdleOK, Lands
<1> QED
  BY <1>1, <1>2, <1>r, <1>3, <1>4, <1>5, <1>6, <1>7, <1>8, <1>9, <1>10, <1>11, <1>12, <1>13
  DEF ScanStep, Gather, Sweep

\* A scan takes no device and no address away.
LEMMA ScanAdds ==
  ASSUME ScanInv, NEW s \in Scanners, ScanStep(s) \/ \E chatting : ReadDns(s, chatting)
  PROVE  Stored \subseteq Stored' /\ addresses \subseteq addresses'
<1>0. scan[s] \in Scan /\ LocalsOK(scan[s], Stored) /\ StoreTypeOK
  BY Holds
<1>1. ASSUME UNCHANGED <<devices, addresses>>
      PROVE  Stored \subseteq Stored' /\ addresses \subseteq addresses'
  BY <1>1 DEF Stored
<1>2. CASE CreateDevice(s)
  <2> DEFINE l == scan[s]
  <2>1. InsertDevice(l.device, l.obs.mac, l.confidence, l.at) /\ l.obs.mac \in Macs \cup {None}
        /\ l.confidence \in Confidence /\ l.at \in Time
    BY <1>0, <1>2, Holds DEF CreateDevice, Scan
  <2> HIDE DEF l
  <2> QED
    BY <1>0, <2>1, InsertDeviceFacts, ZenonT(60)
<1>3. CASE Observe(s)
  <2> DEFINE d == scan[s].device
             ip == scan[s].obs.ip
             mac == scan[s].obs.mac
             host == scan[s].obs.host
             at == scan[s].at
             conf == scan[s].confidence
             was == scan[s].wasOffline
  <2>1. conf \in Confidence /\ at \in Time /\ was \in BOOLEAN
    BY <1>0 DEF Scan
  <2>2. scan[s].pc = "observe" /\ RecordObservation(d, ip, mac, host, at, conf, was)
    BY <1>3 DEF Observe
  <2>3. d \in Stored /\ ip \in Ips /\ mac \in Macs \cup {None} /\ host \in Hosts \cup {None}
    BY <2>2, Holds
  <2> HIDE DEF d, ip, mac, host, at, conf, was
  <2> QED
    BY <1>0, <2>1, <2>2, <2>3, RecordObservationFacts
<1>4. CASE MarkGone(s)
  <2>1. MarkOffline(scan[s].gone) /\ scan[s].gone \subseteq Stored
    BY <1>0, <1>4 DEF MarkGone, LocalsOK
  <2>2. Stored' = Stored
    BY <1>0, <2>1, MarkOfflineFacts
  <2> QED
    BY <2>1, <2>2 DEF MarkOffline
<1>5. CASE \E active \in BOOLEAN : StartScan(s, active)
  BY <1>1, <1>5 DEF StartScan, storeVars
<1>6. CASE \E o \in Observation : Hear(s, o)
  BY <1>1, <1>6 DEF Hear, storeVars
<1>7. CASE \E chatting : ReadDns(s, chatting)
  BY <1>1, <1>7 DEF ReadDns, storeVars
<1>8. CASE ReadKnown(s) \/ ReadHostname(s) \/ ReadIp(s) \/ AllotId(s) \/ ReadStatus(s) \/ ReadLeases(s) \/ EndOfLeases(s)
           \/ ReadRecentlySeen(s) \/ SelectGone(s) \/ IdTaken(s) \/ ScanDies(s)
  BY <1>1, <1>8 DEF ReadKnown, ReadHostname, ReadIp, AllotId, ReadStatus, ReadLeases, EndOfLeases,
                    ReadRecentlySeen, SelectGone, IdTaken, ScanDies, storeVars
<1> QED
  BY <1>2, <1>3, <1>4, <1>5, <1>6, <1>7, <1>8 DEF ScanStep, Gather, Sweep

\* Steps of others, who take no device away.
LEMMA OthersKeep ==
  ASSUME ScanInv, UNCHANGED scanVars, StoreTypeOK', Stored \subseteq Stored'
  PROVE  ScanInv'
  BY DEF scanVars, ScanInv, Locals, LocalsOK

LEMMA ScanInvInit == Init => ScanInv
<1> SUFFICES ASSUME Init PROVE ScanInv
  OBVIOUS
<1>1. StoreTypeOK
  <2>1. <<>> \in Seq(Status)
    OBVIOUS
  <2> QED
    BY <2>1, StoreAssumption DEF Init, StoreInit, StoreTypeOK, Time
<1>2. scan = [s \in Scanners |-> Idle] /\ scans = 0
  BY DEF Init, ScanInit
<1>3. Idle \in Scan
  BY IdleOK DEF LocalsOK
<1> QED
  BY <1>1, <1>2, <1>3, IdleOK, DiscoveryAssumption DEF ScanInv, Locals

LEMMA ScanInvStep == ScanInv /\ [Next]_vars => ScanInv'
<1> SUFFICES ASSUME ScanInv, [Next]_vars PROVE ScanInv'
  OBVIOUS
<1>1. ASSUME NEW s \in Scanners, ScanStep(s) \/ \E chatting \in SUBSET Stored : ReadDns(s, chatting)
      PROVE  ScanInv'
  <2>1. SUBSET Stored \subseteq SUBSET DeviceIds
    BY DEF Stored
  <2> QED
    BY <1>1, <2>1, ScanStepKeeps
<1>2. CASE Tick /\ UNCHANGED scanVars
  <2>1. Stored' = Stored /\ StoreTypeOK'
    BY <1>2, StoreAssumption DEF Tick, Stored, ScanInv, StoreTypeOK, Time
  <2> QED
    BY <1>2, <2>1, OthersKeep
<1>3. CASE UNCHANGED vars
  <2>1. Stored' = Stored /\ StoreTypeOK'
    BY <1>3 DEF vars, storeVars, Stored, ScanInv, StoreTypeOK
  <2> QED
    BY <1>3, <2>1, OthersKeep DEF vars
<1> QED
  BY <1>1, <1>2, <1>3 DEF Next

THEOREM ScanInvariant == Spec => []ScanInv
  BY ScanInvInit, ScanInvStep, PTL DEF Spec

\* The tables and the scans keep their types; no scan works on a device that
\* is not stored.
THEOREM TypeCorrect == Spec => []TypeOK
<1>1. ScanInv => TypeOK
  BY DEF ScanInv, Locals, LocalsOK, TypeOK, ScanTypeOK
<1> QED
  BY <1>1, ScanInvariant, PTL

-----------------------------------------------------------------------------
(* The events.                                                             *)

LEMMA EventsStep ==
  ASSUME ScanInv, EventsInv, NEW s \in Scanners,
         ScanStep(s) \/ \E chatting : ReadDns(s, chatting)
  PROVE  EventsInv'
<1>0. scan[s] \in Scan /\ LocalsOK(scan[s], Stored) /\ StoreTypeOK
  BY Holds
<1>1. ASSUME UNCHANGED storeVars PROVE EventsInv'
  BY <1>1 DEF storeVars, EventsInv, EventsBounded, Stored
<1>2. CASE CreateDevice(s)
  <2> DEFINE l == scan[s]
  <2>1. InsertDevice(l.device, l.obs.mac, l.confidence, l.at) /\ l.obs.mac \in Macs \cup {None}
        /\ l.confidence \in Confidence /\ l.at \in Time
    BY <1>0, <1>2, Holds DEF CreateDevice, Scan
  <2> HIDE DEF l
  <2> QED
    BY <1>0, <2>1, InsertKeepsEvents, ZenonT(60)
<1>3. CASE Observe(s)
  <2> DEFINE d == scan[s].device
             ip == scan[s].obs.ip
             mac == scan[s].obs.mac
             host == scan[s].obs.host
             at == scan[s].at
             conf == scan[s].confidence
             was == scan[s].wasOffline
  <2>1. conf \in Confidence /\ at \in Time /\ was \in BOOLEAN
    BY <1>0 DEF Scan
  <2>2. scan[s].pc = "observe" /\ RecordObservation(d, ip, mac, host, at, conf, was)
    BY <1>3 DEF Observe
  <2>3. d \in Stored /\ ip \in Ips /\ mac \in Macs \cup {None} /\ host \in Hosts \cup {None}
    BY <2>2, Holds
  <2> HIDE DEF d, ip, mac, host, at, conf, was
  <2> QED
    BY <1>0, <2>1, <2>2, <2>3, RecordKeepsEvents
<1>4. CASE MarkGone(s)
  <2>1. MarkOffline(scan[s].gone) /\ scan[s].gone \subseteq Stored
    BY <1>0, <1>4 DEF MarkGone, LocalsOK
  <2> QED
    BY <1>0, <2>1, MarkKeepsEvents
<1>5. CASE \E active \in BOOLEAN : StartScan(s, active)
  BY <1>1, <1>5 DEF StartScan
<1>6. CASE \E o \in Observation : Hear(s, o)
  BY <1>1, <1>6 DEF Hear
<1>7. CASE \E chatting : ReadDns(s, chatting)
  BY <1>1, <1>7 DEF ReadDns
<1>8. CASE ReadKnown(s) \/ ReadHostname(s) \/ ReadIp(s) \/ AllotId(s) \/ ReadStatus(s)
           \/ ReadLeases(s) \/ EndOfLeases(s) \/ ReadRecentlySeen(s) \/ SelectGone(s)
           \/ IdTaken(s) \/ ScanDies(s)
  BY <1>1, <1>8 DEF ReadKnown, ReadHostname, ReadIp, AllotId, ReadStatus, ReadLeases,
                    EndOfLeases, ReadRecentlySeen, SelectGone, IdTaken, ScanDies
<1> QED
  BY <1>2, <1>3, <1>4, <1>5, <1>6, <1>7, <1>8 DEF ScanStep, Gather, Sweep

\* However many scans overlap, and wherever they end, the events of a device
\* slip only by a write that was decided on a status another process had
\* changed; a device no such write touched alternates and ends with its status.
THEOREM EventsTheorem == Spec => []EventsBounded
<1>1. Init => EventsInv
  BY EventsInit DEF Init
<1>2. ScanInv /\ EventsInv /\ [Next]_vars => EventsInv'
  <2> SUFFICES ASSUME ScanInv, EventsInv, [Next]_vars PROVE EventsInv'
    OBVIOUS
  <2>1. CASE \E s \in Scanners :
               ScanStep(s) \/ \E chatting \in SUBSET Stored : ReadDns(s, chatting)
    BY <2>1, EventsStep
  <2>2. CASE (Tick /\ UNCHANGED scanVars) \/ UNCHANGED vars
    BY <2>2 DEF Tick, vars, storeVars, EventsInv, EventsBounded, Stored
  <2> QED
    BY <2>1, <2>2 DEF Next
<1>3. EventsInv => EventsBounded
  BY DEF EventsInv
<1> QED
  BY <1>1, <1>2, <1>3, ScanInvariant, PTL DEF Spec

-----------------------------------------------------------------------------
(* The MACs of a pass.                                                     *)

(***************************************************************************)
(* What a pass keeps: a MAC it created a device for, or found one by, has  *)
(* that device first in known_devices, and it creates one only for a MAC   *)
(* that is not there.                                                      *)
(***************************************************************************)
KeptOK(r) ==
  /\ \A k \in r.kept : FirstWith(r.known, k.mac, k.device)
  /\ r.pc \in {"start", "host", "ip"} => r.kept = {}
  /\ r.pc \in {"allot", "create"} => \A i \in DOMAIN r.known : r.known[i].mac # r.obs.mac

KeptInv == \A s \in Scanners : KeptOK(scan[s])

LEMMA KeptLands ==
  ASSUME ScanInv, KeptInv, NEW s \in Scanners, NEW r, Becomes(s, r), KeptOK(r)
  PROVE  KeptInv'
<1>1. \A t \in Scanners : scan'[t] = IF t = s THEN r ELSE scan[t]
  BY DEF Becomes, ScanInv, Locals
<1>2. \A t \in Scanners : KeptOK(scan'[t])
  BY <1>1 DEF KeptInv
<1> QED
  BY <1>2 DEF KeptInv, KeptOK

\* A device that is added at the end is first only for a MAC that was missing.
LEMMA FirstAppend ==
  ASSUME NEW known \in Seq(KnownDevice), NEW new \in KnownDevice
  PROVE  /\ \A mac, d : FirstWith(known, mac, d) => FirstWith(Append(known, new), mac, d)
         /\ (\A i \in DOMAIN known : known[i].mac # new.mac)
              => FirstWith(Append(known, new), new.mac, new.device)
<1> DEFINE n == Len(known)
           more == Append(known, new)
<1>1. /\ n \in Nat /\ DOMAIN known = 1 .. n /\ DOMAIN more = 1 .. n + 1
      /\ more[n + 1] = new /\ \A i \in 1 .. n : more[i] = known[i]
  BY AppendProperties
<1> HIDE DEF n, more
<1>2. ASSUME NEW mac, NEW d, FirstWith(known, mac, d) PROVE FirstWith(more, mac, d)
  <2>1. PICK i \in 1 .. n : /\ known[i].mac = mac /\ known[i].device = d
                            /\ \A j \in 1 .. n : j < i => known[j].mac # mac
    BY <1>1, <1>2 DEF FirstWith
  <2>2. i \in 1 .. n + 1 /\ \A j \in 1 .. n + 1 : j < i => j \in 1 .. n
    BY <1>1
  <2> QED
    BY <1>1, <2>1, <2>2 DEF FirstWith
<1>3. ASSUME \A i \in DOMAIN known : known[i].mac # new.mac
      PROVE  FirstWith(more, new.mac, new.device)
  <2>1. n + 1 \in 1 .. n + 1 /\ \A j \in 1 .. n + 1 : j < n + 1 => j \in 1 .. n
    BY <1>1
  <2> QED
    BY <1>1, <1>3, <2>1 DEF FirstWith
<1> QED
  BY <1>2, <1>3 DEF more

LEMMA KeptStep ==
  ASSUME ScanInv, KeptInv, NEW s \in Scanners,
         ScanStep(s) \/ \E chatting : ReadDns(s, chatting)
  PROVE  KeptInv'
<1> DEFINE l == scan[s]
<1>0. Locals /\ l \in Scan /\ KeptOK(l)
  BY Holds DEF KeptInv
<1>a. ASSUME NEW r, Becomes(s, r), r.known = l.known, r.kept = l.kept,
             r.pc \notin {"start", "host", "ip", "allot", "create"}
      PROVE  KeptInv'
  BY <1>0, <1>a, KeptLands DEF KeptOK
<1>b. ASSUME NEW r, Becomes(s, r), r.kept = {}, r.pc \notin {"allot", "create"}
      PROVE  KeptInv'
  BY <1>0, <1>b, KeptLands DEF KeptOK
<1>1. ASSUME NEW active \in BOOLEAN, StartScan(s, active) PROVE KeptInv'
  <2> DEFINE r == [Idle EXCEPT !.pc = "start", !.active = active, !.at = now]
  <2>1. Becomes(s, r)
    BY <1>0, <1>1, StartMove
  <2>2. r.kept = {} /\ r.pc = "start"
    BY DEF Idle
  <2> HIDE DEF r
  <2> QED
    BY <1>b, <2>1, <2>2
<1>2. CASE ReadKnown(s)
  <2>1. PICK k \in KnownRows :
          Becomes(s, [scan[s] EXCEPT !.known = k, !.reading = 1,
                                     !.pc = IF k = <<>> THEN "gather" ELSE "host"])
    BY <1>0, <1>2, KnownMove
  <2> DEFINE p == IF k = <<>> THEN "gather" ELSE "host"
             r == [scan[s] EXCEPT !.known = k, !.reading = 1, !.pc = p]
  <2>2. Becomes(s, r) /\ l.kept = {}
    BY <1>0, <1>2, <2>1 DEF ReadKnown, KeptOK
  <2>3. p \notin {"allot", "create"}
    OBVIOUS
  <2> HIDE DEF p
  <2>4. r.pc = p /\ r.kept = l.kept
    BY <1>0 DEF Scan
  <2> HIDE DEF r, l
  <2> QED
    BY <1>b, <2>2, <2>3, <2>4
<1>3. CASE ReadHostname(s)
  <2>1. PICK host : Becomes(s, [scan[s] EXCEPT
             !.known = [scan[s].known EXCEPT ![scan[s].reading].host = host], !.pc = "ip"])
    BY <1>0, <1>3, HostnameMove
  <2> DEFINE k == [scan[s].known EXCEPT ![scan[s].reading].host = host]
             r == [scan[s] EXCEPT !.known = k, !.pc = "ip"]
  <2>2. Becomes(s, r) /\ l.kept = {}
    BY <1>0, <1>3, <2>1 DEF ReadHostname, KeptOK
  <2> HIDE DEF k
  <2>3. r.pc = "ip" /\ r.kept = l.kept
    BY <1>0 DEF Scan
  <2> HIDE DEF r, l
  <2> QED
    BY <1>b, <2>2, <2>3
<1>4. CASE ReadIp(s)
  <2>1. PICK ip : Becomes(s, [scan[s] EXCEPT
             !.known = [scan[s].known EXCEPT ![scan[s].reading].ip = ip],
             !.reading = scan[s].reading + 1,
             !.pc = IF scan[s].reading = Len(scan[s].known) THEN "gather" ELSE "host"])
    BY <1>0, <1>4, IpMove
  <2> DEFINE k == [scan[s].known EXCEPT ![scan[s].reading].ip = ip]
             n == scan[s].reading + 1
             p == IF scan[s].reading = Len(scan[s].known) THEN "gather" ELSE "host"
             r == [scan[s] EXCEPT !.known = k, !.reading = n, !.pc = p]
  <2>2. Becomes(s, r) /\ l.kept = {}
    BY <1>0, <1>4, <2>1 DEF ReadIp, KeptOK
  <2>3. p \notin {"allot", "create"}
    OBVIOUS
  <2> HIDE DEF k, n, p
  <2>4. r.pc = p /\ r.kept = l.kept
    BY <1>0 DEF Scan
  <2> HIDE DEF r, l
  <2> QED
    BY <1>b, <2>2, <2>3, <2>4
<1>5. ASSUME NEW o \in Observation, Hear(s, o) PROVE KeptInv'
  <2> DEFINE known == scan[s].known
             match == MatchDevice(o, known)
             d == match.device
             c == match.confidence
             p == IF d = None THEN "allot" ELSE "status"
             kept == IF c = "HIGH" THEN l.kept \cup {[mac |-> o.mac, device |-> d]} ELSE l.kept
             r == [scan[s] EXCEPT !.obs = o, !.device = d, !.confidence = c, !.kept = kept,
                                  !.pc = p]
  <2>1. Becomes(s, r)
    BY <1>0, <1>5, HearMove
  <2>2. known \in Seq(KnownDevice)
    BY <1>0 DEF Scan
  <2>3. /\ c = "HIGH" => FirstWith(known, o.mac, d)
        /\ c # "HIGH" => \A i \in DOMAIN known : known[i].mac # o.mac
        /\ c = "HIGH" => \E i \in DOMAIN known : d = known[i].device
    <3> HIDE DEF known, match
    <3> QED
      BY <2>2, MatchFacts DEF match, FirstWith
  <2>4. c = "HIGH" => d # None
    <3> HIDE DEF match, known
    <3>1. \A i \in DOMAIN known : known[i].device # None
      <4>1. \A i \in DOMAIN known : known[i] \in KnownDevice
        BY <2>2
      <4>2. \A k \in KnownDevice : k.device # None
        BY StoreAssumption DEF KnownDevice
      <4> QED
        BY <4>1, <4>2
    <3> QED
      BY <2>3, <3>1
  <2>5. \A k \in kept : FirstWith(known, k.mac, k.device)
    <3> HIDE DEF match
    <3> QED
      BY <1>0, <2>3 DEF KeptOK
  <2>6. p \in {"allot", "status"} /\ (p = "allot" => \A i \in DOMAIN known : known[i].mac # o.mac)
    <3> HIDE DEF match, known
    <3> QED
      BY <2>3, <2>4
  <2> HIDE DEF match, d, c, p, kept
  <2>7. r.pc = p /\ r.kept = kept /\ r.known = known /\ r.obs = o
    BY <1>0 DEF Scan
  <2> HIDE DEF r, known
  <2>8. KeptOK(r)
    BY <2>5, <2>6, <2>7 DEF KeptOK
  <2> QED
    BY <2>1, <2>8, KeptLands
<1>6. CASE AllotId(s)
  <2> DEFINE d == NextDeviceId
             r == [scan[s] EXCEPT !.pc = "create", !.device = d]
  <2>1. Becomes(s, r) /\ l.pc = "allot"
    BY <1>0, <1>6, AllotMove DEF AllotId
  <2> HIDE DEF d
  <2>2. r.pc = "create" /\ r.kept = l.kept /\ r.known = l.known /\ r.obs = l.obs
    BY <1>0 DEF Scan
  <2> HIDE DEF r
  <2>3. KeptOK(r)
    BY <1>0, <2>1, <2>2 DEF KeptOK
  <2> QED
    BY <2>1, <2>3, KeptLands
<1>7. CASE CreateDevice(s)
  <2> DEFINE mac == l.obs.mac
             d == l.device
             new == [device |-> d, mac |-> mac, host |-> l.obs.host, ip |-> None]
             known == l.known
             more == Append(known, new)
             kept == l.kept \cup {[mac |-> mac, device |-> d]}
             r == [scan[s] EXCEPT !.pc = "status", !.kept = kept, !.known = more]
  <2>1. Becomes(s, r)
    BY <1>0, <1>7, CreateMove
  <2>2. l.pc = "create" /\ known \in Seq(KnownDevice)
    BY <1>0, <1>7 DEF CreateDevice, Scan
  <2>3. new \in KnownDevice /\ new.mac = mac /\ new.device = d
    BY <2>2, Holds DEF KnownDevice
  <2>4. \A i \in DOMAIN known : known[i].mac # mac
    BY <1>0, <2>2 DEF KeptOK
  <2>5. \A k \in l.kept : FirstWith(known, k.mac, k.device)
    BY <1>0 DEF KeptOK
  <2> HIDE DEF new, known, mac, d
  <2>6. /\ \A k \in l.kept : FirstWith(more, k.mac, k.device)
        /\ FirstWith(more, mac, d)
    BY <2>2, <2>3, <2>4, <2>5, FirstAppend
  <2> HIDE DEF more
  <2>7. \A k \in kept : FirstWith(more, k.mac, k.device)
    BY <2>6
  <2> HIDE DEF kept
  <2>8. r.pc = "status" /\ r.kept = kept /\ r.known = more
    BY <1>0 DEF Scan
  <2> HIDE DEF r
  <2>9. KeptOK(r)
    BY <2>7, <2>8 DEF KeptOK
  <2> QED
    BY <2>1, <2>9, KeptLands
<1>8. CASE ReadStatus(s)
  <2> DEFINE w == (devices[scan[s].device].status = "offline")
             r == [scan[s] EXCEPT !.pc = "observe", !.wasOffline = w]
  <2>1. Becomes(s, r)
    BY <1>0, <1>8, StatusMove
  <2> HIDE DEF w
  <2>2. r.pc = "observe" /\ r.kept = l.kept /\ r.known = l.known
    BY <1>0 DEF Scan
  <2> HIDE DEF r
  <2> QED
    BY <1>a, <2>1, <2>2
<1>9. CASE Observe(s)
  <2> DEFINE seen == l.seen \cup {l.device}
             heard == l.heard \cup {[ip |-> l.obs.ip, mac |-> l.obs.mac]}
             r == [scan[s] EXCEPT
                    !.pc = "gather", !.seen = seen, !.heard = heard,
                    !.obs = None, !.device = None, !.confidence = "LOW", !.wasOffline = FALSE]
  <2>1. Becomes(s, r)
    BY <1>0, <1>9, ObserveMove
  <2> HIDE DEF seen, heard
  <2>2. r.pc = "gather" /\ r.kept = l.kept /\ r.known = l.known
    BY <1>0 DEF Scan
  <2> HIDE DEF r
  <2> QED
    BY <1>a, <2>1, <2>2
<1>10. CASE ReadLeases(s)
  <2> DEFINE r == [scan[s] EXCEPT !.leases = TRUE]
  <2>1. Becomes(s, r) /\ l.pc = "gather"
    BY <1>0, <1>10, LeasesMove DEF ReadLeases
  <2>2. r.pc = "gather" /\ r.kept = l.kept /\ r.known = l.known
    BY <1>0, <2>1 DEF Scan
  <2> HIDE DEF r
  <2> QED
    BY <1>a, <2>1, <2>2
<1>11. CASE EndOfLeases(s)
  <2> DEFINE p == IF scan[s].active THEN "dns" ELSE "sweep"
             r == [scan[s] EXCEPT !.pc = p, !.sweepAt = now]
  <2>1. Becomes(s, r)
    BY <1>0, <1>11, EndMove
  <2>2. p \in {"dns", "sweep"}
    OBVIOUS
  <2> HIDE DEF p
  <2>3. r.pc = p /\ r.kept = l.kept /\ r.known = l.known
    BY <1>0 DEF Scan
  <2> HIDE DEF r
  <2> QED
    BY <1>a, <2>1, <2>2, <2>3
<1>12. ASSUME NEW chatting, ReadDns(s, chatting) PROVE KeptInv'
  <2> DEFINE r == [scan[s] EXCEPT !.pc = "grace", !.present = scan[s].seen \cup chatting]
  <2>1. Becomes(s, r)
    BY <1>0, <1>12, DnsMove
  <2>2. r.pc = "grace" /\ r.kept = l.kept /\ r.known = l.known
    BY <1>0 DEF Scan
  <2> HIDE DEF r
  <2> QED
    BY <1>a, <2>1, <2>2
<1>13. CASE ReadRecentlySeen(s)
  <2> DEFINE more == {d \in Stored : devices[d].last_seen + Grace >= scan[s].sweepAt}
             r == [scan[s] EXCEPT !.pc = "sweep", !.present = scan[s].present \cup more]
  <2>1. Becomes(s, r)
    BY <1>0, <1>13, SeenMove
  <2> HIDE DEF more
  <2>2. r.pc = "sweep" /\ r.kept = l.kept /\ r.known = l.known
    BY <1>0 DEF Scan
  <2> HIDE DEF r
  <2> QED
    BY <1>a, <2>1, <2>2
<1>14. CASE SelectGone(s)
  <2> DEFINE g == IF scan[s].active THEN Online \ scan[s].present
                  ELSE {d \in Online : devices[d].last_seen + Stale < scan[s].sweepAt}
             r == [scan[s] EXCEPT !.pc = "mark", !.gone = g]
  <2>1. Becomes(s, r)
    BY <1>0, <1>14, GoneMove
  <2> HIDE DEF g
  <2>2. r.pc = "mark" /\ r.kept = l.kept /\ r.known = l.known
    BY <1>0 DEF Scan
  <2> HIDE DEF r
  <2> QED
    BY <1>a, <2>1, <2>2
<1>15. CASE MarkGone(s) \/ IdTaken(s) \/ ScanDies(s)
  <2>1. Becomes(s, Idle)
    BY <1>0, <1>15, EndsMove
  <2>2. Idle.kept = {} /\ Idle.pc = "off"
    BY DEF Idle
  <2> QED
    BY <1>b, <2>1, <2>2
<1> QED
  BY <1>1, <1>2, <1>3, <1>4, <1>5, <1>6, <1>7, <1>8, <1>9, <1>10, <1>11, <1>12, <1>13, <1>14,
     <1>15 DEF ScanStep, Gather, Sweep

\* However many scans overlap, whatever others store meanwhile and whatever
\* host names and addresses say: within one pass, a MAC that a device was
\* created for or found by goes to that device.
THEOREM PassTheorem == Spec => []PassKeepsMac
<1>1. Init => KeptInv
  <2> SUFFICES ASSUME Init PROVE KeptInv
    OBVIOUS
  <2>1. \A s \in Scanners : scan[s] = Idle
    BY DEF Init, ScanInit
  <2>2. Idle.kept = {} /\ Idle.pc = "off"
    BY DEF Idle
  <2> QED
    BY <2>1, <2>2 DEF KeptInv, KeptOK
<1>2. ScanInv /\ KeptInv /\ [Next]_vars => KeptInv'
  <2> SUFFICES ASSUME ScanInv, KeptInv, [Next]_vars PROVE KeptInv'
    OBVIOUS
  <2>1. CASE \E s \in Scanners :
               ScanStep(s) \/ \E chatting \in SUBSET Stored : ReadDns(s, chatting)
    BY <2>1, KeptStep
  <2>2. CASE (Tick /\ UNCHANGED scanVars) \/ UNCHANGED vars
    <3>1. scan' = scan
      BY <2>2 DEF scanVars, vars
    <3> QED
      BY <3>1 DEF KeptInv, KeptOK
  <2> QED
    BY <2>1, <2>2 DEF Next
<1>3. ScanInv /\ KeptInv => PassKeepsMac
  <2> SUFFICES ASSUME ScanInv, KeptInv, NEW s \in Scanners,
                      NEW a \in scan[s].kept, NEW b \in scan[s].kept, a.mac = b.mac
               PROVE  a.device = b.device
    BY DEF PassKeepsMac
  <2> DEFINE known == scan[s].known
  <2>1. FirstWith(known, a.mac, a.device) /\ FirstWith(known, b.mac, b.device)
    BY DEF KeptInv, KeptOK
  <2>2. known \in Seq(KnownDevice)
    BY Holds DEF Scan
  <2>3. \A i \in DOMAIN known : i \in Nat
    BY <2>2
  <2> HIDE DEF known
  <2>4. PICK i \in DOMAIN known :
          /\ known[i].mac = a.mac /\ known[i].device = a.device
          /\ \A j \in DOMAIN known : j < i => known[j].mac # a.mac
    BY <2>1 DEF FirstWith
  <2>5. PICK k \in DOMAIN known :
          /\ known[k].mac = b.mac /\ known[k].device = b.device
          /\ \A j \in DOMAIN known : j < k => known[j].mac # b.mac
    BY <2>1 DEF FirstWith
  <2>6. i = k
    BY <2>3, <2>4, <2>5
  <2> QED
    BY <2>4, <2>5, <2>6
<1> QED
  BY <1>1, <1>2, <1>3, ScanInvariant, PTL DEF Spec

-----------------------------------------------------------------------------
(* What the scans that ended leave.                                        *)

Late == {"status", "observe"}

Running == {s \in Scanners : scan[s].pc # "off"}

\* The devices without an address that no scan is about to give one.
Abandoned ==
  {d \in Stored : /\ \A a \in addresses : a.device # d
                  /\ \A s \in Scanners : scan[s].pc \in Late => scan[s].device # d}

OrphanInv == Cardinality(Abandoned) <= scans - Cardinality(Running)

LEMMA OrphansAreAbandoned == OrphansBounded <=> OrphanInv
<1> DEFINE running == {s \in Scanners : scan[s].pc # "off"}
           unfinished == {scan[s].device : s \in
                           {r \in running : scan[r].pc \in {"status", "observe"}}}
           orphans == {d \in Stored : \A a \in addresses : a.device # d}
<1>1. OrphansBounded <=> Cardinality(orphans \ unfinished) <= scans - Cardinality(running)
  BY DEF OrphansBounded
<1>2. orphans \ unfinished = Abandoned
  BY DEF Abandoned, Late
<1>3. running = Running
  BY DEF Running
<1> HIDE DEF running, unfinished, orphans
<1> QED
  BY <1>1, <1>2, <1>3 DEF OrphanInv

LEMMA Countable ==
  ASSUME ScanInv
  PROVE  /\ IsFiniteSet(Abandoned) /\ Cardinality(Abandoned) \in Nat
         /\ IsFiniteSet(Running) /\ Cardinality(Running) \in Nat
         /\ scans \in Nat
<1>1. Abandoned \in SUBSET DeviceIds
  BY DEF Abandoned, Stored
<1>2. IsFiniteSet(Running)
  <2>1. Running \subseteq Scanners /\ IsFiniteSet(Scanners)
    BY DiscoveryAssumption DEF Running
  <2> QED
    BY <2>1, FS_Subset
<1>3. scans \in Nat
  BY DiscoveryAssumption DEF ScanInv
<1> QED
  BY <1>1, <1>2, <1>3, FiniteDevices, FS_CardinalityType

LEMMA OrphanInit == Init => OrphanInv
<1> SUFFICES ASSUME Init PROVE OrphanInv
  OBVIOUS
<1>1. Abandoned = {} /\ scans = 0
  BY DEF Init, StoreInit, ScanInit, Abandoned, Stored
<1>2. Running = {}
  BY DEF Init, ScanInit, Running, Idle
<1> QED
  BY <1>1, <1>2, FS_EmptySet DEF OrphanInv

LEMMA OrphanStep ==
  ASSUME ScanInv, ScanInv', OrphanInv, NEW s \in Scanners,
         ScanStep(s) \/ \E chatting \in SUBSET Stored : ReadDns(s, chatting)
  PROVE  OrphanInv'
<1> DEFINE l == scan[s]
           Gets(d) == \E a \in addresses' : a.device = d
<1>0. Locals /\ l \in Scan /\ LocalsOK(l, Stored) /\ StoreTypeOK
  BY Holds
<1>a. ASSUME NEW r, Becomes(s, r)
      PROVE  scan'[s] = r /\ \A t \in Scanners : t # s => scan'[t] = scan[t]
  BY <1>0, <1>a DEF Becomes, Locals
<1>n. /\ IsFiniteSet(Abandoned) /\ Cardinality(Abandoned) \in Nat
      /\ IsFiniteSet(Running) /\ Cardinality(Running) \in Nat /\ scans \in Nat
      /\ IsFiniteSet(Abandoned') /\ Cardinality(Abandoned') \in Nat
      /\ Cardinality(Abandoned) <= scans - Cardinality(Running)
  <2>1. Abandoned' \subseteq DeviceIds
    BY DEF Abandoned, Stored
  <2>2. IsFiniteSet(Abandoned') /\ Cardinality(Abandoned') \in Nat
    BY <2>1, FiniteDevices
  <2> QED
    BY <2>2, Countable DEF OrphanInv
\* A scan goes on; the device it leaves behind has an address.
<1>b. ASSUME NEW r, Becomes(s, r), l.pc # "off", r.pc # "off", scans' = scans,
             addresses \subseteq addresses',
             \A d \in Stored' : d \in Stored \/ (r.pc \in Late /\ r.device = d),
             l.pc \in Late => (r.pc \in Late /\ r.device = l.device) \/ Gets(l.device)
      PROVE  OrphanInv'
  <2> HIDE DEF l
  <2>1. Running' = Running
    BY <1>a, <1>b DEF Running, l
  <2>2. ASSUME NEW d \in Abandoned' PROVE d \in Abandoned
    <3>1. /\ d \in Stored' /\ \A a \in addresses' : a.device # d
          /\ \A t \in Scanners : scan'[t].pc \in Late => scan'[t].device # d
      BY <2>2 DEF Abandoned
    <3>2. ~ (r.pc \in Late /\ r.device = d)
      BY <1>a, <1>b, <3>1
    <3>3. d \in Stored
      BY <1>b, <3>1, <3>2
    <3>4. l.pc \in Late => l.device # d
      BY <1>b, <3>1, <3>2
    <3>5. \A t \in Scanners : scan[t].pc \in Late => scan[t].device # d
      BY <1>a, <1>b, <3>1, <3>4 DEF l
    <3> QED
      BY <1>b, <3>1, <3>3, <3>5 DEF Abandoned
  <2>3. Cardinality(Abandoned') <= Cardinality(Abandoned)
    <3>1. Abandoned' \subseteq Abandoned
      BY <2>2
    <3> QED
      BY <1>n, <3>1, FS_Subset
  <2> QED
    BY <1>b, <1>n, <2>1, <2>3 DEF OrphanInv
\* A scan ends.
<1>c. ASSUME Becomes(s, Idle), l.pc # "off", scans' = scans, addresses' = addresses,
             Stored' = Stored
      PROVE  OrphanInv'
  <2>1. Idle.pc = "off"
    BY DEF Idle
  <2>2. scan'[s] = Idle /\ \A t \in Scanners : t # s => scan'[t] = scan[t]
    BY <1>a, <1>c
  <2>3. Running' = Running \ {s} /\ s \in Running
    BY <1>c, <2>1, <2>2 DEF Running
  <2>4. Cardinality(Running') = Cardinality(Running) - 1
    BY <1>n, <2>3, FS_RemoveElement
  <2> DEFINE more == Abandoned \cup {l.device}
  <2>5. Abandoned' \subseteq more
    BY <1>c, <2>2 DEF Abandoned
  <2>6. IsFiniteSet(more) /\ Cardinality(more) \in Nat /\ Cardinality(more) <= Cardinality(Abandoned) + 1
    <3>1. IsFiniteSet(more)
              /\ Cardinality(more) = IF l.device \in Abandoned THEN Cardinality(Abandoned)
                                     ELSE Cardinality(Abandoned) + 1
      BY <1>n, FS_AddElement
    <3> QED
      BY <1>n, <3>1
  <2> HIDE DEF more
  <2>7. Cardinality(Abandoned') <= Cardinality(more)
    BY <2>5, <2>6, FS_Subset
  <2> QED
    BY <1>c, <1>n, <2>4, <2>6, <2>7 DEF OrphanInv
\* A scan goes on, with nothing written.
<1>d. ASSUME UNCHANGED storeVars, NEW r, Becomes(s, r), l.pc \notin {"off", "status", "observe"},
             r.pc # "off", scans' = scans
      PROVE  OrphanInv'
  <2>1. Stored' = Stored /\ addresses' = addresses
    BY <1>d DEF storeVars, Stored
  <2> QED
    BY <1>b, <1>d, <2>1 DEF Late
<1>1. ASSUME NEW active \in BOOLEAN, StartScan(s, active) PROVE OrphanInv'
  <2> DEFINE r == [Idle EXCEPT !.pc = "start", !.active = active, !.at = now]
  <2>1. Becomes(s, r) /\ UNCHANGED storeVars /\ l.pc = "off" /\ scans' = scans + 1
    BY <1>0, <1>1, StartMove DEF StartScan
  <2>2. r.pc = "start"
    BY DEF Idle
  <2> HIDE DEF r
  <2>3. scan'[s] = r /\ \A t \in Scanners : t # s => scan'[t] = scan[t]
    BY <1>a, <2>1
  <2>4. Running' = Running \cup {s} /\ s \notin Running
    BY <2>1, <2>2, <2>3 DEF Running
  <2>5. Cardinality(Running') = Cardinality(Running) + 1
    BY <1>n, <2>4, FS_AddElement
  <2>6. Stored' = Stored /\ addresses' = addresses
    BY <2>1 DEF storeVars, Stored
  <2>7. \A t \in Scanners : scan[t].pc \in Late => scan'[t] = scan[t]
    BY <2>1, <2>3 DEF Late
  <2>8. Abandoned' \subseteq Abandoned
    BY <2>6, <2>7 DEF Abandoned
  <2>9. Cardinality(Abandoned') <= Cardinality(Abandoned)
    BY <1>n, <2>8, FS_Subset
  <2> QED
    BY <1>n, <2>1, <2>5, <2>9 DEF OrphanInv
<1>2. CASE ReadKnown(s)
  <2>1. PICK k \in KnownRows :
          Becomes(s, [scan[s] EXCEPT !.known = k, !.reading = 1,
                                     !.pc = IF k = <<>> THEN "gather" ELSE "host"])
    BY <1>0, <1>2, KnownMove
  <2> DEFINE p == IF k = <<>> THEN "gather" ELSE "host"
             r == [scan[s] EXCEPT !.known = k, !.reading = 1, !.pc = p]
  <2>2. Becomes(s, r) /\ UNCHANGED storeVars /\ scans' = scans /\ l.pc = "start"
    BY <1>2, <2>1 DEF ReadKnown
  <2>3. p # "off"
    OBVIOUS
  <2> HIDE DEF p
  <2>4. r.pc = p
    BY <1>0 DEF Scan
  <2> HIDE DEF r
  <2> QED
    BY <1>d, <2>2, <2>3, <2>4
<1>r. CASE ReadHostname(s) \/ ReadIp(s)
  <2>1. UNCHANGED storeVars /\ scans' = scans /\ l.pc \in {"host", "ip"}
    BY <1>r DEF ReadHostname, ReadIp
  <2>2. \E r : Becomes(s, r) /\ r.pc # "off"
    <3> DEFINE Host(h) == [scan[s] EXCEPT
                 !.known = [scan[s].known EXCEPT ![scan[s].reading].host = h], !.pc = "ip"]
               p == IF scan[s].reading = Len(scan[s].known) THEN "gather" ELSE "host"
               Ip(a) == [scan[s] EXCEPT
                 !.known = [scan[s].known EXCEPT ![scan[s].reading].ip = a],
                 !.reading = scan[s].reading + 1, !.pc = p]
    <3>1. CASE ReadHostname(s)
      <4>1. PICK h : Becomes(s, Host(h))
        BY <1>0, <3>1, HostnameMove
      <4>2. Host(h).pc = "ip"
        BY <1>0 DEF Scan
      <4> HIDE DEF Host
      <4> QED
        BY <4>1, <4>2
    <3>2. CASE ReadIp(s)
      <4>1. PICK a : Becomes(s, Ip(a))
        BY <1>0, <3>2, IpMove
      <4>2. p # "off"
        OBVIOUS
      <4> HIDE DEF p
      <4>3. Ip(a).pc = p
        BY <1>0 DEF Scan
      <4> HIDE DEF Ip
      <4> QED
        BY <4>1, <4>2, <4>3
    <3> QED
      BY <1>r, <3>1, <3>2
  <2> HIDE DEF l
  <2> QED
    BY <1>d, <2>1, <2>2
<1>3. ASSUME NEW o \in Observation, Hear(s, o) PROVE OrphanInv'
  <2> DEFINE match == MatchDevice(o, scan[s].known)
             d == match.device
             c == match.confidence
             p == IF d = None THEN "allot" ELSE "status"
             kept == IF c = "HIGH" THEN scan[s].kept \cup {[mac |-> o.mac, device |-> d]}
                     ELSE scan[s].kept
             r == [scan[s] EXCEPT !.obs = o, !.device = d, !.confidence = c, !.kept = kept,
                                  !.pc = p]
  <2>1. Becomes(s, r)
    BY <1>0, <1>3, HearMove
  <2>2. UNCHANGED storeVars /\ scans' = scans /\ l.pc = "gather"
    BY <1>3 DEF Hear
  <2>3. p \in {"allot", "status"}
    OBVIOUS
  <2> HIDE DEF match, d, c, p, kept
  <2>4. r.pc = p
    BY <1>0 DEF Scan
  <2> HIDE DEF r
  <2> QED
    BY <1>d, <2>1, <2>2, <2>3, <2>4
<1>4. CASE AllotId(s)
  <2> DEFINE d == NextDeviceId
             r == [scan[s] EXCEPT !.pc = "create", !.device = d]
  <2>1. Becomes(s, r) /\ UNCHANGED storeVars /\ l.pc = "allot" /\ scans' = scans
    BY <1>0, <1>4, AllotMove DEF AllotId
  <2> HIDE DEF d
  <2>2. r.pc = "create"
    BY <1>0 DEF Scan
  <2> HIDE DEF r
  <2> QED
    BY <1>d, <2>1, <2>2
<1>5. CASE CreateDevice(s)
  <2> DEFINE d == l.device
             mac == l.obs.mac
             k == Append(l.known, [device |-> d, mac |-> mac, host |-> l.obs.host, ip |-> None])
             kept == l.kept \cup {[mac |-> mac, device |-> d]}
             r == [scan[s] EXCEPT !.pc = "status", !.kept = kept, !.known = k]
  <2>1. Becomes(s, r)
    BY <1>0, <1>5, CreateMove
  <2>2. /\ l.pc = "create" /\ mac \in Macs \cup {None} /\ l.confidence \in Confidence
        /\ l.at \in Time /\ InsertDevice(d, mac, l.confidence, l.at) /\ scans' = scans
    BY <1>0, <1>5, Holds DEF CreateDevice, Scan
  <2> HIDE DEF k, kept
  <2>3. r.pc = "status" /\ r.device = d
    BY <1>0 DEF Scan
  <2> HIDE DEF r
  <2>4. Stored' = Stored \cup {d} /\ addresses' = addresses
    <3> DEFINE conf == l.confidence
               at == l.at
    <3>1. /\ mac \in Macs \cup {None} /\ conf \in Confidence /\ at \in Time
          /\ InsertDevice(d, mac, conf, at) /\ StoreTypeOK
      BY <1>0, <2>2
    <3> HIDE DEF conf, at, l, d, mac
    <3> QED
      BY <3>1, InsertDeviceFacts
  <2> HIDE DEF d
  <2> QED
    BY <1>b, <2>1, <2>2, <2>3, <2>4 DEF Late
<1>6. CASE ReadStatus(s)
  <2> DEFINE w == (devices[scan[s].device].status = "offline")
             r == [scan[s] EXCEPT !.pc = "observe", !.wasOffline = w]
  <2>1. Becomes(s, r) /\ UNCHANGED storeVars /\ l.pc = "status" /\ scans' = scans
    BY <1>0, <1>6, StatusMove DEF ReadStatus
  <2> HIDE DEF w
  <2>2. r.pc = "observe" /\ r.device = l.device
    BY <1>0 DEF Scan
  <2> HIDE DEF r
  <2>3. Stored' = Stored /\ addresses' = addresses
    BY <2>1 DEF storeVars, Stored
  <2> QED
    BY <1>b, <2>1, <2>2, <2>3 DEF Late
<1>7. CASE Observe(s)
  <2> DEFINE d == l.device
             w == l.wasOffline
             mac == l.obs.mac
             seen == l.seen \cup {l.device}
             heard == l.heard \cup {[ip |-> l.obs.ip, mac |-> l.obs.mac]}
             r == [scan[s] EXCEPT
                    !.pc = "gather", !.seen = seen, !.heard = heard,
                    !.obs = None, !.device = None, !.confidence = "LOW", !.wasOffline = FALSE]
  <2>1. Becomes(s, r)
    BY <1>0, <1>7, ObserveMove
  <2>2. l.pc = "observe" /\ d \in Stored /\ scans' = scans
    BY <1>7, Holds DEF Observe
  <2>3. Stored' = Stored /\ addresses \subseteq addresses' /\ Gets(d)
    <3> DEFINE ip == l.obs.ip
               host == l.obs.host
               at == l.at
               conf == l.confidence
    <3>1. /\ ip \in Ips /\ mac \in Macs \cup {None} /\ host \in Hosts \cup {None}
          /\ at \in Time /\ conf \in Confidence /\ w \in BOOLEAN
      BY <1>0, <2>2, Holds DEF Scan
    <3>2. RecordObservation(d, ip, mac, host, at, conf, w)
      BY <1>7 DEF Observe
    <3> HIDE DEF d, ip, mac, host, at, conf, w, l
    <3>3. Stored' = Stored
      BY <1>0, <2>2, <3>1, <3>2, RecordObservationFacts
    <3>4. addresses \subseteq addresses'
      BY <1>0, <2>2, <3>1, <3>2, RecordObservationFacts
    <3>5. \E a \in addresses' : a.device = d
      <4> DEFINE row == [device |-> d, ip |-> ip, mac |-> mac, host |-> host, at |-> at]
      <4>1. row \in addresses'
        BY <3>2 DEF RecordObservation
      <4>2. row.device = d
        OBVIOUS
      <4> HIDE DEF row
      <4> QED
        BY <4>1, <4>2
    <3> QED
      BY <3>3, <3>4, <3>5
  <2> HIDE DEF seen, heard
  <2>4. r.pc = "gather"
    BY <1>0 DEF Scan
  <2> HIDE DEF r, Gets
  <2> QED
    BY <1>b, <2>1, <2>2, <2>3, <2>4
<1>8. CASE ReadLeases(s)
  <2> DEFINE r == [scan[s] EXCEPT !.leases = TRUE]
  <2>1. Becomes(s, r) /\ UNCHANGED storeVars /\ l.pc = "gather" /\ scans' = scans
    BY <1>0, <1>8, LeasesMove DEF ReadLeases
  <2>2. r.pc = "gather"
    BY <1>0, <2>1 DEF Scan
  <2> HIDE DEF r
  <2> QED
    BY <1>d, <2>1, <2>2
<1>9. CASE EndOfLeases(s)
  <2> DEFINE p == IF scan[s].active THEN "dns" ELSE "sweep"
             r == [scan[s] EXCEPT !.pc = p, !.sweepAt = now]
  <2>1. Becomes(s, r) /\ UNCHANGED storeVars /\ l.pc = "gather" /\ scans' = scans
    BY <1>0, <1>9, EndMove DEF EndOfLeases
  <2>2. p \in {"dns", "sweep"}
    OBVIOUS
  <2> HIDE DEF p
  <2>3. r.pc = p
    BY <1>0 DEF Scan
  <2> HIDE DEF r
  <2> QED
    BY <1>d, <2>1, <2>2, <2>3
<1>10. ASSUME NEW chatting \in SUBSET Stored, ReadDns(s, chatting) PROVE OrphanInv'
  <2> DEFINE r == [scan[s] EXCEPT !.pc = "grace", !.present = scan[s].seen \cup chatting]
  <2>1. Becomes(s, r) /\ UNCHANGED storeVars /\ l.pc = "dns" /\ scans' = scans
    BY <1>0, <1>10, DnsMove DEF ReadDns
  <2>2. r.pc = "grace"
    BY <1>0 DEF Scan
  <2> HIDE DEF r
  <2> QED
    BY <1>d, <2>1, <2>2
<1>11. CASE ReadRecentlySeen(s)
  <2> DEFINE more == {d \in Stored : devices[d].last_seen + Grace >= scan[s].sweepAt}
             r == [scan[s] EXCEPT !.pc = "sweep", !.present = scan[s].present \cup more]
  <2>1. Becomes(s, r) /\ UNCHANGED storeVars /\ l.pc = "grace" /\ scans' = scans
    BY <1>0, <1>11, SeenMove DEF ReadRecentlySeen
  <2> HIDE DEF more
  <2>2. r.pc = "sweep"
    BY <1>0 DEF Scan
  <2> HIDE DEF r
  <2> QED
    BY <1>d, <2>1, <2>2
<1>12. CASE SelectGone(s)
  <2> DEFINE g == IF scan[s].active THEN Online \ scan[s].present
                  ELSE {d \in Online : devices[d].last_seen + Stale < scan[s].sweepAt}
             r == [scan[s] EXCEPT !.pc = "mark", !.gone = g]
  <2>1. Becomes(s, r) /\ UNCHANGED storeVars /\ l.pc = "sweep" /\ scans' = scans
    BY <1>0, <1>12, GoneMove DEF SelectGone
  <2> HIDE DEF g
  <2>2. r.pc = "mark"
    BY <1>0 DEF Scan
  <2> HIDE DEF r
  <2> QED
    BY <1>d, <2>1, <2>2
<1>13. CASE MarkGone(s)
  <2> DEFINE gone == l.gone
  <2>1. /\ Becomes(s, Idle) /\ gone \in SUBSET Stored /\ MarkOffline(gone)
        /\ l.pc = "mark" /\ scans' = scans
    BY <1>0, <1>13, EndsMove DEF MarkGone, LocalsOK
  <2> HIDE DEF gone
  <2>2. Stored' = Stored /\ addresses' = addresses
    BY <1>0, <2>1, MarkOfflineFacts
  <2> QED
    BY <1>c, <2>1, <2>2
<1>14. CASE IdTaken(s) \/ ScanDies(s)
  <2>1. Becomes(s, Idle) /\ UNCHANGED storeVars /\ l.pc # "off" /\ scans' = scans
    BY <1>0, <1>14, EndsMove DEF IdTaken, ScanDies
  <2>2. Stored' = Stored /\ addresses' = addresses
    BY <2>1 DEF storeVars, Stored
  <2> QED
    BY <1>c, <2>1, <2>2
<1> QED
  BY <1>1, <1>2, <1>r, <1>3, <1>4, <1>5, <1>6, <1>7, <1>8, <1>9, <1>10, <1>11, <1>12, <1>13, <1>14
  DEF ScanStep, Gather, Sweep

\* Between create_device and record_observation a scan owes its new device an
\* address: whatever the scans that overlap do, those that ended leave at most
\* one device without an address each.
THEOREM OrphansTheorem == Spec => []OrphansBounded
<1>1. Init => ScanInv /\ OrphanInv
  BY ScanInvInit, OrphanInit
<1>2. ScanInv /\ OrphanInv /\ [Next]_vars => (ScanInv /\ OrphanInv)'
  <2> SUFFICES ASSUME ScanInv, OrphanInv, [Next]_vars PROVE OrphanInv'
    BY ScanInvStep
  <2>0. ScanInv'
    BY ScanInvStep
  <2>1. CASE \E s \in Scanners :
               ScanStep(s) \/ \E chatting \in SUBSET Stored : ReadDns(s, chatting)
    BY <2>0, <2>1, OrphanStep
  <2>2. CASE (Tick /\ UNCHANGED scanVars) \/ UNCHANGED vars
    <3>1. UNCHANGED <<devices, addresses, scan, scans>>
      BY <2>2 DEF Tick, scanVars, vars, storeVars
    <3>2. Abandoned' = Abandoned /\ Running' = Running
      BY <3>1 DEF Abandoned, Running, Stored
    <3> QED
      BY <3>1, <3>2 DEF OrphanInv
  <2> QED
    BY <2>1, <2>2 DEF Next
<1>3. OrphanInv => OrphansBounded
  BY OrphansAreAbandoned
<1> QED
  BY <1>1, <1>2, <1>3, PTL DEF Spec
=============================================================================
