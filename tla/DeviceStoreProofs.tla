------------------------- MODULE DeviceStoreProofs -------------------------
(***************************************************************************)
(* Facts about the device tables that the proofs of their users rest on.   *)
(***************************************************************************)
EXTENDS DeviceStore, FiniteSetTheorems, SequenceTheorems, TLAPS

\* A non-empty set of naturals with a bound has a largest element.
LEMMA MaxIsUpperBound ==
  ASSUME NEW M \in Nat, NEW S \in SUBSET (0 .. M), S # {}
  PROVE  Max(S) \in S /\ \A y \in S : Max(S) >= y
<1> DEFINE Above(x) == {y \in S : y > x}
           T == {Above(x) : x \in S}
           R == StrictSubsetOrdering(S)
<1>1. IsFiniteSet(S)
  BY FS_BoundedSetOfNaturals
<1>2. T \subseteq FiniteSubsetsOf(S) /\ T # {}
  <2>1. \A x \in S : Above(x) \in SUBSET S /\ IsFiniteSet(Above(x))
    BY <1>1, FS_Subset
  <2> QED
    BY <2>1 DEF FiniteSubsetsOf
<1>3. PICK t \in T : \A u \in T : ~ (<<u, t>> \in R)
  <2> HIDE DEF T, R
  <2>1. IsWellFoundedOn(R, FiniteSubsetsOf(S))
    BY FS_StrictSubsetOrderingWellFounded DEF R
  <2> QED
    BY <1>2, <2>1, WFMin
<1>4. PICK x \in S : t = Above(x)
  OBVIOUS
<1>5. \A y \in S : x >= y
  <2> SUFFICES ASSUME NEW y \in S, y > x PROVE FALSE
    BY \A z \in S : z \in Nat
  <2>1. Above(y) \subseteq Above(x) /\ y \in Above(x) /\ y \notin Above(y)
    <3>1. \A z \in S : z \in Nat
      OBVIOUS
    <3>2. \A z \in S : z > y => z > x
      BY <3>1
    <3>3. ~ (y > y)
      BY <3>1
    <3> QED
      BY <3>2, <3>3
  <2>2. Above(y) \in T /\ Above(x) \in SUBSET S /\ Above(y) \in SUBSET S
    OBVIOUS
  <2> HIDE DEF Above, T
  <2> QED
    BY <1>3, <1>4, <2>1, <2>2 DEF StrictSubsetOrdering
<1> QED
  BY <1>5 DEF Max

\* _next_device_id never returns an id that is in use when it is read.
LEMMA NextDeviceIdFresh ==
  ASSUME StoreTypeOK, NextDeviceId \in DeviceIds
  PROVE  devices[NextDeviceId] = None
<1>1. Stored \cup {0} \in SUBSET (0 .. MaxDevices) /\ MaxDevices \in Nat
  BY StoreAssumption DEF Stored, DeviceIds
<1>2. \A y \in Stored \cup {0} : Max(Stored \cup {0}) >= y
  BY <1>1, MaxIsUpperBound
<1>3. Max(Stored \cup {0}) \in Nat
  <2>1. Stored \cup {0} # {}
    OBVIOUS
  <2>2. Max(Stored \cup {0}) \in Stored \cup {0}
    BY <1>1, <2>1, MaxIsUpperBound
  <2> QED
    BY <1>1, <2>2
<1>4. NextDeviceId \notin Stored
  <2> DEFINE m == Max(Stored \cup {0})
  <2>1. NextDeviceId = 1 + m
    BY DEF NextDeviceId
  <2>2. m \in Nat /\ \A d \in Stored : m >= d
    BY <1>2, <1>3
  <2> HIDE DEF m
  <2> QED
    BY <2>1, <2>2
<1> QED
  BY <1>4 DEF Stored

\* A non-empty set of naturals below a bound has a smallest element.
LEMMA MinIsMember ==
  ASSUME NEW M \in Nat, NEW S \in SUBSET (0 .. M), S # {}
  PROVE  Min(S) \in S /\ \A y \in S : Min(S) <= y
<1> DEFINE Below(x) == {y \in S : y < x}
           T == {Below(x) : x \in S}
           R == StrictSubsetOrdering(S)
<1>1. IsFiniteSet(S)
  BY FS_BoundedSetOfNaturals
<1>2. T \subseteq FiniteSubsetsOf(S) /\ T # {}
  <2>1. \A x \in S : Below(x) \in SUBSET S /\ IsFiniteSet(Below(x))
    BY <1>1, FS_Subset
  <2> QED
    BY <2>1 DEF FiniteSubsetsOf
<1>3. PICK t \in T : \A u \in T : ~ (<<u, t>> \in R)
  <2> HIDE DEF T, R
  <2>1. IsWellFoundedOn(R, FiniteSubsetsOf(S))
    BY FS_StrictSubsetOrderingWellFounded DEF R
  <2> QED
    BY <1>2, <2>1, WFMin
<1>4. PICK x \in S : t = Below(x)
  OBVIOUS
<1>5. \A y \in S : x <= y
  <2>0. \A z \in S : z \in Nat
    OBVIOUS
  <2> SUFFICES ASSUME NEW y \in S, y < x PROVE FALSE
    BY <2>0
  <2>1. Below(y) \subseteq Below(x) /\ y \in Below(x) /\ y \notin Below(y)
    <3>1. \A z \in S : z < y => z < x
      BY <2>0
    <3>2. ~ (y < y)
      BY <2>0
    <3> QED
      BY <3>1, <3>2
  <2>2. Below(y) \in T /\ Below(x) \in SUBSET S /\ Below(y) \in SUBSET S
    OBVIOUS
  <2> HIDE DEF Below, T
  <2> QED
    BY <1>3, <1>4, <2>1, <2>2 DEF StrictSubsetOrdering
<1> QED
  BY <1>5 DEF Min

\* What _next_device_id returns: above every id in use.
LEMMA NextDeviceIdAbove ==
  ASSUME StoreTypeOK
  PROVE  NextDeviceId \in Nat \ {0} /\ \A d \in Stored : d < NextDeviceId
<1>1. Stored \cup {0} \in SUBSET (0 .. MaxDevices) /\ MaxDevices \in Nat
  BY StoreAssumption DEF Stored, DeviceIds
<1> DEFINE m == Max(Stored \cup {0})
<1>2. m \in Stored \cup {0} /\ \A y \in Stored \cup {0} : m >= y
  <2>1. Stored \cup {0} # {}
    OBVIOUS
  <2> QED
    BY <1>1, <2>1, MaxIsUpperBound
<1>3. m \in Nat /\ \A d \in Stored : d \in Nat
  BY <1>1, <1>2
<1>4. NextDeviceId = 1 + m
  BY DEF NextDeviceId
<1> HIDE DEF m
<1> QED
  BY <1>2, <1>3, <1>4

\* What the writes do to the tables.
LEMMA InsertDeviceFacts ==
  ASSUME StoreTypeOK, NEW d, NEW mac \in Macs \cup {None}, NEW confidence \in Confidence,
         NEW at \in Time, InsertDevice(d, mac, confidence, at)
  PROVE  /\ StoreTypeOK' /\ Stored' = Stored \cup {d} /\ d \in DeviceIds /\ d \notin Stored
         /\ devices'[d].status = "online" /\ devices'[d].mac = mac
         /\ \A e \in DeviceIds : e # d => devices'[e] = devices[e]
         /\ UNCHANGED <<addresses, events, now, raced>>
<1> DEFINE row == [mac |-> mac, status |-> "online", confidence |-> confidence,
                   first_seen |-> at, last_seen |-> at]
<1>1. row \in Device /\ row # None /\ row.status = "online" /\ row.mac = mac
  BY StoreAssumption DEF Device, Status, Confidence
<1>2. /\ d \in DeviceIds /\ devices[d] = None /\ devices' = [devices EXCEPT ![d] = row]
      /\ UNCHANGED <<addresses, events, now, raced>>
  BY DEF InsertDevice
<1> HIDE DEF row
<1>3. StoreTypeOK'
  BY <1>1, <1>2 DEF StoreTypeOK
<1>4. devices'[d] = row /\ \A e \in DeviceIds : e # d => devices'[e] = devices[e]
  BY <1>2 DEF StoreTypeOK
<1>5. Stored' = Stored \cup {d} /\ d \notin Stored
  BY <1>1, <1>2, <1>4 DEF Stored
<1> QED
  BY <1>1, <1>2, <1>3, <1>4, <1>5 DEF row

LEMMA RecordObservationFacts ==
  ASSUME StoreTypeOK, NEW d \in Stored, NEW ip \in Ips, NEW mac \in Macs \cup {None},
         NEW host \in Hosts \cup {None}, NEW at \in Time, NEW confidence \in Confidence,
         NEW wasOffline \in BOOLEAN,
         RecordObservation(d, ip, mac, host, at, confidence, wasOffline)
  PROVE  /\ StoreTypeOK' /\ Stored' = Stored
         /\ addresses \subseteq addresses' /\ (\E a \in addresses' : a.device = d)
         /\ \A a \in addresses' : a \in addresses \/ (a.device = d /\ a.ip = ip /\ a.mac = mac)
         /\ devices'[d].status = "online" /\ devices'[d].last_seen = at
         /\ devices'[d].mac = IF mac = None THEN devices[d].mac ELSE mac
         /\ \A e \in DeviceIds : e # d => devices'[e] = devices[e]
         /\ events'[d] = IF wasOffline THEN Append(events[d], "online") ELSE events[d]
         /\ \A e \in DeviceIds : e # d => events'[e] = events[e]
         /\ raced'[d] = IF wasOffline = (devices[d].status = "offline")
                        THEN raced[d] ELSE raced[d] + 1
         /\ \A e \in DeviceIds : e # d => raced'[e] = raced[e]
         /\ UNCHANGED now
<1> DEFINE row == [devices[d] EXCEPT !.last_seen = at, !.status = "online",
                     !.mac = IF mac = None THEN @ ELSE mac, !.confidence = confidence]
           new == [device |-> d, ip |-> ip, mac |-> mac, host |-> host, at |-> at]
<1>1. d \in DeviceIds /\ devices[d] \in Device
  BY DEF Stored, StoreTypeOK
<1>2. /\ row \in Device /\ row # None /\ row.status = "online" /\ row.last_seen = at
      /\ row.mac = IF mac = None THEN devices[d].mac ELSE mac
  BY <1>1, StoreAssumption DEF Device, Status
<1>3. /\ devices' = [devices EXCEPT ![d] = row] /\ addresses' = addresses \cup {new}
      /\ events' = IF wasOffline THEN [events EXCEPT ![d] = Append(events[d], "online")] ELSE events
      /\ UNCHANGED now
  BY <1>1 DEF RecordObservation, StoreTypeOK, Device
<1>4. new \in Address /\ new.device = d /\ new.ip = ip /\ new.mac = mac
  BY <1>1 DEF Address
<1>5. Append(events[d], "online") \in Seq(Status)
  <2>1. events[d] \in Seq(Status) /\ "online" \in Status
    BY <1>1 DEF StoreTypeOK, Status
  <2> QED
    BY <2>1
<1> HIDE DEF row, new
<1>6. devices'[d] = row /\ \A e \in DeviceIds : e # d => devices'[e] = devices[e]
  BY <1>1, <1>3 DEF StoreTypeOK
<1>7. /\ events' \in [DeviceIds -> Seq(Status)]
      /\ events'[d] = IF wasOffline THEN Append(events[d], "online") ELSE events[d]
      /\ \A e \in DeviceIds : e # d => events'[e] = events[e]
  BY <1>1, <1>3, <1>5 DEF StoreTypeOK
<1>8. /\ raced' \in [DeviceIds -> Nat]
      /\ raced'[d] = IF wasOffline = (devices[d].status = "offline")
                     THEN raced[d] ELSE raced[d] + 1
      /\ \A e \in DeviceIds : e # d => raced'[e] = raced[e]
  <2>1. raced \in [DeviceIds -> Nat] /\ Raced(d, wasOffline)
    BY DEF StoreTypeOK, RecordObservation
  <2> QED
    BY <1>1, <2>1 DEF Raced
<1>9. StoreTypeOK'
  BY <1>2, <1>3, <1>4, <1>7, <1>8 DEF StoreTypeOK
<1>10. Stored' = Stored
  BY <1>2, <1>6 DEF Stored
<1> QED
  BY <1>2, <1>3, <1>4, <1>6, <1>7, <1>8, <1>9, <1>10

LEMMA MarkOfflineFacts ==
  ASSUME StoreTypeOK, NEW gone \in SUBSET Stored, MarkOffline(gone)
  PROVE  /\ StoreTypeOK' /\ Stored' = Stored
         /\ \A d \in gone : /\ devices'[d] = [devices[d] EXCEPT !.status = "offline"]
                            /\ devices'[d].status = "offline" /\ devices'[d].mac = devices[d].mac
                            /\ events'[d] = Append(events[d], "offline")
                            /\ raced'[d] = IF devices[d].status = "offline"
                                           THEN raced[d] + 1 ELSE raced[d]
         /\ \A d \in DeviceIds \ gone : /\ devices'[d] = devices[d]
                                        /\ events'[d] = events[d]
                                        /\ raced'[d] = raced[d]
         /\ UNCHANGED <<addresses, now>>
<1>1. \A d \in gone : d \in DeviceIds /\ devices[d] \in Device
  BY DEF Stored, StoreTypeOK
<1>2. /\ \A d \in gone : /\ devices'[d] = [devices[d] EXCEPT !.status = "offline"]
                         /\ events'[d] = Append(events[d], "offline")
      /\ \A d \in DeviceIds \ gone : devices'[d] = devices[d] /\ events'[d] = events[d]
      /\ UNCHANGED <<addresses, now>>
  BY <1>1 DEF MarkOffline
<1>3. ASSUME NEW d \in gone
      PROVE  /\ devices'[d] \in Device /\ devices'[d] # None
             /\ devices'[d].status = "offline" /\ devices'[d].mac = devices[d].mac
  <2> DEFINE r == devices[d]
  <2>1. r \in Device /\ devices'[d] = [r EXCEPT !.status = "offline"]
    BY <1>1, <1>2
  <2> HIDE DEF r
  <2>2. devices'[d] \in Device /\ devices'[d].status = "offline" /\ devices'[d].mac = r.mac
    BY <2>1 DEF Device, Status
  <2> QED
    BY <2>2, StoreAssumption DEF r
<1>4. \A d \in gone : events'[d] \in Seq(Status)
  <2>1. \A d \in gone : events[d] \in Seq(Status)
    BY <1>1 DEF StoreTypeOK
  <2>2. \A e \in Seq(Status) : Append(e, "offline") \in Seq(Status)
    BY AppendProperties DEF Status
  <2> QED
    BY <1>2, <2>1, <2>2
<1>5. devices' \in [DeviceIds -> Device \cup {None}]
  <2>1. devices' = [d \in DeviceIds |-> devices'[d]]
    BY DEF MarkOffline
  <2>2. \A d \in DeviceIds : devices'[d] \in Device \cup {None}
    BY <1>2, <1>3 DEF StoreTypeOK
  <2> QED
    BY <2>1, <2>2
<1>6. events' \in [DeviceIds -> Seq(Status)]
  <2>1. events' = [d \in DeviceIds |-> events'[d]]
    BY DEF MarkOffline
  <2>2. \A d \in DeviceIds : events'[d] \in Seq(Status)
    BY <1>2, <1>4 DEF StoreTypeOK
  <2> QED
    BY <2>1, <2>2
<1>7. Stored' = Stored
  BY <1>1, <1>2, <1>3 DEF Stored
<1>8. /\ raced' \in [DeviceIds -> Nat]
      /\ \A d \in gone : raced'[d] = IF devices[d].status = "offline"
                                     THEN raced[d] + 1 ELSE raced[d]
      /\ \A d \in DeviceIds \ gone : raced'[d] = raced[d]
  BY <1>1 DEF MarkOffline, StoreTypeOK
<1>9. StoreTypeOK'
  BY <1>2, <1>5, <1>6, <1>8 DEF StoreTypeOK
<1> QED
  BY <1>2, <1>3, <1>7, <1>8, <1>9

\* ORDER BY observed_at DESC LIMIT 1 of a query that matches a row gives one.
LEMMA LatestExists ==
  ASSUME NEW found \in SUBSET Address, found # {}
  PROVE  Latest(found) # {} /\ Latest(found) \subseteq found
<1> DEFINE times == {a.at : a \in found}
<1>1. MaxTime \in Nat /\ times \in SUBSET (0 .. MaxTime) /\ times # {}
  BY StoreAssumption DEF Address, Time
<1>2. Max(times) \in times /\ \A t \in times : Max(times) >= t
  <2> HIDE DEF times
  <2> QED
    BY <1>1, MaxIsUpperBound
<1>3. PICK a \in found : a.at = Max(times)
  BY <1>2
<1>4. \A b \in found : b.at <= a.at
  <2> SUFFICES ASSUME NEW b \in found PROVE b.at <= a.at
    OBVIOUS
  <2>1. b.at \in times /\ a.at \in times
    OBVIOUS
  <2>2. b.at \in Nat /\ a.at \in Nat
    BY <1>1, <2>1
  <2> QED
    BY <1>2, <1>3, <2>1, <2>2
<1> QED
  BY <1>4 DEF Latest

\* Whom resolve_device_id_for_ip names: nobody if the address has no row, else
\* the device of one of its rows.
LEMMA ResolveIpFacts ==
  ASSUME StoreTypeOK, NEW ip, NEW d \in ResolveIp(ip)
  PROVE  \/ d = None /\ \A a \in addresses : a.ip # ip
         \/ d \in DeviceIds /\ d # None /\ \E a \in addresses : a.ip = ip /\ a.device = d
<1> DEFINE found == {a \in addresses : a.ip = ip}
<1>1. found \in SUBSET Address
  BY DEF StoreTypeOK
<1>2. d \in IF Latest(found) = {} THEN {None} ELSE {a.device : a \in Latest(found)}
  BY DEF ResolveIp
<1>3. CASE found = {}
  <2>1. Latest(found) = {}
    BY <1>3 DEF Latest
  <2> QED
    BY <1>2, <1>3, <2>1
<1>4. CASE found # {}
  <2>1. Latest(found) # {} /\ Latest(found) \subseteq found
    BY <1>1, <1>4, LatestExists
  <2>2. PICK a \in found : d = a.device
    BY <1>2, <2>1
  <2>3. a.device \in DeviceIds
    BY <1>1 DEF Address
  <2> QED
    BY <2>2, <2>3, StoreAssumption
<1> QED
  BY <1>3, <1>4

LEMMA FiniteDevices ==
  ASSUME NEW S \in SUBSET DeviceIds
  PROVE  IsFiniteSet(S) /\ Cardinality(S) \in Nat
<1>1. IsFiniteSet(DeviceIds)
  BY FS_Interval, StoreAssumption DEF DeviceIds
<1>2. IsFiniteSet(S)
  BY <1>1, FS_Subset
<1> QED
  BY <1>2, FS_CardinalityType

(***************************************************************************)
(* The events: what each write does to them.                               *)
(***************************************************************************)

\* Logging a status repeats the one before it exactly when the log told it.
LEMMA RepeatsAppend ==
  ASSUME NEW log \in Seq(Status), NEW status \in Status
  PROVE  /\ Repeats(Append(log, status))
              = Repeats(log) \cup (IF Tells(log, status) THEN {Len(log) + 1} ELSE {})
         /\ Tells(Append(log, status), status)
         /\ IsFiniteSet(Repeats(log)) /\ Len(log) + 1 \notin Repeats(log)
<1> DEFINE n == Len(log)
           more == Append(log, status)
<1>1. /\ n \in Nat /\ DOMAIN log = 1 .. n /\ DOMAIN more = 1 .. n + 1 /\ Len(more) = n + 1
      /\ more[n + 1] = status /\ \A i \in 1 .. n : more[i] = log[i]
  BY AppendProperties
<1>2. Tells(log, status) <=> Before(log, n + 1) = status
  BY DEF Tells
<1>3. Before(more, n + 2) = status
  BY <1>1 DEF Before
<1>4. \A i \in 1 .. n + 1 : Before(more, i) = Before(log, i)
  BY <1>1 DEF Before
<1>5. Tells(more, status)
  <2>1. Len(more) + 1 = n + 2
    BY <1>1
  <2> QED
    BY <1>3, <2>1 DEF Tells
<1>6. \A i : i \in Repeats(more) <=> i \in 1 .. n + 1 /\ more[i] = Before(more, i)
  BY <1>1 DEF Repeats
<1>7. \A i : i \in Repeats(log) <=> i \in 1 .. n /\ log[i] = Before(log, i)
  BY <1>1 DEF Repeats
<1> HIDE DEF n, more
<1>8. \A i \in 1 .. n : i \in Repeats(more) <=> i \in Repeats(log)
  BY <1>1, <1>4, <1>6, <1>7
<1>9. n + 1 \in Repeats(more) <=> Tells(log, status)
  BY <1>1, <1>2, <1>4, <1>6
<1>10. n + 1 \notin Repeats(log) /\ n + 1 \notin 1 .. n
  BY <1>1, <1>7
<1>11. 1 .. n + 1 = (1 .. n) \cup {n + 1}
  BY <1>1
<1>12. Repeats(more) = Repeats(log) \cup (IF Tells(log, status) THEN {n + 1} ELSE {})
  BY <1>6, <1>7, <1>8, <1>9, <1>11
<1>13. IsFiniteSet(Repeats(log))
  <2>1. IsFiniteSet(1 .. n)
    BY <1>1, FS_Interval
  <2>2. Repeats(log) \subseteq 1 .. n
    BY <1>7
  <2> QED
    BY <2>1, <2>2, FS_Subset
<1> QED
  BY <1>5, <1>10, <1>12, <1>13 DEF n, more

\* A write that logs the other status, or keeps the one the device has, adds
\* no slip; one that logs the status it already had, or changes it in
\* silence, adds one at most.
LEMMA SlipsBound ==
  ASSUME NEW log \in Seq(Status), NEW old \in Status, NEW status \in Status,
         NEW r \in Nat, Slips(log, old) <= r
  PROVE  /\ Slips(Append(log, status), status) <= (IF old = status THEN r + 1 ELSE r)
         /\ Slips(log, status) <= (IF old = status THEN r ELSE r + 1)
<1> DEFINE c == Cardinality(Repeats(log))
           more == Append(log, status)
<1>1. c \in Nat
  BY RepeatsAppend, FS_CardinalityType
<1>2. Tells(log, old) /\ Tells(log, status) => old = status
  BY DEF Tells
<1>3. ~ Tells(log, old) /\ ~ Tells(log, status) => old = status
  <2>1. Before(log, Len(log) + 1) \in Status
    BY DEF Before, Status
  <2> QED
    BY <2>1 DEF Tells, Status
<1>4. Cardinality(Repeats(more)) = c + (IF Tells(log, status) THEN 1 ELSE 0)
  <2> DEFINE rep == Repeats(log)
             n == Len(log) + 1
  <2>1. /\ IsFiniteSet(rep) /\ n \notin rep /\ c = Cardinality(rep)
        /\ Repeats(more) = rep \cup (IF Tells(log, status) THEN {n} ELSE {})
    BY RepeatsAppend
  <2> HIDE DEF rep, n, c, more
  <2>2. Cardinality(rep \cup {n}) = c + 1
    BY <2>1, FS_AddElement
  <2>3. CASE Tells(log, status)
    BY <2>1, <2>2, <2>3
  <2>4. CASE ~ Tells(log, status)
    BY <1>1, <2>1, <2>4
  <2> QED
    BY <2>3, <2>4
<1>5. Slips(more, status) = c + (IF Tells(log, status) THEN 1 ELSE 0)
  BY <1>1, <1>4, RepeatsAppend DEF Slips
<1>6. /\ Slips(log, status) = c + (IF Tells(log, status) THEN 0 ELSE 1)
      /\ Slips(log, old) = c + (IF Tells(log, old) THEN 0 ELSE 1)
  BY DEF Slips
<1> HIDE DEF c, more
<1>7. c + (IF Tells(log, old) THEN 0 ELSE 1) <= r
  BY <1>6
<1> QED
  BY <1>1, <1>2, <1>3, <1>5, <1>6, <1>7 DEF more

\* What every write keeps: a device yet to be created has no events, and those
\* of the others slip only where a write was raced.
EventsInv ==
  /\ \A d \in DeviceIds : d \notin Stored => events[d] = <<>>
  /\ EventsBounded

LEMMA EventsInit == StoreInit => EventsInv
BY DEF StoreInit, EventsInv, EventsBounded, Stored

LEMMA InsertKeepsEvents ==
  ASSUME StoreTypeOK, EventsInv, NEW d, NEW mac \in Macs \cup {None},
         NEW confidence \in Confidence, NEW at \in Time,
         InsertDevice(d, mac, confidence, at)
  PROVE  EventsInv'
<1>1. /\ Stored' = Stored \cup {d} /\ d \in DeviceIds /\ d \notin Stored
      /\ devices'[d].status = "online"
      /\ \A e \in DeviceIds : e # d => devices'[e] = devices[e]
      /\ UNCHANGED <<events, raced>>
  BY InsertDeviceFacts
<1>2. events[d] = <<>> /\ raced[d] \in Nat
  BY <1>1 DEF EventsInv, StoreTypeOK
<1>3. Slips(<<>>, "online") = 0
  <2>1. Repeats(<<>>) = {} /\ Tells(<<>>, "online")
    BY DEF Repeats, Tells, Before
  <2>2. Cardinality(Repeats(<<>>)) = 0
    BY <2>1, FS_EmptySet
  <2> QED
    BY <2>1, <2>2 DEF Slips
<1>4. \A e \in Stored' : Slips(events'[e], devices'[e].status) <= raced'[e]
  <2> SUFFICES ASSUME NEW e \in Stored' PROVE Slips(events'[e], devices'[e].status) <= raced'[e]
    OBVIOUS
  <2>1. CASE e = d
    BY <1>1, <1>2, <1>3, <2>1
  <2>2. CASE e # d
    <3>1. e \in Stored /\ e \in DeviceIds
      BY <1>1, <2>2 DEF Stored
    <3> QED
      BY <1>1, <2>2, <3>1 DEF EventsInv, EventsBounded
  <2> QED
    BY <2>1, <2>2
<1>5. \A e \in DeviceIds : e \notin Stored' => events'[e] = <<>>
  BY <1>1 DEF EventsInv
<1> QED
  BY <1>4, <1>5 DEF EventsInv, EventsBounded

LEMMA RecordKeepsEvents ==
  ASSUME StoreTypeOK, EventsInv, NEW d \in Stored, NEW ip \in Ips,
         NEW mac \in Macs \cup {None}, NEW host \in Hosts \cup {None},
         NEW at \in Time, NEW confidence \in Confidence, NEW wasOffline \in BOOLEAN,
         RecordObservation(d, ip, mac, host, at, confidence, wasOffline)
  PROVE  EventsInv'
<1>1. /\ Stored' = Stored /\ devices'[d].status = "online"
      /\ \A e \in DeviceIds : e # d => /\ devices'[e] = devices[e]
                                      /\ events'[e] = events[e]
                                      /\ raced'[e] = raced[e]
      /\ events'[d] = IF wasOffline THEN Append(events[d], "online") ELSE events[d]
      /\ raced'[d] = IF wasOffline = (devices[d].status = "offline")
                     THEN raced[d] ELSE raced[d] + 1
  BY RecordObservationFacts
<1>2. \A e \in Stored : e \in DeviceIds
  BY DEF Stored
<1> DEFINE log == events[d]
           old == devices[d].status
           r == raced[d]
<1>3. log \in Seq(Status) /\ old \in Status /\ r \in Nat
  <2>1. d \in DeviceIds /\ devices[d] \in Device
    BY DEF Stored, StoreTypeOK
  <2> QED
    BY <2>1 DEF StoreTypeOK, Device
<1>4. Slips(log, old) <= r
  BY DEF EventsInv, EventsBounded
<1>5. /\ events'[d] = IF wasOffline THEN Append(log, "online") ELSE log
      /\ raced'[d] = IF wasOffline = (old = "offline") THEN r ELSE r + 1
  BY <1>1
<1> HIDE DEF log, old, r
<1>6. Slips(events'[d], "online") <= raced'[d]
  <2>1. "online" \in Status /\ (old = "offline" <=> old # "online")
    BY <1>3 DEF Status
  <2>2. /\ Slips(Append(log, "online"), "online") <= (IF old = "online" THEN r + 1 ELSE r)
        /\ Slips(log, "online") <= (IF old = "online" THEN r ELSE r + 1)
    BY <1>3, <1>4, <2>1, SlipsBound
  <2>3. CASE wasOffline /\ old = "online"
    BY <1>5, <2>1, <2>2, <2>3
  <2>4. CASE wasOffline /\ old # "online"
    BY <1>5, <2>1, <2>2, <2>4
  <2>5. CASE ~ wasOffline /\ old = "online"
    BY <1>5, <2>1, <2>2, <2>5
  <2>6. CASE ~ wasOffline /\ old # "online"
    BY <1>5, <2>1, <2>2, <2>6
  <2> QED
    BY <2>3, <2>4, <2>5, <2>6
<1>7. \A e \in Stored' : Slips(events'[e], devices'[e].status) <= raced'[e]
  <2> SUFFICES ASSUME NEW e \in Stored' PROVE Slips(events'[e], devices'[e].status) <= raced'[e]
    OBVIOUS
  <2>1. CASE e = d
    BY <1>1, <1>6, <2>1
  <2>2. CASE e # d
    BY <1>1, <1>2, <2>2 DEF EventsInv, EventsBounded
  <2> QED
    BY <2>1, <2>2
<1>8. \A e \in DeviceIds : e \notin Stored' => events'[e] = <<>>
  BY <1>1 DEF EventsInv
<1> QED
  BY <1>7, <1>8 DEF EventsInv, EventsBounded

LEMMA MarkKeepsEvents ==
  ASSUME StoreTypeOK, EventsInv, NEW gone \in SUBSET Stored, MarkOffline(gone)
  PROVE  EventsInv'
<1>1. /\ Stored' = Stored
      /\ \A d \in gone : /\ devices'[d].status = "offline"
                         /\ events'[d] = Append(events[d], "offline")
                         /\ raced'[d] = IF devices[d].status = "offline"
                                        THEN raced[d] + 1 ELSE raced[d]
      /\ \A d \in DeviceIds \ gone : /\ devices'[d] = devices[d]
                                     /\ events'[d] = events[d]
                                     /\ raced'[d] = raced[d]
  BY MarkOfflineFacts
<1>2. \A e \in Stored : e \in DeviceIds
  BY DEF Stored
<1>3. ASSUME NEW d \in gone PROVE Slips(events'[d], devices'[d].status) <= raced'[d]
  <2> DEFINE log == events[d]
             old == devices[d].status
             r == raced[d]
  <2>1. log \in Seq(Status) /\ old \in Status /\ r \in Nat
    <3>1. d \in DeviceIds /\ devices[d] \in Device
      BY DEF Stored, StoreTypeOK
    <3> QED
      BY <3>1 DEF StoreTypeOK, Device
  <2>2. Slips(log, old) <= r
    BY DEF EventsInv, EventsBounded
  <2>3. /\ events'[d] = Append(log, "offline") /\ devices'[d].status = "offline"
        /\ raced'[d] = IF old = "offline" THEN r + 1 ELSE r
    BY <1>1
  <2> HIDE DEF log, old, r
  <2>4. "offline" \in Status
    BY DEF Status
  <2>5. Slips(Append(log, "offline"), "offline") <= (IF old = "offline" THEN r + 1 ELSE r)
    BY <2>1, <2>2, <2>4, SlipsBound
  <2> QED
    BY <2>3, <2>5
<1>4. \A e \in Stored' : Slips(events'[e], devices'[e].status) <= raced'[e]
  BY <1>1, <1>2, <1>3 DEF EventsInv, EventsBounded
<1>5. \A e \in DeviceIds : e \notin Stored' => events'[e] = <<>>
  BY <1>1 DEF EventsInv
<1> QED
  BY <1>4, <1>5 DEF EventsInv, EventsBounded

=============================================================================
