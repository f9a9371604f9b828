---------------------------- MODULE DeviceStore ----------------------------
(***************************************************************************)
(* The device tables of collector/device_discovery/storage.py, which the   *)
(* DNS ingester and every discovery scan write through connections of      *)
(* their own.  A SQLite commit is one step; what a caller read before its  *)
(* write is an argument of the operator, so that a caller decides how      *)
(* stale it may be.                                                        *)
(*                                                                         *)
(* Rows of device_addresses are a set: no query here orders by id, and     *)
(* ORDER BY observed_at DESC LIMIT 1 leaves a tie to the database.         *)
(***************************************************************************)
EXTENDS Naturals, FiniteSets, FiniteSetsExt, Sequences

CONSTANTS
  MaxDevices,   \* bound on the devices ever created
  Ips,          \* IPv4 addresses
  Macs,         \* normalised MAC addresses
  Hosts,        \* host names
  None,         \* SQL NULL
  MaxTime       \* bound on the clock

VARIABLES
  devices,      \* device id -> row, or None while the id is unused
  addresses,    \* rows of device_addresses
  events,       \* device id -> its device_status_events, oldest first
  now,          \* the wall clock, in units of 30 minutes
  raced         \* device id -> writes decided on a status it no longer had;
                \* bookkeeping for EventsBounded, no guard reads it

storeVars == <<devices, addresses, events, now, raced>>

DeviceIds == 1 .. MaxDevices
Status == {"online", "offline"}
Confidence == {"HIGH", "MEDIUM", "LOW"}
Time == 0 .. MaxTime

Device == [mac : Macs \cup {None}, status : Status, confidence : Confidence,
           first_seen : Time, last_seen : Time]

Address == [device : DeviceIds, ip : Ips, mac : Macs \cup {None},
            host : Hosts \cup {None}, at : Time]

ASSUME StoreAssumption ==
  /\ MaxDevices \in Nat
  /\ MaxTime \in Nat
  /\ None \notin Ips \cup Macs \cup Hosts \cup DeviceIds \cup Device

StoreTypeOK ==
  /\ devices \in [DeviceIds -> Device \cup {None}]
  /\ addresses \subseteq Address
  /\ events \in [DeviceIds -> Seq(Status)]
  /\ now \in Time
  /\ raced \in [DeviceIds -> Nat]

StoreInit ==
  /\ devices = [d \in DeviceIds |-> None]
  /\ addresses = {}
  /\ events = [d \in DeviceIds |-> <<>>]
  /\ now = 0
  /\ raced = [d \in DeviceIds |-> 0]

Stored == {d \in DeviceIds : devices[d] # None}
Online == {d \in Stored : devices[d].status = "online"}

\* The rows ORDER BY observed_at DESC LIMIT 1 may return.
Latest(rows) == {a \in rows : \A b \in rows : b.at <= a.at}

\* Mutant: the lookup never finds the address.
ResolveIpNever(ip) == {None}

\* storage.resolve_device_id_for_ip: the answers the query may give.
ResolveIp(ip) ==
  LET rows == Latest({a \in addresses : a.ip = ip})
  IN  IF rows = {} THEN {None} ELSE {a.device : a \in rows}

\* storage._last_hostname and storage._last_ip.
LastHostname(d) ==
  LET rows == Latest({a \in addresses : a.device = d /\ a.host # None})
  IN  IF rows = {} THEN {None} ELSE {a.host : a \in rows}

LastIp(d) ==
  LET rows == Latest({a \in addresses : a.device = d})
  IN  IF rows = {} THEN {None} ELSE {a.ip : a \in rows}

\* storage._next_device_id: one past the highest id in use.
NextDeviceId == 1 + Max(Stored \cup {0})

(***************************************************************************)
(* Writes, one operator per commit.                                        *)
(***************************************************************************)

\* The INSERT of create_device under an id read earlier; a taken id is a
\* primary key conflict and the operator is not enabled.
InsertDevice(d, mac, confidence, at) ==
  /\ d \in DeviceIds
  /\ devices[d] = None
  /\ devices' = [devices EXCEPT ![d] =
       [mac |-> mac, status |-> "online", confidence |-> confidence,
        first_seen |-> at, last_seen |-> at]]
  /\ UNCHANGED <<addresses, events, now, raced>>

\* The status this write was decided on is not the device's any more.
Raced(d, wasOffline) ==
  raced' = IF wasOffline = (devices[d].status = "offline") THEN raced
           ELSE [raced EXCEPT ![d] = @ + 1]

\* Mutant: no event for a device that comes back.
RecordObservationSilent(d, ip, mac, host, at, confidence, wasOffline) ==
  /\ addresses' = addresses \cup
       {[device |-> d, ip |-> ip, mac |-> mac, host |-> host, at |-> at]}
  /\ devices' = [devices EXCEPT
       ![d].last_seen = at, ![d].status = "online",
       ![d].mac = IF mac = None THEN @ ELSE mac, ![d].confidence = confidence]
  /\ Raced(d, wasOffline)
  /\ UNCHANGED <<events, now>>

\* Mutant: an address row only for a device that comes back.
RecordObservationOnChange(d, ip, mac, host, at, confidence, wasOffline) ==
  /\ addresses' = IF wasOffline
                  THEN addresses \cup {[device |-> d, ip |-> ip, mac |-> mac,
                                        host |-> host, at |-> at]}
                  ELSE addresses
  /\ devices' = [devices EXCEPT
       ![d].last_seen = at, ![d].status = "online",
       ![d].mac = IF mac = None THEN @ ELSE mac, ![d].confidence = confidence]
  /\ events' = IF wasOffline
               THEN [events EXCEPT ![d] = Append(@, "online")]
               ELSE events
  /\ Raced(d, wasOffline)
  /\ UNCHANGED now

\* record_observation, with the status its SELECT returned.
RecordObservation(d, ip, mac, host, at, confidence, wasOffline) ==
  /\ addresses' = addresses \cup
       {[device |-> d, ip |-> ip, mac |-> mac, host |-> host, at |-> at]}
  /\ devices' = [devices EXCEPT
       ![d].last_seen = at,
       ![d].status = "online",
       ![d].mac = IF mac = None THEN @ ELSE mac,
       ![d].confidence = confidence]
  /\ events' = IF wasOffline
               THEN [events EXCEPT ![d] = Append(@, "online")]
               ELSE events
  /\ Raced(d, wasOffline)
  /\ UNCHANGED now

\* The writes of mark_offline_except and mark_stale_offline, for the ids
\* their SELECT returned.
MarkOffline(gone) ==
  /\ devices' = [d \in DeviceIds |->
       IF d \in gone THEN [devices[d] EXCEPT !.status = "offline"]
       ELSE devices[d]]
  /\ events' = [d \in DeviceIds |->
       IF d \in gone THEN Append(events[d], "offline") ELSE events[d]]
  /\ raced' = [d \in DeviceIds |->
       IF d \in gone /\ devices[d].status = "offline" THEN raced[d] + 1
       ELSE raced[d]]
  /\ UNCHANGED <<addresses, now>>

\* The clock of the host.
Tick ==
  /\ now < MaxTime
  /\ now' = now + 1
  /\ UNCHANGED <<devices, addresses, events, raced>>

(***************************************************************************)
(* Properties.                                                             *)
(***************************************************************************)

\* A device starts online; Before(log, i) is the status event i changes.
Before(log, i) == IF i = 1 THEN "online" ELSE log[i - 1]

Repeats(log) == {i \in DOMAIN log : log[i] = Before(log, i)}

Tells(log, status) == Before(log, Len(log) + 1) = status

Slips(log, status) ==
  Cardinality(Repeats(log)) + (IF Tells(log, status) THEN 0 ELSE 1)

\* An event repeats the status before it, or the last one is not the device's
\* status, at most once for every write that was decided on a status another
\* process changed meanwhile; without such a race the events of a device
\* alternate and end with its status (record_observation, mark_offline_except
\* and mark_stale_offline read a status, then write and log).
EventsBounded ==
  \A d \in Stored : Slips(events[d], devices[d].status) <= raced[d]

=============================================================================
