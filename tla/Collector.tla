----------------------------- MODULE Collector -----------------------------
(***************************************************************************)
(* The collector's processes on one database: the DNS ingester daemon and  *)
(* the discovery scans.  They share the device tables and the clock and    *)
(* nothing else; a scan also reads the rows the ingester stores.           *)
(***************************************************************************)
EXTENDS DeviceStore

CONSTANTS
  Domains, Candidates, MaxQueries, MaxReplies, Faults, MaxFaults,
  Scanners, GenericHosts, DnsWindow, Grace, Stale, MaxScans, MaxHeard

VARIABLES
  log, issued, replied, pos, handle, pending, pc, stopping, completed,
  device, wasOffline, rows, dropped, faults, rotated,
  scan, scans

Ingest == INSTANCE DnsIngest
Scans == INSTANCE Discovery

ASSUME CollectorAssumption ==
  Ingest!IngestAssumption /\ Scans!DiscoveryAssumption

ingestVars == <<log, issued, replied, pos, handle, pending, pc, stopping,
                completed, device, wasOffline, rows, dropped, faults,
                rotated>>
scanVars == <<scan, scans>>
vars == <<storeVars, ingestVars, scanVars>>

TypeOK == Ingest!TypeOK /\ Scans!TypeOK

Init == StoreInit /\ Ingest!IngestInit /\ Scans!ScanInit

\* storage.get_devices_with_recent_dns
DevicesWithRecentDns(since) ==
  {rows[i].device : i \in {j \in DOMAIN rows : rows[j].at >= since}} \ {None}

Asking(s) == DevicesWithRecentDns(
  IF scan[s].sweepAt < DnsWindow THEN 0 ELSE scan[s].sweepAt - DnsWindow)

Ingesting == Ingest!IngestNext /\ UNCHANGED scanVars

\* A scan inserted a device under the id the ingester was about to use.
LosesDeviceId == Ingest!PlaceholderConflict /\ UNCHANGED scanVars

Scanning ==
  /\ \E s \in Scanners : Scans!ScanStep(s) \/ Scans!ReadDns(s, Asking(s))
  /\ UNCHANGED ingestVars

Next ==
  \/ Ingesting
  \/ LosesDeviceId
  \/ Scanning
  \/ Tick /\ UNCHANGED <<ingestVars, scanVars>>

Spec == Init /\ [][Next]_vars

(***************************************************************************)
(* Properties.                                                             *)
(***************************************************************************)

\* A query is attributed to a device recorded at the address that asked, and
\* one from a LAN address is always attributed, whatever scans store
\* meanwhile (resolve_device_id_for_ip; "A wrong device is worse than an
\* honest unknown").
RowsAttributed ==
  \A i \in DOMAIN rows :
    /\ rows[i].device # None =>
         \E a \in addresses : a.device = rows[i].device /\ a.ip = rows[i].ip
    /\ rows[i].ip \in Candidates => rows[i].device # None

\* The comment on OFFLINE_GRACE_MINUTES: "A device seen within this window
\* stays online; only longer absences count as gone."
GraceKept ==
  [][ \A d \in DeviceIds :
        d \in Online /\ d \notin Online' => devices[d].last_seen + Grace < now
    ]_vars

=============================================================================
