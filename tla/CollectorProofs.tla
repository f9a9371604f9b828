-------------------------- MODULE CollectorProofs --------------------------
(***************************************************************************)
(* Proofs about Collector: the ingester and any number of scans on one     *)
(* database, every step of one between any two of the other.  They rest on *)
(* what DnsIngestProofs and DiscoveryProofs show of each alone.            *)
(***************************************************************************)
EXTENDS Collector, DeviceStoreProofs, TLAPS

IngestProofs == INSTANCE DnsIngestProofs
ScanProofs == INSTANCE DiscoveryProofs

-----------------------------------------------------------------------------
(* The two proof modules instantiate the very definitions Collector does.  *)

LEMMA SameIngestType == Ingest!TypeOK <=> IngestProofs!TypeOK
  BY DEF Ingest!Address, Ingest!Confidence, Ingest!Device, Ingest!DeviceIds, Ingest!Entry,
         Ingest!IngestTypeOK, Ingest!Line, Ingest!Outcome, Ingest!PCs,
         Ingest!Persisting, Ingest!QueryNo, Ingest!Row, Ingest!Status,
         Ingest!StoreTypeOK, Ingest!Time, Ingest!TypeOK, IngestProofs!Address,
         IngestProofs!Confidence, IngestProofs!Device, IngestProofs!DeviceIds,
         IngestProofs!Entry, IngestProofs!IngestTypeOK, IngestProofs!Line,
         IngestProofs!Outcome, IngestProofs!PCs, IngestProofs!Persisting,
         IngestProofs!QueryNo, IngestProofs!Row, IngestProofs!Status,
         IngestProofs!StoreTypeOK, IngestProofs!Time, IngestProofs!TypeOK

LEMMA SameScanType == Scans!TypeOK <=> ScanProofs!TypeOK
  BY DEF Scans!Address, Scans!Confidence, Scans!Device, Scans!DeviceIds, Scans!KnownDevice,
         Scans!Observation, Scans!Scan, Scans!ScanPCs, Scans!ScanTypeOK,
         Scans!Status, Scans!StoreTypeOK, Scans!Stored, Scans!Time, Scans!TypeOK,
         ScanProofs!Address, ScanProofs!Confidence, ScanProofs!Device,
         ScanProofs!DeviceIds, ScanProofs!KnownDevice, ScanProofs!Observation,
         ScanProofs!Scan, ScanProofs!ScanPCs, ScanProofs!ScanTypeOK,
         ScanProofs!Status, ScanProofs!StoreTypeOK, ScanProofs!Stored,
         ScanProofs!Time, ScanProofs!TypeOK

LEMMA SameIngesting ==
  /\ Ingest!IngestNext <=> IngestProofs!IngestNext
  /\ Ingest!PlaceholderConflict <=> IngestProofs!PlaceholderConflict
<1> USE DEF Ingest!storeVars, IngestProofs!storeVars, Ingest!logVars, IngestProofs!logVars,
            Ingest!readVars, IngestProofs!readVars, Ingest!persistVars,
            IngestProofs!persistVars, Ingest!history, IngestProofs!history
<1>1. Ingest!StartPoll <=> IngestProofs!StartPoll
  BY DEF Ingest!StartPoll, IngestProofs!StartPoll
<1>2. Ingest!ReadQuery <=> IngestProofs!ReadQuery
  BY DEF Ingest!NewEntry, IngestProofs!NewEntry, Ingest!ReadQuery, IngestProofs!ReadQuery
<1>3. Ingest!ReadReply <=> IngestProofs!ReadReply
  BY DEF Ingest!MergeReply, IngestProofs!MergeReply, Ingest!ReadReply,
         IngestProofs!ReadReply
<1>4. Ingest!EndOfFile <=> IngestProofs!EndOfFile
  BY DEF Ingest!EndOfFile, IngestProofs!EndOfFile
<1>5. Ingest!TruncatePos <=> IngestProofs!TruncatePos
  BY DEF Ingest!TruncatePos, IngestProofs!TruncatePos
<1>6. Ingest!CommitPos <=> IngestProofs!CommitPos
  BY DEF Ingest!CommitPos, IngestProofs!CommitPos
<1>7. Ingest!ResolveDevice <=> IngestProofs!ResolveDevice
  BY DEF Ingest!Latest, IngestProofs!Latest, Ingest!ResolveDevice,
         IngestProofs!ResolveDevice, Ingest!ResolveIp, IngestProofs!ResolveIp
<1>8. Ingest!AllotDevice <=> IngestProofs!AllotDevice
  BY DEF Ingest!AllotDevice, IngestProofs!AllotDevice, Ingest!DeviceIds,
         IngestProofs!DeviceIds, Ingest!Max, IngestProofs!Max, Ingest!NextDeviceId,
         IngestProofs!NextDeviceId, Ingest!Stored, IngestProofs!Stored
<1>9. Ingest!CreatePlaceholder <=> IngestProofs!CreatePlaceholder
  BY DEF Ingest!CreatePlaceholder, IngestProofs!CreatePlaceholder, Ingest!DeviceIds,
         IngestProofs!DeviceIds, Ingest!InsertDevice, IngestProofs!InsertDevice
<1>10. Ingest!ReadStatus <=> IngestProofs!ReadStatus
  BY DEF Ingest!ReadStatus, IngestProofs!ReadStatus
<1>11. Ingest!ObservePlaceholder <=> IngestProofs!ObservePlaceholder
  BY DEF Ingest!ObservePlaceholder, IngestProofs!ObservePlaceholder,
         Ingest!RecordObservation, IngestProofs!RecordObservation,
         Ingest!Raced, IngestProofs!Raced
<1>12. Ingest!InsertQuery <=> IngestProofs!InsertQuery
  BY DEF Ingest!InsertQuery, IngestProofs!InsertQuery
<1>13. Ingest!Abort <=> IngestProofs!Abort
  BY DEF Ingest!Abort, IngestProofs!Abort, Ingest!Fault, IngestProofs!Fault, Ingest!Unwind,
         IngestProofs!Unwind
<1>14. Ingest!Kill <=> IngestProofs!Kill
  BY DEF Ingest!Fault, IngestProofs!Fault, Ingest!InMemory, IngestProofs!InMemory,
         Ingest!Kill, IngestProofs!Kill
<1>15. Ingest!ReadFails <=> IngestProofs!ReadFails
  BY DEF Ingest!Fault, IngestProofs!Fault, Ingest!ReadFails, IngestProofs!ReadFails
<1>16. Ingest!Rotate <=> IngestProofs!Rotate
  BY DEF Ingest!Fault, IngestProofs!Fault, Ingest!Rotate, IngestProofs!Rotate
<1>17. Ingest!Restart <=> IngestProofs!Restart
  BY DEF Ingest!Restart, IngestProofs!Restart
<1>18. Ingest!Dnsmasq <=> IngestProofs!Dnsmasq
  BY DEF Ingest!Cardinality, IngestProofs!Cardinality, Ingest!Dnsmasq, IngestProofs!Dnsmasq,
         Ingest!LogQuery, IngestProofs!LogQuery, Ingest!LogReply,
         IngestProofs!LogReply, Ingest!Outcome, IngestProofs!Outcome
<1>19. Ingest!PlaceholderConflict <=> IngestProofs!PlaceholderConflict
  BY DEF Ingest!PlaceholderConflict, IngestProofs!PlaceholderConflict, Ingest!Unwind,
         IngestProofs!Unwind
<1> QED
  BY <1>1, <1>2, <1>3, <1>4, <1>5, <1>6, <1>7, <1>8, <1>9, <1>10, <1>11, <1>12, <1>13,
     <1>14, <1>15, <1>16, <1>17, <1>18, <1>19
  DEF Ingest!IngestNext, Ingest!Ingester, Ingest!Poll, Ingest!Persist, Ingest!FaultStep,
      IngestProofs!IngestNext, IngestProofs!Ingester, IngestProofs!Poll,
      IngestProofs!Persist, IngestProofs!FaultStep

LEMMA SameScanning ==
  ASSUME NEW s
  PROVE  /\ Scans!ScanStep(s) <=> ScanProofs!ScanStep(s)
         /\ \A chatting : Scans!ReadDns(s, chatting) <=> ScanProofs!ReadDns(s, chatting)
<1> USE DEF Scans!storeVars, ScanProofs!storeVars, Scans!scanVars, ScanProofs!scanVars
<1>1. Scans!ReadKnown(s) <=> ScanProofs!ReadKnown(s)
  BY DEF Scans!DeviceIds, ScanProofs!DeviceIds, Scans!KnownRows, ScanProofs!KnownRows,
         Scans!Max, ScanProofs!Max, Scans!NextDeviceId, ScanProofs!NextDeviceId,
         Scans!ReadKnown, ScanProofs!ReadKnown, Scans!Stored, ScanProofs!Stored
<1>h. Scans!ReadHostname(s) <=> ScanProofs!ReadHostname(s)
  BY DEF Scans!LastHostname, ScanProofs!LastHostname, Scans!Latest, ScanProofs!Latest,
         Scans!ReadHostname, ScanProofs!ReadHostname
<1>i. Scans!ReadIp(s) <=> ScanProofs!ReadIp(s)
  BY DEF Scans!LastIp, ScanProofs!LastIp, Scans!Latest, ScanProofs!Latest,
         Scans!ReadIp, ScanProofs!ReadIp
<1>2. Scans!AllotId(s) <=> ScanProofs!AllotId(s)
  BY DEF Scans!AllotId, ScanProofs!AllotId, Scans!DeviceIds, ScanProofs!DeviceIds,
         Scans!Max, ScanProofs!Max, Scans!NextDeviceId, ScanProofs!NextDeviceId,
         Scans!Stored, ScanProofs!Stored
<1>3. Scans!CreateDevice(s) <=> ScanProofs!CreateDevice(s)
  BY DEF Scans!CreateDevice, ScanProofs!CreateDevice, Scans!DeviceIds, ScanProofs!DeviceIds,
         Scans!InsertDevice, ScanProofs!InsertDevice
<1>4. Scans!ReadStatus(s) <=> ScanProofs!ReadStatus(s)
  BY DEF Scans!ReadStatus, ScanProofs!ReadStatus
<1>5. Scans!Observe(s) <=> ScanProofs!Observe(s)
  BY DEF Scans!Observe, ScanProofs!Observe, Scans!RecordObservation,
         ScanProofs!RecordObservation, Scans!Raced, ScanProofs!Raced
<1>6. Scans!ReadLeases(s) <=> ScanProofs!ReadLeases(s)
  BY DEF Scans!ReadLeases, ScanProofs!ReadLeases
<1>7. Scans!EndOfLeases(s) <=> ScanProofs!EndOfLeases(s)
  BY DEF Scans!EndOfLeases, ScanProofs!EndOfLeases
<1>8. Scans!ReadRecentlySeen(s) <=> ScanProofs!ReadRecentlySeen(s)
  BY DEF Scans!DeviceIds, ScanProofs!DeviceIds, Scans!ReadRecentlySeen,
         ScanProofs!ReadRecentlySeen, Scans!Stored, ScanProofs!Stored
<1>9. Scans!SelectGone(s) <=> ScanProofs!SelectGone(s)
  BY DEF Scans!DeviceIds, ScanProofs!DeviceIds, Scans!Online, ScanProofs!Online,
         Scans!SelectGone, ScanProofs!SelectGone, Scans!Stored, ScanProofs!Stored
<1>10. Scans!MarkGone(s) <=> ScanProofs!MarkGone(s)
  BY DEF Scans!DeviceIds, ScanProofs!DeviceIds, Scans!Idle, ScanProofs!Idle, Scans!MarkGone,
         ScanProofs!MarkGone, Scans!MarkOffline, ScanProofs!MarkOffline
<1>11. Scans!IdTaken(s) <=> ScanProofs!IdTaken(s)
  BY DEF Scans!IdTaken, ScanProofs!IdTaken, Scans!Idle, ScanProofs!Idle
<1>12. Scans!ScanDies(s) <=> ScanProofs!ScanDies(s)
  BY DEF Scans!Idle, ScanProofs!Idle, Scans!ScanDies, ScanProofs!ScanDies
<1>13. \A active \in BOOLEAN : Scans!StartScan(s, active) <=> ScanProofs!StartScan(s, active)
  BY DEF Scans!Idle, ScanProofs!Idle, Scans!StartScan, ScanProofs!StartScan
<1>14. \A o : Scans!Hear(s, o) <=> ScanProofs!Hear(s, o)
  BY DEF Scans!Cardinality, ScanProofs!Cardinality, Scans!Hear, ScanProofs!Hear,
         Scans!MatchDevice, ScanProofs!MatchDevice, Scans!Min, ScanProofs!Min,
         Scans!Unheard, ScanProofs!Unheard
<1>15. \A chatting : Scans!ReadDns(s, chatting) <=> ScanProofs!ReadDns(s, chatting)
  BY DEF Scans!ReadDns, ScanProofs!ReadDns
<1> QED
  BY <1>1, <1>h, <1>i, <1>2, <1>3, <1>4, <1>5, <1>6, <1>7, <1>8, <1>9, <1>10, <1>11, <1>12,
     <1>13, <1>14, <1>15
  DEF Scans!ScanStep, Scans!Gather, Scans!Sweep, Scans!Observation, ScanProofs!ScanStep,
      ScanProofs!Gather, ScanProofs!Sweep, ScanProofs!Observation

LEMMA SameStore ==
  /\ IngestProofs!Stored = Stored /\ ScanProofs!Stored = Stored
  /\ IngestProofs!StoreTypeOK <=> StoreTypeOK
  /\ ScanProofs!StoreTypeOK <=> StoreTypeOK
  BY DEF Stored, IngestProofs!Stored, ScanProofs!Stored,
         DeviceIds, IngestProofs!DeviceIds, ScanProofs!DeviceIds,
         StoreTypeOK, IngestProofs!StoreTypeOK, ScanProofs!StoreTypeOK,
         Device, IngestProofs!Device, ScanProofs!Device,
         Address, IngestProofs!Address, ScanProofs!Address,
         Status, IngestProofs!Status, ScanProofs!Status,
         Confidence, IngestProofs!Confidence, ScanProofs!Confidence,
         Time, IngestProofs!Time, ScanProofs!Time

\* The same of the next state.
LEMMA SameStoreNext ==
  /\ IngestProofs!Stored' = Stored' /\ ScanProofs!Stored' = Stored'
  /\ IngestProofs!StoreTypeOK' <=> StoreTypeOK'
  /\ ScanProofs!StoreTypeOK' <=> StoreTypeOK'
  BY DEF Stored, IngestProofs!Stored, ScanProofs!Stored,
         DeviceIds, IngestProofs!DeviceIds, ScanProofs!DeviceIds,
         StoreTypeOK, IngestProofs!StoreTypeOK, ScanProofs!StoreTypeOK,
         Device, IngestProofs!Device, ScanProofs!Device,
         Address, IngestProofs!Address, ScanProofs!Address,
         Status, IngestProofs!Status, ScanProofs!Status,
         Confidence, IngestProofs!Confidence, ScanProofs!Confidence,
         Time, IngestProofs!Time, ScanProofs!Time

\* What the two proof modules assume of their constants.
LEMMA SameAssumptions ==
  /\ IngestProofs!StoreAssumption /\ IngestProofs!IngestAssumption
  /\ ScanProofs!StoreAssumption /\ ScanProofs!DiscoveryAssumption
<1>1. IngestProofs!StoreAssumption /\ ScanProofs!StoreAssumption
  BY StoreAssumption
  DEF IngestProofs!StoreAssumption, ScanProofs!StoreAssumption,
      DeviceIds, IngestProofs!DeviceIds, ScanProofs!DeviceIds,
      Device, IngestProofs!Device, ScanProofs!Device,
      Status, IngestProofs!Status, ScanProofs!Status,
      Confidence, IngestProofs!Confidence, ScanProofs!Confidence,
      Time, IngestProofs!Time, ScanProofs!Time
<1>2. IngestProofs!IngestAssumption
  BY CollectorAssumption
  DEF Ingest!IngestAssumption, IngestProofs!IngestAssumption,
      Ingest!FaultKinds, IngestProofs!FaultKinds, Ingest!Entry, IngestProofs!Entry,
      Ingest!QueryNo, IngestProofs!QueryNo, Ingest!Outcome, IngestProofs!Outcome,
      Ingest!Line, IngestProofs!Line, Ingest!Time, IngestProofs!Time
<1>3. ScanProofs!DiscoveryAssumption
  BY CollectorAssumption
  DEF Scans!DiscoveryAssumption, ScanProofs!DiscoveryAssumption,
      Scans!Observation, ScanProofs!Observation, Scans!IsFiniteSet, ScanProofs!IsFiniteSet
<1> QED
  BY <1>1, <1>2, <1>3

LEMMA SameInit == Init => IngestProofs!Init /\ ScanProofs!Init
  BY DEF Init, StoreInit, DeviceIds,
         IngestProofs!Init, IngestProofs!StoreInit, IngestProofs!DeviceIds,
         Ingest!IngestInit, IngestProofs!IngestInit,
         ScanProofs!Init, ScanProofs!StoreInit, ScanProofs!DeviceIds,
         Scans!ScanInit, ScanProofs!ScanInit, Scans!Idle, ScanProofs!Idle

LEMMA SameRows == IngestProofs!AttributedInv => RowsAttributed
  BY DEF IngestProofs!AttributedInv, IngestProofs!Attributed, RowsAttributed

-----------------------------------------------------------------------------
(***************************************************************************)
(* The invariant: each process's own.  A step of one keeps the other's     *)
(* because neither takes a device or an address away.                      *)
(***************************************************************************)
Inv == IngestProofs!TypeOK /\ IngestProofs!AttributedInv /\ ScanProofs!ScanInv

LEMMA InvInit == Init => Inv
<1> SUFFICES ASSUME Init PROVE Inv
  OBVIOUS
<1>1. IngestProofs!Init /\ ScanProofs!Init
  BY SameInit
<1>2. IngestProofs!TypeOK
  BY <1>1, IngestProofs!TypeInit, SameAssumptions
<1>3. ScanProofs!ScanInv
  BY <1>1, ScanProofs!ScanInvInit, SameAssumptions
<1>4. IngestProofs!AttributedInv
  BY <1>1 DEF IngestProofs!Init, IngestProofs!IngestInit, IngestProofs!AttributedInv
<1> QED
  BY <1>2, <1>3, <1>4 DEF Inv

LEMMA IngestingKeeps ==
  ASSUME Inv, Ingesting \/ LosesDeviceId
  PROVE  Inv'
<1>1. IngestProofs!IngestNext \/ IngestProofs!PlaceholderConflict
  BY SameIngesting DEF Ingesting, LosesDeviceId
<1>2. IngestProofs!TypeOK /\ ScanProofs!ScanInv
      /\ ([IngestProofs!Next]_(IngestProofs!vars) \/ IngestProofs!PlaceholderConflict)
  BY <1>1 DEF Inv, IngestProofs!Next
<1>3. IngestProofs!TypeOK'
  BY <1>2, IngestProofs!TypeStep, SameAssumptions
<1>4. IngestProofs!AttributedInv'
  BY <1>2, IngestProofs!AttributedStep, SameAssumptions DEF Inv
<1>5. IngestProofs!Stored \subseteq IngestProofs!Stored'
  BY <1>2, IngestProofs!IngesterAdds, SameAssumptions
<1>6. ScanProofs!Stored \subseteq ScanProofs!Stored' /\ ScanProofs!StoreTypeOK'
  BY <1>3, <1>5, SameStore, SameStoreNext DEF IngestProofs!TypeOK
<1>7. UNCHANGED ScanProofs!scanVars
  BY DEF Ingesting, LosesDeviceId, scanVars, ScanProofs!scanVars
<1>8. ScanProofs!ScanInv'
  BY <1>2, <1>6, <1>7, ScanProofs!OthersKeep, SameAssumptions
<1> QED
  BY <1>3, <1>4, <1>8 DEF Inv

\* The devices a scan finds in the ingester's rows are devices.
LEMMA AskingAreDevices ==
  ASSUME Inv, NEW s
  PROVE  Asking(s) \subseteq ScanProofs!DeviceIds
<1>1. \A i \in DOMAIN rows : rows[i].device \in ScanProofs!DeviceIds \cup {None}
  <2>1. rows \in Seq(IngestProofs!Row)
    BY DEF Inv, IngestProofs!TypeOK, IngestProofs!IngestTypeOK
  <2>2. \A i \in DOMAIN rows : rows[i] \in IngestProofs!Row
    BY <2>1
  <2> QED
    BY <2>2 DEF IngestProofs!Row, IngestProofs!DeviceIds, ScanProofs!DeviceIds
<1> QED
  BY <1>1 DEF Asking, DevicesWithRecentDns

LEMMA ScanningKeeps ==
  ASSUME Inv, Scanning
  PROVE  Inv'
<1>1. PICK s \in Scanners :
        ScanProofs!ScanStep(s) \/ ScanProofs!ReadDns(s, Asking(s))
  BY SameScanning DEF Scanning
<1>2. ScanProofs!ScanStep(s) \/ \E chatting \in SUBSET ScanProofs!DeviceIds :
                                  ScanProofs!ReadDns(s, chatting)
  BY <1>1, AskingAreDevices
<1>3. ScanProofs!ScanInv
  BY DEF Inv
<1>4. ScanProofs!ScanInv'
  BY <1>2, <1>3, ScanProofs!ScanStepKeeps, SameAssumptions
<1>5. ScanProofs!Stored \subseteq ScanProofs!Stored' /\ addresses \subseteq addresses'
  BY <1>2, <1>3, ScanProofs!ScanAdds, SameAssumptions
<1>6. IngestProofs!Stored \subseteq IngestProofs!Stored' /\ IngestProofs!StoreTypeOK'
  BY <1>4, <1>5, SameStore, SameStoreNext DEF ScanProofs!ScanInv
<1>7. UNCHANGED IngestProofs!ingestVars
  BY DEF Scanning, ingestVars, IngestProofs!ingestVars, IngestProofs!logVars,
         IngestProofs!readVars, IngestProofs!persistVars, IngestProofs!history
<1>8. IngestProofs!TypeOK' /\ IngestProofs!AttributedInv'
  BY <1>5, <1>6, <1>7, IngestProofs!OthersKeep, SameAssumptions DEF Inv
<1> QED
  BY <1>4, <1>8 DEF Inv

LEMMA InvStep == Inv /\ [Next]_vars => Inv'
<1> SUFFICES ASSUME Inv, [Next]_vars PROVE Inv'
  OBVIOUS
<1>1. CASE (Tick /\ UNCHANGED <<ingestVars, scanVars>>) \/ UNCHANGED vars
  <2>1. UNCHANGED <<devices, addresses, events, raced, ingestVars, scanVars>> /\ now' \in Time
    BY <1>1, StoreAssumption, SameStore
    DEF Tick, vars, storeVars, Inv, IngestProofs!TypeOK, StoreTypeOK, Time
  <2>2. UNCHANGED IngestProofs!ingestVars /\ UNCHANGED ScanProofs!scanVars
    BY <2>1 DEF scanVars, ScanProofs!scanVars, ingestVars, IngestProofs!ingestVars,
                IngestProofs!logVars, IngestProofs!readVars, IngestProofs!persistVars,
                IngestProofs!history
  <2>3. Stored' = Stored /\ StoreTypeOK'
    BY <2>1, SameStore DEF Stored, Inv, IngestProofs!TypeOK, StoreTypeOK
  <2>4. /\ IngestProofs!Stored' = IngestProofs!Stored /\ IngestProofs!StoreTypeOK'
        /\ ScanProofs!Stored' = ScanProofs!Stored /\ ScanProofs!StoreTypeOK'
    BY <2>3, SameStore, SameStoreNext
  <2>5. IngestProofs!TypeOK' /\ IngestProofs!AttributedInv'
    BY <2>1, <2>2, <2>4, IngestProofs!OthersKeep, SameAssumptions DEF Inv
  <2>6. ScanProofs!ScanInv'
    BY <2>2, <2>4, ScanProofs!OthersKeep, SameAssumptions DEF Inv
  <2> QED
    BY <2>5, <2>6 DEF Inv
<1> QED
  BY <1>1, IngestingKeeps, ScanningKeeps DEF Next

\* The tables, the ingester and the scans keep their types, whoever writes
\* between whose steps.
THEOREM TypeCorrect == Spec => []TypeOK
<1>1. Inv => TypeOK
  <2> SUFFICES ASSUME Inv PROVE TypeOK
    OBVIOUS
  <2>1. ScanProofs!TypeOK
    BY DEF Inv, ScanProofs!ScanInv, ScanProofs!Locals, ScanProofs!LocalsOK,
           ScanProofs!TypeOK, ScanProofs!ScanTypeOK
  <2> QED
    BY <2>1, SameIngestType, SameScanType DEF Inv, TypeOK
<1> QED
  BY <1>1, InvInit, InvStep, PTL DEF Spec

\* Whatever scans store meanwhile, a query's row names a device recorded at the
\* address that asked, and one from a LAN address names a device
\* (resolve_device_id_for_ip, _persist).
THEOREM AttributionTheorem == Spec => []RowsAttributed
<1>1. Inv => RowsAttributed
  BY SameRows DEF Inv
<1> QED
  BY <1>1, InvInit, InvStep, PTL DEF Spec

=============================================================================
