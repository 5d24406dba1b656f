---------------------------- MODULE JournalProofs ---------------------------
(***************************************************************************)
(* The file journal, for any number of operations and any limits.  The     *)
(* inductive invariant says that a trusted inventory is exact; without it  *)
(* neither the limits nor the permanence of records survives a failed      *)
(* write, because create decides from the inventory and not from the disk. *)
(***************************************************************************)
EXTENDS Journal, FiniteSetTheorems, TLAPS

JournalInv ==
    /\ JournalTypeOK
    /\ InventoryMatchesDisk

(* A record that can be written is a record of the journal's type. *)
LEMMA FreshRecordType ==
    ASSUME NEW f \in Fingerprints
    PROVE  FreshRecord(f) \in JournalRecord
BY DEF FreshRecord, JournalRecord, Record

(* Installing a record disturbs no other record, whatever is reported.     *)
LEMMA CreateInstalls ==
    ASSUME JournalInv, opened, NEW id \in OpIds, NEW record \in JournalRecord,
           ~record.acknowledged,
           NEW outcome, Create(id, record, outcome)
    PROVE  /\ JournalInv'
           /\ disk' # disk => id \notin Present /\ Installed(id, record)
<1> USE JournalAssumption DEF JournalInv, JournalTypeOK, InventoryMatchesDisk
<1>1. CASE UNCHANGED journalVars
  BY <1>1 DEF journalVars, Present, Unacknowledged
<1>2. CASE /\ ~poisoned /\ id \notin ids
           /\ Installed(id, record)
           /\ ids' = ids \union {id}
           /\ active' = IF record.acknowledged THEN active ELSE active \union {id}
           /\ UNCHANGED <<poisoned, opened>>
  BY <1>2 DEF Installed, Present, Unacknowledged
<1>3. CASE ~poisoned /\ id \notin ids /\ FailedWrite(id, record)
  BY <1>3 DEF FailedWrite, Installed, Present, Unacknowledged
<1> QED BY <1>1, <1>2, <1>3 DEF Create

LEMMA ReplaceInstalls ==
    ASSUME JournalInv, opened, NEW id \in OpIds, NEW record \in JournalRecord,
           NEW outcome, Replace(id, record, outcome)
    PROVE  /\ JournalInv'
           /\ disk' # disk => /\ id \in Present
                              /\ ReplaceAllowed(disk[id], record)
                              /\ Installed(id, record)
<1> USE JournalAssumption DEF JournalInv, JournalTypeOK, InventoryMatchesDisk
<1>1. CASE UNCHANGED journalVars
  BY <1>1 DEF journalVars, Present, Unacknowledged
<1>2. CASE /\ Replaceable(id, record)
           /\ Installed(id, record)
           /\ active' = IF record.acknowledged THEN active \ {id} ELSE active
           /\ UNCHANGED <<ids, poisoned, opened>>
  <2>1. id \in Present /\ Loaded(id) = disk[id]
    BY <1>2 DEF Replaceable, Loaded, Present
  <2>2. ReplaceAllowed(disk[id], record)
    BY <1>2, <2>1 DEF Replaceable
  <2>3. disk[id].acknowledged => record.acknowledged
    BY <2>2 DEF ReplaceAllowed
  <2> QED BY <1>2, <2>1, <2>2, <2>3 DEF Installed, Present, Unacknowledged
<1>3. CASE Replaceable(id, record) /\ FailedWrite(id, record)
  BY <1>3 DEF Replaceable, Loaded, FailedWrite, Installed, Present, Unacknowledged
<1> QED BY <1>1, <1>2, <1>3 DEF Replace

LEMMA JournalInductive == JournalInv /\ [JournalNext]_journalVars => JournalInv'
<1> SUFFICES ASSUME JournalInv, [JournalNext]_journalVars
             PROVE  JournalInv'
  OBVIOUS
<1>1. CASE Open
  BY <1>1 DEF Open, JournalInv, JournalTypeOK, InventoryMatchesDisk, Present, Unacknowledged
<1>2. CASE Close
  BY <1>2 DEF Close, JournalInv, JournalTypeOK, InventoryMatchesDisk
<1>3. ASSUME NEW id \in OpIds, CreateAny(id)
      PROVE  JournalInv'
  <2>1. PICK f \in Fingerprints, outcome \in {"Ok", "Full", "Storage"} :
            Create(id, FreshRecord(f), outcome)
    BY <1>3 DEF CreateAny
  <2>2. ~FreshRecord(f).acknowledged
    BY DEF FreshRecord
  <2> QED BY <1>3, <2>1, <2>2, FreshRecordType, CreateInstalls DEF CreateAny
<1>4. ASSUME NEW id \in OpIds, ReplaceAny(id)
      PROVE  JournalInv'
  BY <1>4, ReplaceInstalls DEF ReplaceAny
<1>5. CASE UNCHANGED journalVars
  BY <1>5 DEF journalVars, JournalInv, JournalTypeOK, InventoryMatchesDisk,
              Present, Unacknowledged
<1> QED BY <1>1, <1>2, <1>3, <1>4, <1>5 DEF JournalNext

LEMMA JournalInvariance == JournalSpec => []JournalInv
<1>1. JournalInit => JournalInv
  BY DEF JournalInit, JournalInv, JournalTypeOK, InventoryMatchesDisk
<1> QED BY <1>1, JournalInductive, PTL DEF JournalSpec

(* Type correctness of the file journal. *)
THEOREM JournalTypeCorrect == JournalSpec => []JournalTypeOK
<1>1. JournalInv => JournalTypeOK
  BY DEF JournalInv
<1> QED BY <1>1, JournalInvariance, PTL

(* An inventory that no failed write has made doubtful is exactly what a   *)
(* restart would read from the directory.                                  *)
THEOREM InventoryIsExact == JournalSpec => []InventoryMatchesDisk
<1>1. JournalInv => InventoryMatchesDisk
  BY DEF JournalInv
<1> QED BY <1>1, JournalInvariance, PTL

(* After any restart, and as long as no write has failed, pending_results  *)
(* offers every result on disk that the Manager has not confirmed.         *)
THEOREM OwedResultsAreOffered == JournalSpec => []OwedResultsArePending
<1>1. JournalInv => OwedResultsArePending
  <2> SUFFICES ASSUME JournalInv, CanLoad, NEW id \in Present, ResultOwed(disk[id])
               PROVE  id \in PendingResults
    BY DEF OwedResultsArePending
  <2>1. ids = Present /\ active = Unacknowledged
    BY DEF JournalInv, InventoryMatchesDisk, CanLoad
  <2>2. id \in active
    BY <2>1 DEF ResultOwed, Unacknowledged
  <2>3. Loaded(id) # None
    BY <2>1 DEF Loaded, Present
  <2> QED BY <2>2, <2>3 DEF PendingResults
<1> QED BY <1>1, JournalInvariance, PTL

(* What HistoryIsPermanent says of one step. *)
HistoryKept ==
    \A id \in Present :
          /\ disk'[id] # None
          /\ disk'[id].fingerprint = disk[id].fingerprint
          /\ disk[id].acknowledged => disk'[id].acknowledged
          /\ disk'[id].acknowledged \/
                /\ disk[id].effect \in {None, disk'[id].effect}
                /\ Final(disk[id].report) => disk'[id].report = disk[id].report

LEMMA StepKeepsHistory ==
    JournalInv /\ [JournalNext]_journalVars => [HistoryKept]_disk
<1> SUFFICES ASSUME JournalInv, JournalNext, disk' # disk
             PROVE  HistoryKept
  BY DEF journalVars
<1>1. PICK id \in OpIds : CreateAny(id) \/ ReplaceAny(id)
  BY DEF JournalNext, Open, Close
<1>2. CASE CreateAny(id)
  <2>1. PICK f \in Fingerprints, outcome \in {"Ok", "Full", "Storage"} :
            Create(id, FreshRecord(f), outcome)
    BY <1>2 DEF CreateAny
  <2>2. ~FreshRecord(f).acknowledged /\ FreshRecord(f) \in JournalRecord
    BY FreshRecordType DEF FreshRecord
  <2>3. id \notin Present /\ Installed(id, FreshRecord(f))
    BY <1>2, <2>1, <2>2, CreateInstalls DEF CreateAny
  <2>4. \A x \in Present : disk'[x] = disk[x]
    BY <2>3 DEF Installed, Present, JournalInv, JournalTypeOK
  <2> QED BY <2>4 DEF HistoryKept, Present
<1>3. CASE ReplaceAny(id)
  <2>1. PICK record \in JournalRecord, outcome \in {"Ok", "Storage"} :
            Replace(id, record, outcome)
    BY <1>3 DEF ReplaceAny
  <2>2. id \in Present /\ ReplaceAllowed(disk[id], record) /\ Installed(id, record)
    BY <1>3, <2>1, ReplaceInstalls DEF ReplaceAny
  <2>3. disk'[id] = record /\ record # None
    BY <2>2, JournalAssumption DEF Installed, JournalInv, JournalTypeOK
  <2>4. \A x \in Present \ {id} : disk'[x] = disk[x]
    BY <2>2 DEF Installed, Present, JournalInv, JournalTypeOK
  <2>5. /\ record.fingerprint = disk[id].fingerprint
        /\ disk[id].acknowledged => record.acknowledged
        /\ record.acknowledged \/
              /\ disk[id].effect \in {None, record.effect}
              /\ Final(disk[id].report) => record.report = disk[id].report
    BY <2>2 DEF ReplaceAllowed
  <2> QED BY <2>3, <2>4, <2>5 DEF HistoryKept, Present
<1> QED BY <1>1, <1>2, <1>3

(* No sequence of writes, failed writes and restarts evicts an identity,   *)
(* gives it to another task, erases an intent the Manager has not closed   *)
(* or rewrites a final report.                                             *)
THEOREM HistoryIsKept == JournalSpec => HistoryIsPermanent
<1> QED BY StepKeepsHistory, JournalInvariance, PTL
        DEF JournalSpec, HistoryIsPermanent, HistoryKept

(* Both limits hold of the disk itself. *)
Limits ==
    /\ IsFiniteSet(Present)
    /\ ReopenWithinLimits

LEMMA LimitsInductive ==
    JournalInv /\ Limits /\ [JournalNext]_journalVars => Limits'
<1> SUFFICES ASSUME JournalInv, Limits, [JournalNext]_journalVars
             PROVE  Limits'
  OBVIOUS
<1>1. CASE UNCHANGED disk
  BY <1>1 DEF Limits, ReopenWithinLimits, Present, Unacknowledged
<1>2. ASSUME NEW id \in OpIds, CreateAny(id), disk' # disk
      PROVE  Limits'
  <2>1. PICK f \in Fingerprints, outcome \in {"Ok", "Full", "Storage"} :
            Create(id, FreshRecord(f), outcome)
    BY <1>2 DEF CreateAny
  <2>2. /\ ~FreshRecord(f).acknowledged
        /\ FreshRecord(f) \in JournalRecord
        /\ FreshRecord(f) # None
    BY FreshRecordType, JournalAssumption DEF FreshRecord
  <2>3. id \notin Present /\ Installed(id, FreshRecord(f))
    BY <1>2, <2>1, <2>2, CreateInstalls DEF CreateAny
  <2>4. ~AtCapacity /\ active = Unacknowledged /\ ids = Present
    BY <1>2, <2>1
    DEF Create, CreateAny, journalVars, JournalInv, InventoryMatchesDisk
  <2>5. /\ Present' = Present \union {id}
        /\ Unacknowledged' = Unacknowledged \union {id}
    BY <2>2, <2>3 DEF Installed, Present, Unacknowledged, JournalInv, JournalTypeOK
  <2>6. IsFiniteSet(Unacknowledged) /\ IsFiniteSet(Present)
    BY FS_Subset DEF Limits, Unacknowledged
  <2>7. /\ Cardinality(Present) \in Nat
        /\ Cardinality(Unacknowledged) \in Nat
    BY <2>6, FS_CardinalityType
  <2>8. IsFiniteSet(Present') /\ IsFiniteSet(Unacknowledged')
    BY <2>5, <2>6, FS_AddElement
  <2>9. /\ Cardinality(Present') \in {Cardinality(Present), Cardinality(Present) + 1}
        /\ Cardinality(Unacknowledged')
              \in {Cardinality(Unacknowledged), Cardinality(Unacknowledged) + 1}
    BY <2>5, <2>6, FS_AddElement
  <2> QED BY <2>4, <2>7, <2>8, <2>9, JournalAssumption
          DEF AtCapacity, Limits, ReopenWithinLimits
<1>3. ASSUME NEW id \in OpIds, ReplaceAny(id), disk' # disk
      PROVE  Limits'
  <2>1. PICK record \in JournalRecord, outcome \in {"Ok", "Storage"} :
            Replace(id, record, outcome)
    BY <1>3 DEF ReplaceAny
  <2>2. id \in Present /\ ReplaceAllowed(disk[id], record) /\ Installed(id, record)
    BY <1>3, <2>1, ReplaceInstalls DEF ReplaceAny
  <2>3. disk'[id] = record /\ record # None
    BY <2>2, JournalAssumption DEF Installed, JournalInv, JournalTypeOK
  <2>4. disk[id].acknowledged => record.acknowledged
    BY <2>2 DEF ReplaceAllowed
  <2>5. Present' = Present /\ Unacknowledged' \subseteq Unacknowledged
    BY <2>2, <2>3, <2>4 DEF Installed, Present, Unacknowledged, JournalInv, JournalTypeOK
  <2>6. IsFiniteSet(Unacknowledged)
    BY FS_Subset DEF Limits, Unacknowledged
  <2>7. /\ Cardinality(Unacknowledged') <= Cardinality(Unacknowledged)
        /\ IsFiniteSet(Unacknowledged')
    BY <2>5, <2>6, FS_Subset
  <2>8. Cardinality(Unacknowledged) \in Nat /\ Cardinality(Unacknowledged') \in Nat
    BY <2>6, <2>7, FS_CardinalityType
  <2> QED BY <2>5, <2>7, <2>8, JournalAssumption DEF Limits, ReopenWithinLimits
<1> QED BY <1>1, <1>2, <1>3 DEF JournalNext, Open, Close, journalVars

(* A client that filled its journal, whatever failed on the way, is never  *)
(* refused when it opens the directory again.                              *)
THEOREM LimitsHoldOnDisk == JournalSpec => []ReopenWithinLimits
<1>1. JournalInit => Limits
  <2> SUFFICES ASSUME JournalInit PROVE Limits
    OBVIOUS
  <2>1. Present = {} /\ Unacknowledged = {}
    BY DEF JournalInit, Present, Unacknowledged
  <2> QED BY <2>1, FS_EmptySet, JournalAssumption DEF Limits, ReopenWithinLimits
<1>2. Limits => ReopenWithinLimits
  BY DEF Limits
<1> QED BY <1>1, <1>2, LimitsInductive, JournalInvariance, PTL DEF JournalSpec
=============================================================================
