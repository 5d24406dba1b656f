---------------------------- MODULE WindowsProofs ---------------------------
(***************************************************************************)
(* The Windows journal, for any number of operations and any limits: a     *)
(* name query that stops early hides rows from the inventory, but neither  *)
(* makes the inventory claim what the table does not hold nor lets a row   *)
(* be rewritten, because load reads the row itself.  What the query does   *)
(* return is never lost, and never too much to open the table again.       *)
(***************************************************************************)
EXTENDS WindowsJournal, FiniteSetTheorems, TLAPS

WindowsInv == TypeOK /\ InventoryIsSound

LEMMA FreshRecordType ==
    ASSUME NEW f \in Fingerprints
    PROVE  FreshRecord(f) \in WindowsRecord /\ ~FreshRecord(f).acknowledged
BY DEF FreshRecord, WindowsRecord, Record

(* A write puts a row or nothing, and an inventory whose write failed is   *)
(* not trusted any more.                                                   *)
LEMMA PutInstalls ==
    ASSUME TypeOK, NEW id \in OpIds, NEW record \in WindowsRecord, NEW outcome,
           Put(id, record, outcome)
    PROVE  /\ rows' \in [OpIds -> WindowsRecord \union {None}]
           /\ poisoned' \in BOOLEAN
           /\ rows' = rows \/ rows' = [rows EXCEPT ![id] = record]
           /\ ~poisoned' => ~poisoned /\ outcome = "Ok" /\ rows' = [rows EXCEPT ![id] = record]
BY DEF Put, TypeOK

(* Only an operation without a row is given a new one. *)
LEMMA CreateKeeps ==
    ASSUME WindowsInv, NEW id \in OpIds, NEW record \in WindowsRecord,
           ~record.acknowledged, NEW outcome, Create(id, record, outcome)
    PROVE  /\ WindowsInv'
           /\ \A x \in Present : rows'[x] = rows[x]
<1> USE DEF WindowsInv
<1>1. CASE UNCHANGED windowsVars
  BY <1>1 DEF windowsVars, TypeOK, InventoryIsSound, CanLoad, Present, Unacknowledged
<1>2. CASE /\ Put(id, record, outcome)
           /\ IF outcome = "Ok"
              THEN /\ ids' = ids \union {id}
                   /\ active' = active \union {id}
              ELSE UNCHANGED <<ids, active>>
           /\ UNCHANGED opened
  <2>1. id \notin Present /\ CanLoad
    BY DEF Create, Loaded, Present
  <2>2. /\ rows' \in [OpIds -> WindowsRecord \union {None}]
        /\ poisoned' \in BOOLEAN
        /\ rows' = rows \/ rows' = [rows EXCEPT ![id] = record]
        /\ ~poisoned' => outcome = "Ok" /\ rows' = [rows EXCEPT ![id] = record]
    BY <1>2, PutInstalls
  <2>3. \A x \in Present : rows'[x] = rows[x]
    BY <2>1, <2>2 DEF Present, TypeOK
  <2>4. TypeOK'
    BY <1>2, <2>2 DEF TypeOK
  <2>5. InventoryIsSound'
    <3> SUFFICES ASSUME ~poisoned' PROVE ids' \subseteq Present' /\ active' \subseteq Unacknowledged'
      BY DEF InventoryIsSound, CanLoad
    <3>1. ids' = ids \union {id} /\ active' = active \union {id}
      BY <1>2, <2>2
    <3>2. rows'[id] = record /\ record # None
      BY <2>2, WindowsJournalAssumption DEF TypeOK
    <3> QED
      BY <2>1, <2>3, <3>1, <3>2 DEF InventoryIsSound, Present, Unacknowledged
  <2> QED
    BY <2>3, <2>4, <2>5
<1> QED
  BY <1>1, <1>2 DEF Create

(* A row is replaced only by one that its rules allow. *)
LEMMA ReplaceKeeps ==
    ASSUME WindowsInv, NEW id \in OpIds, NEW record \in WindowsRecord,
           NEW outcome, Replace(id, record, outcome)
    PROVE  /\ WindowsInv'
           /\ ReplaceAllowed(rows[id], record)
           /\ rows' = rows \/ rows' = [rows EXCEPT ![id] = record]
<1> USE DEF WindowsInv
<1>1. id \in Present /\ ReplaceAllowed(rows[id], record) /\ CanLoad
  BY DEF Replace, Loaded, Present
<1>2. /\ rows' \in [OpIds -> WindowsRecord \union {None}]
      /\ poisoned' \in BOOLEAN
      /\ rows' = rows \/ rows' = [rows EXCEPT ![id] = record]
      /\ ~poisoned' => outcome = "Ok" /\ rows' = [rows EXCEPT ![id] = record]
  BY PutInstalls DEF Replace
<1>3. TypeOK'
  BY <1>2 DEF Replace, TypeOK
<1>4. InventoryIsSound'
  <2> SUFFICES ASSUME ~poisoned' PROVE ids' \subseteq Present' /\ active' \subseteq Unacknowledged'
    BY DEF InventoryIsSound, CanLoad
  <2>1. /\ ids' = ids
        /\ active' = IF record.acknowledged THEN active \ {id} ELSE active
    BY <1>2 DEF Replace
  <2>2. /\ rows'[id] = record /\ record # None
        /\ \A x \in OpIds \ {id} : rows'[x] = rows[x]
    BY <1>2, WindowsJournalAssumption DEF TypeOK
  <2> QED
    BY <1>1, <2>1, <2>2 DEF InventoryIsSound, Present, Unacknowledged
<1> QED
  BY <1>1, <1>2, <1>3, <1>4

LEMMA WindowsInductive == WindowsInv /\ [Next]_windowsVars => WindowsInv'
<1> SUFFICES ASSUME WindowsInv, [Next]_windowsVars PROVE WindowsInv'
  OBVIOUS
<1>1. CASE Open
  BY <1>1 DEF Open, WindowsInv, TypeOK, InventoryIsSound, Names, Present, Unacknowledged
<1>2. CASE Close
  BY <1>2 DEF Close, WindowsInv, TypeOK, InventoryIsSound, CanLoad
<1>3. ASSUME NEW id \in OpIds, CreateAny(id) PROVE WindowsInv'
  BY <1>3, FreshRecordType, CreateKeeps DEF CreateAny
<1>4. ASSUME NEW id \in OpIds, ReplaceAny(id) PROVE WindowsInv'
  BY <1>4, ReplaceKeeps DEF ReplaceAny
<1>5. CASE UNCHANGED windowsVars
  BY <1>5 DEF windowsVars, WindowsInv, TypeOK, InventoryIsSound, CanLoad, Present,
              Unacknowledged
<1> QED
  BY <1>1, <1>2, <1>3, <1>4, <1>5 DEF Next

LEMMA WindowsInvariance == Spec => []WindowsInv
<1>1. Init => WindowsInv
  BY DEF Init, WindowsInv, TypeOK, InventoryIsSound, CanLoad
<1> QED
  BY <1>1, WindowsInductive, PTL DEF Spec

(* The inventory claims no identity and no owed result that the table does *)
(* not hold, however many rows the name query leaves out.                  *)
THEOREM WindowsInventoryIsSound == Spec => []InventoryIsSound
<1>1. WindowsInv => InventoryIsSound
  BY DEF WindowsInv
<1> QED
  BY <1>1, WindowsInvariance, PTL

(* What HistoryIsPermanent says of one step. *)
HistoryKept ==
    \A id \in Present :
          /\ rows'[id].fingerprint = rows[id].fingerprint
          /\ rows[id].acknowledged => rows'[id].acknowledged
          /\ rows'[id].acknowledged \/
                /\ rows[id].effect \in {None, rows'[id].effect}
                /\ Final(rows[id].report) => rows'[id].report = rows[id].report

LEMMA StepKeepsHistory == WindowsInv /\ [Next]_windowsVars => [HistoryKept]_rows
<1> SUFFICES ASSUME WindowsInv, Next, rows' # rows PROVE HistoryKept
  BY DEF windowsVars
<1>1. PICK id \in OpIds : CreateAny(id) \/ ReplaceAny(id)
  BY DEF Next, Open, Close
<1>2. CASE CreateAny(id)
  <2>1. \A x \in Present : rows'[x] = rows[x]
    BY <1>2, FreshRecordType, CreateKeeps DEF CreateAny
  <2> QED
    BY <2>1 DEF HistoryKept
<1>3. CASE ReplaceAny(id)
  <2>1. PICK record \in WindowsRecord :
          ReplaceAllowed(rows[id], record) /\ rows' = [rows EXCEPT ![id] = record]
    BY <1>3, ReplaceKeeps DEF ReplaceAny
  <2>2. rows'[id] = record /\ \A x \in Present \ {id} : rows'[x] = rows[x]
    BY <2>1 DEF Present, WindowsInv, TypeOK
  <2> QED
    BY <2>1, <2>2 DEF HistoryKept, ReplaceAllowed
<1> QED
  BY <1>1, <1>2, <1>3

(* No sequence of writes, failed writes and restarts gives a row to        *)
(* another task, erases an intent or rewrites a final report, although the *)
(* inventory may have forgotten the row.                                   *)
THEOREM WindowsHistoryIsKept == Spec => HistoryIsPermanent
<1> QED
  BY StepKeepsHistory, WindowsInvariance, PTL DEF Spec, HistoryIsPermanent, HistoryKept

(***************************************************************************)
(* What the name query returns is not lost                                 *)
(***************************************************************************)

(* Rows are never deleted, so a row the query returns was returned, if it  *)
(* was there, by every query before: the inventory knows it.               *)
ScanIsCovered ==
    CanLoad => Names \subseteq ids /\ Names \intersect Unacknowledged \subseteq active

(* The next open of the table is never refused for being over a limit,     *)
(* however many rows the query leaves out and however writes fail: a       *)
(* client that filled its journal can always restart.                      *)
ReopenWithinLimits ==
    /\ Cardinality(Names \intersect Unacknowledged) <= MaxRecords
    /\ Cardinality(Names) <= MaxIdentities

InventoryWithinLimits ==
    CanLoad => Cardinality(active) <= MaxRecords /\ Cardinality(ids) <= MaxIdentities

ScanInv == WindowsInv /\ ScanIsCovered /\ InventoryWithinLimits /\ ReopenWithinLimits

(* Sets of operations have a size.                                         *)
LEMMA Sizes ==
    ASSUME NEW S \in SUBSET OpIds
    PROVE  /\ IsFiniteSet(S) /\ Cardinality(S) \in Nat
           /\ \A T \in SUBSET S : Cardinality(T) <= Cardinality(S)
           /\ \A x \in OpIds : Cardinality(S \union {x}) <= Cardinality(S) + 1
<1>1. IsFiniteSet(OpIds)
  <2>1. 1 \in Int /\ Operations \in Int
    BY WindowsJournalAssumption
  <2>2. IsFiniteSet(1 .. Operations)
    BY <2>1, FS_Interval
  <2> QED
    BY <2>2 DEF OpIds
<1>2. IsFiniteSet(S) /\ Cardinality(S) \in Nat
  BY <1>1, FS_Subset, FS_CardinalityType
<1>3. \A T \in SUBSET S : Cardinality(T) <= Cardinality(S)
  BY <1>2, FS_Subset
<1>4. ASSUME NEW x \in OpIds PROVE Cardinality(S \union {x}) <= Cardinality(S) + 1
  <2>1. \/ Cardinality(S \union {x}) = Cardinality(S)
        \/ Cardinality(S \union {x}) = Cardinality(S) + 1
    BY <1>2, FS_AddElement
  <2> QED
    BY <1>2, <2>1
<1> QED
  BY <1>2, <1>3, <1>4

(* As rows are added the query returns fewer of the old ones.              *)
LEMMA NamesShrink ==
    ASSUME Present \subseteq Present'
    PROVE  Names' \intersect Present \subseteq Names
<1> SUFFICES ASSUME NEW id \in Present, id \in Names' PROVE id \in Names
  OBVIOUS
<1> DEFINE before == {n \in Present : n <= id}
           after == {n \in Present' : n <= id}
<1>1. before \in SUBSET after /\ after \in SUBSET OpIds /\ before \in SUBSET OpIds
  BY DEF Present
<1>2. Cardinality(before) <= Cardinality(after)
      /\ Cardinality(before) \in Nat /\ Cardinality(after) \in Nat
  BY <1>1, Sizes
<1>3. Cardinality(after) <= ScanLimit
  BY DEF Names
<1> HIDE DEF before, after
<1>4. Cardinality(before) <= ScanLimit
  BY <1>2, <1>3, WindowsJournalAssumption
<1> QED
  BY <1>4 DEF Names, before

(* The inventory's sets are sets of operations.                            *)
LEMMA InventorySets ==
    ASSUME TypeOK
    PROVE  {ids, active, Names, Unacknowledged, Present} \subseteq SUBSET OpIds
BY DEF TypeOK, Names, Unacknowledged, Present

(* A new row takes a place among the names; what it hides was known.       *)
LEMMA CreateCovers ==
    ASSUME ScanInv, NEW id \in OpIds, NEW record \in WindowsRecord,
           ~record.acknowledged, NEW outcome, Create(id, record, outcome)
    PROVE  ScanIsCovered' /\ InventoryWithinLimits' /\ ReopenWithinLimits'
<1>1. CASE UNCHANGED windowsVars
  BY <1>1 DEF windowsVars, ScanInv, ScanIsCovered, InventoryWithinLimits, ReopenWithinLimits,
              CanLoad, Names, Present, Unacknowledged
<1>2. CASE /\ ~AtCapacity
           /\ Put(id, record, outcome)
           /\ IF outcome = "Ok"
              THEN /\ ids' = ids \union {id}
                   /\ active' = active \union {id}
              ELSE UNCHANGED <<ids, active>>
           /\ UNCHANGED opened
  <2>1. /\ TypeOK /\ CanLoad /\ id \notin Present
        /\ Names \subseteq ids /\ Names \intersect Unacknowledged \subseteq active
    BY DEF ScanInv, WindowsInv, ScanIsCovered, Create, Loaded, Present
  <2>2. /\ rows' = rows \/ rows' = [rows EXCEPT ![id] = record]
        /\ ~poisoned' => outcome = "Ok"
    BY <1>2, <2>1, PutInstalls
  <2>3. /\ Present \subseteq Present' /\ Present' \subseteq Present \union {id}
        /\ Unacknowledged' \subseteq Unacknowledged \union {id}
    BY <2>1, <2>2, WindowsJournalAssumption DEF TypeOK, Present, Unacknowledged
  <2>4. Names' \subseteq Names \union {id}
    <3>1. Names' \subseteq Present'
      BY DEF Names
    <3> QED
      BY <2>3, <3>1, NamesShrink
  <2>5. /\ Names' \subseteq ids \union {id}
        /\ Names' \intersect Unacknowledged' \subseteq active \union {id}
    BY <2>1, <2>3, <2>4
  <2>6. ScanIsCovered'
    BY <1>2, <2>2, <2>5 DEF ScanIsCovered, CanLoad
  <2>7. /\ Cardinality(active \union {id}) <= MaxRecords
        /\ Cardinality(ids \union {id}) <= MaxIdentities
    <3>1. /\ ids \in SUBSET OpIds /\ active \in SUBSET OpIds
          /\ (ids \union {id}) \in SUBSET OpIds /\ (active \union {id}) \in SUBSET OpIds
      BY <2>1, InventorySets
    <3>2. /\ Cardinality(active) \in Nat /\ Cardinality(active \union {id}) <= Cardinality(active) + 1
          /\ Cardinality(ids) \in Nat /\ Cardinality(ids \union {id}) <= Cardinality(ids) + 1
          /\ Cardinality(active \union {id}) \in Nat /\ Cardinality(ids \union {id}) \in Nat
      BY <3>1, Sizes
    <3>3. Cardinality(active) < MaxRecords /\ Cardinality(ids) < MaxIdentities
      BY <1>2, <3>2, WindowsJournalAssumption DEF AtCapacity
    <3> QED
      BY <3>2, <3>3, WindowsJournalAssumption
  <2>8. InventoryWithinLimits'
    BY <1>2, <2>2, <2>7 DEF InventoryWithinLimits, CanLoad
  <2>9. ReopenWithinLimits'
    <3> DEFINE open == Names' \intersect Unacknowledged'
               names == Names'
               more == active \union {id}
               many == ids \union {id}
    <3>1. /\ open \in SUBSET more /\ names \in SUBSET many
          /\ more \in SUBSET OpIds /\ many \in SUBSET OpIds
      BY <2>1, <2>5, InventorySets
    <3>2. /\ open \in SUBSET OpIds /\ names \in SUBSET OpIds
      BY <3>1
    <3> HIDE DEF open, names, more, many
    <3>3. /\ Cardinality(open) <= Cardinality(more) /\ Cardinality(names) <= Cardinality(many)
          /\ {Cardinality(open), Cardinality(names), Cardinality(more), Cardinality(many)}
                \subseteq Nat
      BY <3>1, <3>2, Sizes
    <3>4. Cardinality(more) <= MaxRecords /\ Cardinality(many) <= MaxIdentities
      BY <2>7 DEF more, many
    <3>5. Cardinality(open) <= MaxRecords /\ Cardinality(names) <= MaxIdentities
      BY <3>3, <3>4, WindowsJournalAssumption
    <3> QED
      BY <3>5 DEF ReopenWithinLimits, open, names
  <2> QED
    BY <2>6, <2>8, <2>9
<1> QED
  BY <1>1, <1>2 DEF Create

(* A row that is replaced keeps its place, and none is opened again.       *)
LEMMA ReplaceCovers ==
    ASSUME ScanInv, NEW id \in OpIds, NEW record \in WindowsRecord,
           NEW outcome, Replace(id, record, outcome)
    PROVE  ScanIsCovered' /\ InventoryWithinLimits' /\ ReopenWithinLimits'
<1>1. /\ TypeOK /\ CanLoad /\ id \in Present
      /\ Names \subseteq ids /\ Names \intersect Unacknowledged \subseteq active
      /\ Cardinality(active) <= MaxRecords /\ Cardinality(ids) <= MaxIdentities
      /\ ids' = ids /\ opened' = opened
      /\ active' = active \/ active' = active \ {id}
      /\ rows[id].acknowledged => record.acknowledged
  BY DEF ScanInv, WindowsInv, ScanIsCovered, InventoryWithinLimits, Replace, Loaded, Present,
         ReplaceAllowed
<1>2. /\ rows' = rows \/ rows' = [rows EXCEPT ![id] = record]
      /\ ~poisoned' => /\ rows' = [rows EXCEPT ![id] = record]
                       /\ active' = IF record.acknowledged THEN active \ {id} ELSE active
  BY <1>1, PutInstalls DEF Replace
<1>3. /\ Present' = Present /\ Unacknowledged' \subseteq Unacknowledged
      /\ ~poisoned' /\ record.acknowledged => id \notin Unacknowledged'
  BY <1>1, <1>2, WindowsJournalAssumption DEF TypeOK, Present, Unacknowledged
<1>4. Names' = Names
  BY <1>3 DEF Names
<1>5. ScanIsCovered'
  BY <1>1, <1>2, <1>3, <1>4 DEF ScanIsCovered, CanLoad
<1> DEFINE less == active'
           open == Names' \intersect Unacknowledged'
           was == Names \intersect Unacknowledged
<1>6. /\ less \in SUBSET active /\ open \in SUBSET was
      /\ active \in SUBSET OpIds /\ was \in SUBSET OpIds
  BY <1>1, <1>3, <1>4, InventorySets
<1> HIDE DEF less, open, was
<1>7. /\ Cardinality(less) <= Cardinality(active) /\ Cardinality(open) <= Cardinality(was)
      /\ {Cardinality(less), Cardinality(active), Cardinality(open), Cardinality(was)} \subseteq Nat
  <2>1. less \in SUBSET OpIds /\ open \in SUBSET OpIds
    BY <1>6
  <2> QED
    BY <1>6, <2>1, Sizes
<1>8. Cardinality(was) <= MaxRecords /\ Cardinality(Names) <= MaxIdentities
  BY DEF ScanInv, ReopenWithinLimits, was
<1>9. Cardinality(less) <= MaxRecords /\ Cardinality(open) <= MaxRecords
  BY <1>1, <1>7, <1>8, WindowsJournalAssumption
<1>10. InventoryWithinLimits'
  BY <1>1, <1>9 DEF InventoryWithinLimits, less
<1>11. ReopenWithinLimits'
  BY <1>4, <1>8, <1>9 DEF ReopenWithinLimits, open
<1> QED
  BY <1>5, <1>10, <1>11

LEMMA ScanInvariance == Spec => []ScanInv
<1>1. Init => ScanInv
  <2> SUFFICES ASSUME Init PROVE ScanInv
    OBVIOUS
  <2>1. WindowsInv
    BY DEF Init, WindowsInv, TypeOK, InventoryIsSound, CanLoad
  <2>2. Present = {} /\ Names = {} /\ Names \intersect Unacknowledged = {}
    BY DEF Init, Present, Names, Unacknowledged
  <2>3. ReopenWithinLimits
    BY <2>2, FS_EmptySet, WindowsJournalAssumption DEF ReopenWithinLimits
  <2> QED
    BY <2>1, <2>3 DEF Init, ScanInv, ScanIsCovered, InventoryWithinLimits, CanLoad
<1>2. ScanInv /\ [Next]_windowsVars => ScanInv'
  <2> SUFFICES ASSUME ScanInv, [Next]_windowsVars
               PROVE  ScanIsCovered' /\ InventoryWithinLimits' /\ ReopenWithinLimits'
    BY WindowsInductive DEF ScanInv
  <2>1. CASE Open
    <3>1. /\ Names' = Names /\ Unacknowledged' = Unacknowledged
          /\ ids' = Names /\ active' = Names \intersect Unacknowledged
      BY <2>1 DEF Open, Names, Present, Unacknowledged
    <3> QED
      BY <3>1 DEF ScanInv, ScanIsCovered, InventoryWithinLimits, ReopenWithinLimits
  <2>2. CASE Close
    BY <2>2 DEF Close, ScanInv, ScanIsCovered, InventoryWithinLimits, ReopenWithinLimits,
                CanLoad, Names, Present, Unacknowledged
  <2>3. ASSUME NEW id \in OpIds, CreateAny(id)
        PROVE  ScanIsCovered' /\ InventoryWithinLimits' /\ ReopenWithinLimits'
    BY <2>3, FreshRecordType, CreateCovers DEF CreateAny
  <2>4. ASSUME NEW id \in OpIds, ReplaceAny(id)
        PROVE  ScanIsCovered' /\ InventoryWithinLimits' /\ ReopenWithinLimits'
    BY <2>4, ReplaceCovers DEF ReplaceAny
  <2>5. CASE UNCHANGED windowsVars
    BY <2>5 DEF windowsVars, ScanInv, ScanIsCovered, InventoryWithinLimits,
                ReopenWithinLimits, CanLoad, Names, Present, Unacknowledged
  <2> QED
    BY <2>1, <2>2, <2>3, <2>4, <2>5 DEF Next
<1> QED
  BY <1>1, <1>2, PTL DEF Spec

(* A Windows client can always restart: open() of src/windows_journal.rs   *)
(* refuses no table that the journal itself has written, whichever writes  *)
(* failed and however the query is cut off.                                *)
THEOREM WindowsReopens == Spec => []ReopenWithinLimits
<1>1. ScanInv => ReopenWithinLimits
  BY DEF ScanInv
<1> QED
  BY <1>1, ScanInvariance, PTL

(* Only results beyond the query can be missed after a restart: the others *)
(* are offered to the Manager until it confirms them, and as long as the   *)
(* table has no more rows than the query returns, that is all of them.     *)
ScannedResultsArePending ==
    /\ CanLoad => {id \in Names : ResultOwed(rows[id])} \subseteq PendingResults
    /\ Cardinality(Present) <= ScanLimit => OwedResultsArePending

(* pending_results misses no row that the query of open() returns.         *)
THEOREM ScannedResultsAreOffered == Spec => []ScannedResultsArePending
<1>1. ScanInv => ScannedResultsArePending
  <2> SUFFICES ASSUME ScanInv, CanLoad
               PROVE  /\ {id \in Names : ResultOwed(rows[id])} \subseteq PendingResults
                      /\ Cardinality(Present) <= ScanLimit => Names = Present
    BY DEF ScannedResultsArePending, OwedResultsArePending
  <2>1. {id \in Names : ResultOwed(rows[id])} \subseteq PendingResults
    BY DEF ScanInv, ScanIsCovered, Names, Present, Unacknowledged, PendingResults, Loaded,
           ResultOwed
  <2>2. ASSUME Cardinality(Present) <= ScanLimit PROVE Names = Present
    <3>1. ASSUME NEW id \in Present PROVE id \in Names
      <4> DEFINE before == {n \in Present : n <= id}
      <4>1. before \in SUBSET Present /\ before \in SUBSET OpIds /\ Present \in SUBSET OpIds
        BY DEF Present
      <4>2. /\ Cardinality(before) <= Cardinality(Present)
            /\ Cardinality(before) \in Nat /\ Cardinality(Present) \in Nat
        BY <4>1, Sizes
      <4> HIDE DEF before
      <4>3. Cardinality(before) <= ScanLimit
        BY <2>2, <4>2, WindowsJournalAssumption
      <4> QED
        BY <4>3 DEF Names, before
    <3> QED
      BY <3>1 DEF Names
  <2> QED
    BY <2>1, <2>2
<1> QED
  BY <1>1, ScanInvariance, PTL
=============================================================================
