-------------------------- MODULE WindowsJournal ---------------------------
(***************************************************************************)
(* The execution journal of Windows (src/windows_journal.rs): one row of a *)
(* SQLite table per operation ID.  It keeps the same in-memory inventory   *)
(* as the file journal, but load reads the row itself, and the inventory   *)
(* is rebuilt from a name query that stops after ScanLimit rows (LIMIT     *)
(* 4098 in src/storage/sqlite.rs, in name order).                          *)
(*                                                                         *)
(* Its caller is the executor, which loads an ID before it creates it.     *)
(***************************************************************************)
EXTENDS Records, Naturals, FiniteSets

CONSTANTS
    Operations,     \* operation IDs are 1 .. Operations, in name order
    Fingerprints, Effects, Answers,
    MaxRecords,     \* 4096: unacknowledged records
    MaxIdentities,  \* 1,000,000: records of any kind
    ScanLimit       \* 4098: rows the inventory query returns

OpIds == 1 .. Operations

WindowsRecord == Record(Fingerprints, Effects, Answers)

ASSUME WindowsJournalAssumption ==
    /\ {Operations, MaxRecords, MaxIdentities, ScanLimit} \subseteq Nat
    /\ Answers \subseteq Reports
    /\ None \notin WindowsRecord

VARIABLES rows, ids, active, poisoned, opened

windowsVars == <<rows, ids, active, poisoned, opened>>

Present == {id \in OpIds : rows[id] # None}

Unacknowledged == {id \in Present : ~rows[id].acknowledged}

(* SELECT name FROM facts ORDER BY name LIMIT ScanLimit. *)
Names == {id \in Present : Cardinality({n \in Present : n <= id}) <= ScanLimit}

CanLoad == opened /\ ~poisoned

(* Mutated form: load consults the inventory, as the file journal does. *)
LoadedFromInventory(id) == IF id \in ids THEN rows[id] ELSE None

Loaded(id) == rows[id]

AtCapacity ==
    Cardinality(active) >= MaxRecords \/ Cardinality(ids) >= MaxIdentities

(* Mutated form: the inventory is trusted after a failed write. *)
TrustedPut(id, record, outcome) ==
    /\ \/ rows' = [rows EXCEPT ![id] = record]
       \/ outcome = "Storage" /\ UNCHANGED rows
    /\ UNCHANGED poisoned

(* One autocommitted upsert: a failure leaves the old or the new row. *)
Put(id, record, outcome) ==
    \/ /\ outcome = "Ok"
       /\ rows' = [rows EXCEPT ![id] = record]
       /\ UNCHANGED poisoned
    \/ /\ outcome = "Storage"
       /\ rows' = [rows EXCEPT ![id] = record] \/ UNCHANGED rows
       /\ poisoned' = TRUE

(* The executor creates a record only when load returned none. *)
Create(id, record, outcome) ==
    /\ CanLoad
    /\ Loaded(id) = None
    /\ id \notin ids
    /\ \/ /\ AtCapacity
          /\ outcome = "Full"
          /\ UNCHANGED windowsVars
       \/ /\ ~AtCapacity
          /\ Put(id, record, outcome)
          /\ IF outcome = "Ok"
             THEN /\ ids' = ids \union {id}
                  /\ active' = active \union {id}
             ELSE UNCHANGED <<ids, active>>
          /\ UNCHANGED opened

Replace(id, record, outcome) ==
    /\ CanLoad
    /\ Loaded(id) # None
    /\ ReplaceAllowed(Loaded(id), record)
    /\ Put(id, record, outcome)
    /\ active' = IF outcome = "Ok" /\ record.acknowledged
                 THEN active \ {id} ELSE active
    /\ UNCHANGED <<ids, opened>>

PendingResults == {id \in active : Loaded(id) # None /\ ResultOwed(Loaded(id))}

Open ==
    /\ ~opened
    /\ Cardinality(Names \intersect Unacknowledged) <= MaxRecords
    /\ Cardinality(Names) <= MaxIdentities
    /\ opened' = TRUE
    /\ ids' = Names
    /\ active' = Names \intersect Unacknowledged
    /\ poisoned' = FALSE
    /\ UNCHANGED rows

Close ==
    /\ opened
    /\ opened' = FALSE
    /\ ids' = {} /\ active' = {}
    /\ poisoned' = FALSE
    /\ UNCHANGED rows

Init ==
    /\ rows = [id \in OpIds |-> None]
    /\ ids = {} /\ active = {}
    /\ poisoned = FALSE
    /\ opened = FALSE

CreateAny(id) ==
    \E f \in Fingerprints, outcome \in {"Ok", "Full", "Storage"} :
        Create(id, FreshRecord(f), outcome)

ReplaceAny(id) ==
    \E record \in WindowsRecord, outcome \in {"Ok", "Storage"} :
        Replace(id, record, outcome)

Next ==
    \/ Open
    \/ Close
    \/ \E id \in OpIds : CreateAny(id)
    \/ \E id \in OpIds : ReplaceAny(id)

Spec == Init /\ [][Next]_windowsVars

(***************************************************************************)
(* Properties                                                              *)
(***************************************************************************)

TypeOK ==
    /\ rows \in [OpIds -> WindowsRecord \union {None}]
    /\ ids \in SUBSET OpIds
    /\ active \in SUBSET OpIds
    /\ poisoned \in BOOLEAN
    /\ opened \in BOOLEAN

(* Although the inventory forgets identities beyond the query limit, no    *)
(* operation ID is ever given to another task and no tombstone or intent   *)
(* is lost: load reads the row and not the inventory.                      *)
HistoryIsPermanent ==
    [][\A id \in Present :
          /\ rows'[id].fingerprint = rows[id].fingerprint
          /\ rows[id].acknowledged => rows'[id].acknowledged
          /\ rows'[id].acknowledged \/
                /\ rows[id].effect \in {None, rows'[id].effect}
                /\ Final(rows[id].report) => rows'[id].report = rows[id].report]_rows

(* The inventory never claims an identity or an owed result that the table *)
(* does not hold: what is offered again to the Manager is what was saved.  *)
InventoryIsSound ==
    CanLoad => ids \subseteq Present /\ active \subseteq Unacknowledged

(* docs/usage.md: "task results are kept durably, and reporting continues  *)
(* after a reconnection".  Every result the Manager has not confirmed is   *)
(* offered again after any restart, as long as there is room for it: the   *)
(* backend admits MaxIdentities identities.                                *)
OwedResultsArePending ==
    CanLoad => {id \in Present : ResultOwed(rows[id])} \subseteq PendingResults
============================================================================
