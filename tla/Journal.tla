------------------------------ MODULE Journal ------------------------------
(***************************************************************************)
(* The execution journal of Linux and macOS (src/journal.rs): one private  *)
(* file per operation ID, written with an atomic create or rename, and an  *)
(* in-memory inventory rebuilt when the client opens the directory under   *)
(* an exclusive advisory lock.                                             *)
(*                                                                         *)
(* A write that reports failure may nevertheless have installed the new    *)
(* file (the fsync of the directory failed).  The journal then distrusts   *)
(* its inventory until the process is restarted: it is poisoned.           *)
(***************************************************************************)
EXTENDS Records, Naturals, FiniteSets

CONSTANTS
    OpIds,          \* operation IDs the Manager may use
    Fingerprints,   \* fingerprints of the tasks sent under those IDs
    Effects,        \* intents that can be recorded
    Answers,        \* reports that can be recorded
    MaxRecords,     \* MAX_RECORDS: unacknowledged records
    MaxIdentities   \* MAX_IDENTITIES: records of any kind

JournalRecord == Record(Fingerprints, Effects, Answers)

ASSUME JournalAssumption ==
    /\ Answers \subseteq Reports
    /\ MaxRecords \in Nat
    /\ MaxIdentities \in Nat
    /\ None \notin JournalRecord
    /\ None \notin Effects \union Reports

VARIABLES
    disk,       \* disk[id]: the durable record of id, or None
    ids,        \* in-memory inventory of all identities
    active,     \* in-memory inventory of unacknowledged records
    poisoned,   \* a write failed in this process
    opened      \* the process holds the journal open

journalVars == <<disk, ids, active, poisoned, opened>>

Present == {id \in OpIds : disk[id] # None}

(* Mutated form: a receipt of any report counts as the last one. *)
NeverAccepted == {id \in Present : disk[id].accepted = None}

Unacknowledged == {id \in Present : ~disk[id].acknowledged}

(***************************************************************************)
(* The Journal trait.  An operator takes the outcome its caller sees.      *)
(***************************************************************************)

CanLoad == opened /\ ~poisoned

(* What load returns when it does not fail; it may also fail to read. *)
Loaded(id) == IF id \in ids THEN disk[id] ELSE None

(* Mutated form: one record too many. *)
BeyondCapacity ==
    Cardinality(active) > MaxRecords \/ Cardinality(ids) > MaxIdentities

AtCapacity ==
    Cardinality(active) >= MaxRecords \/ Cardinality(ids) >= MaxIdentities

Installed(id, record) == disk' = [disk EXCEPT ![id] = record]

(* Mutated form: the inventory is trusted after a failed write. *)
TrustedFailedWrite(id, record) ==
    /\ Installed(id, record) \/ UNCHANGED disk
    /\ UNCHANGED <<ids, active, poisoned, opened>>

(* The write failed; the new content may or may not be on disk. *)
FailedWrite(id, record) ==
    /\ poisoned' = TRUE
    /\ Installed(id, record) \/ UNCHANGED disk
    /\ UNCHANGED <<ids, active, opened>>

(* The first failure: poisoned, a known ID, or an unencodable record. *)
Create(id, record, outcome) ==
    \/ /\ outcome = "Storage"
       /\ UNCHANGED journalVars
    \/ /\ outcome = "Full"
       /\ ~poisoned /\ id \notin ids
       /\ AtCapacity
       /\ UNCHANGED journalVars
    \/ /\ outcome = "Ok"
       /\ ~poisoned /\ id \notin ids
       /\ ~AtCapacity
       /\ Installed(id, record)
       /\ ids' = ids \union {id}
       /\ active' = IF record.acknowledged THEN active ELSE active \union {id}
       /\ UNCHANGED <<poisoned, opened>>
    \/ /\ outcome = "Storage"
       /\ ~poisoned /\ id \notin ids
       /\ ~AtCapacity
       /\ FailedWrite(id, record)

Replaceable(id, record) ==
    /\ ~poisoned
    /\ Loaded(id) # None
    /\ ReplaceAllowed(Loaded(id), record)

(* The first failure: poisoned, refused, or no reading of the old record. *)
Replace(id, record, outcome) ==
    \/ /\ outcome = "Storage"
       /\ UNCHANGED journalVars
    \/ /\ outcome = "Ok"
       /\ Replaceable(id, record)
       /\ Installed(id, record)
       /\ active' = IF record.acknowledged THEN active \ {id} ELSE active
       /\ UNCHANGED <<ids, poisoned, opened>>
    \/ /\ outcome = "Storage"
       /\ Replaceable(id, record)
       /\ FailedWrite(id, record)

PendingResults == {id \in active : Loaded(id) # None /\ ResultOwed(disk[id])}

(* Mutated form: closed identities are left out of the inventory. *)
OpenForgettingTombstones ==
    /\ ~opened
    /\ opened' = TRUE
    /\ ids' = Unacknowledged
    /\ active' = Unacknowledged
    /\ poisoned' = FALSE
    /\ UNCHANGED disk

(* FileJournal::open reads every record; a count over a limit is refused.  *)
Open ==
    /\ ~opened
    /\ Cardinality(Unacknowledged) <= MaxRecords
    /\ Cardinality(Present) <= MaxIdentities
    /\ opened' = TRUE
    /\ ids' = Present
    /\ active' = Unacknowledged
    /\ poisoned' = FALSE
    /\ UNCHANGED disk

(* The process ends, with or without warning: only the files remain. *)
Close ==
    /\ opened
    /\ opened' = FALSE
    /\ ids' = {} /\ active' = {}
    /\ poisoned' = FALSE
    /\ UNCHANGED disk

(***************************************************************************)
(* The journal used by a caller that may try any record.                   *)
(***************************************************************************)

JournalInit ==
    /\ disk = [id \in OpIds |-> None]
    /\ ids = {} /\ active = {}
    /\ poisoned = FALSE
    /\ opened = FALSE

CreateAny(id) ==
    /\ opened
    /\ \E f \in Fingerprints, outcome \in {"Ok", "Full", "Storage"} :
          Create(id, FreshRecord(f), outcome)

(* The caller changes a loaded record in any way the type allows. *)
ReplaceAny(id) ==
    /\ opened
    /\ \E record \in JournalRecord, outcome \in {"Ok", "Storage"} :
          Replace(id, record, outcome)

JournalNext ==
    \/ Open
    \/ Close
    \/ \E id \in OpIds : CreateAny(id)
    \/ \E id \in OpIds : ReplaceAny(id)

JournalSpec == JournalInit /\ [][JournalNext]_journalVars

(***************************************************************************)
(* Properties                                                              *)
(***************************************************************************)

JournalTypeOK ==
    /\ disk \in [OpIds -> JournalRecord \union {None}]
    /\ ids \in SUBSET OpIds
    /\ active \in SUBSET OpIds
    /\ poisoned \in BOOLEAN
    /\ opened \in BOOLEAN

(* While no write has failed, the inventory kept in memory is the one a    *)
(* restart would rebuild from the files: capacity is counted on the truth  *)
(* and load never answers "no record" for an identity that is on disk.     *)
InventoryMatchesDisk ==
    opened /\ ~poisoned => ids = Present /\ active = Unacknowledged

(* Whatever sequence of writes fails after installing its file, the next   *)
(* open of the directory is never refused for being over a limit: a client *)
(* that filled its journal can always restart.                             *)
ReopenWithinLimits ==
    /\ Cardinality(Unacknowledged) <= MaxRecords
    /\ Cardinality(Present) <= MaxIdentities

(* Across any writes, failed writes and restarts an identity on disk is    *)
(* never evicted or given to another task, a saved intent outlives         *)
(* everything but the Manager's closing receipt, a final report is never   *)
(* rewritten and a tombstone never comes back to life.                     *)
HistoryIsPermanent ==
    [][\A id \in Present :
          /\ disk'[id] # None
          /\ disk'[id].fingerprint = disk[id].fingerprint
          /\ disk[id].acknowledged => disk'[id].acknowledged
          /\ disk'[id].acknowledged \/
                /\ disk[id].effect \in {None, disk'[id].effect}
                /\ Final(disk[id].report) => disk'[id].report = disk[id].report]_disk

(* Every result the Manager has not confirmed is offered again after any   *)
(* restart: pending_results misses none that is on disk.                   *)
OwedResultsArePending ==
    CanLoad => {id \in Present : ResultOwed(disk[id])} \subseteq PendingResults
============================================================================
