------------------------------ MODULE Records ------------------------------
(***************************************************************************)
(* Execution records and the rules every journal backend applies to them.  *)
(*                                                                         *)
(* A record is what the client durably knows about one operation ID: the   *)
(* fingerprint of the task, the intent saved before an effect is sent to   *)
(* Sunshine, the last report, and whether the Manager closed the operation.*)
(*                                                                         *)
(* A report is named by its variant and reason.  The SHA-256 digest of a   *)
(* report is taken to be injective, so the digest of r is r itself.        *)
(***************************************************************************)

CONSTANT None   \* Rust's Option::None: no record, no intent, no report, no digest

(* Unknown { reason }: what the client cannot tell the Manager for certain. *)
Uncertainties ==
    {"Unknown.EffectNotConfirmed", "Unknown.RestartNotConfirmed",
     "Unknown.SideEffectNotConfirmed", "Unknown.ServiceTransitionNotConfirmed",
     "Unknown.ResultTooLarge", "Unknown.NoExecutionRecord",
     "Unknown.PersistenceFailure"}

(* Rejected { reason } that execution writes to the journal, and Conflict. *)
Refusals ==
    {"Conflict", "Rejected.ExecutionExpired", "Rejected.SunshineUnavailable",
     "Rejected.ResourceConflict", "Rejected.PairingFailed",
     "Rejected.ResultTooLarge"}

(* Rejected { reason } answered at the gate, never written to the journal. *)
GateRefusals ==
    {"Rejected.OperationIdReused", "Rejected.OperationAlreadyCompleted",
     "Rejected.JournalFull"}

Successes ==
    {"Read", "ConfigSaved", "RestartAcknowledged", "ApplicationSaved",
     "ApplicationDeleted", "SideEffectCompleted", "PairingPinSubmitted",
     "PairedClientUpdated", "ServiceControlled"}

Reports == Uncertainties \union Refusals \union GateRefusals \union Successes

Uncertain(report) == report \in Uncertainties

Final(report) == report # None /\ ~Uncertain(report)

Record(fingerprints, effects, reports) ==
    [fingerprint : fingerprints, effect : effects \union {None},
     report : reports \union {None}, acknowledged : BOOLEAN,
     accepted : reports \union {None}]

(* Mutated form: a record of before receipts were remembered. *)
FreshRecordWithoutReceipt(fingerprint) ==
    [fingerprint |-> fingerprint, effect |-> None, report |-> None,
     acknowledged |-> FALSE]

FreshRecord(fingerprint) ==
    [fingerprint |-> fingerprint, effect |-> None, report |-> None,
     acknowledged |-> FALSE, accepted |-> None]

(* A tombstone keeps the identity only: no intent and no report. *)
ValidRecord(record) ==
    record.acknowledged => record.effect = None /\ record.report = None

(* Mutated form: only the identity of the record is protected. *)
ReplaceAllowedForTask(existing, record) ==
    /\ ValidRecord(record)
    /\ existing.fingerprint = record.fingerprint

(* Never erase an intent, change a fingerprint or rewrite a final report,  *)
(* except to compact the record when the Manager closes the operation.     *)
ReplaceAllowed(existing, record) ==
    /\ ValidRecord(record)
    /\ existing.fingerprint = record.fingerprint
    /\ existing.acknowledged => record.acknowledged
    /\ \/ record.acknowledged
       \/ /\ existing.effect \in {None, record.effect}
          /\ Final(existing.report) => existing.report = record.report

(* The result still has to reach the Manager. *)
ResultOwed(record) ==
    /\ ~record.acknowledged
    /\ record.report # None
    /\ Uncertain(record.report) \/ record.accepted # record.report
============================================================================
