------------------------ MODULE TransportRefinement ------------------------
(***************************************************************************)
(* The sessions, lost and repeated messages, reconnections, receipts and   *)
(* crashes between the engine and the Manager implement the ledger of      *)
(* EffectLedger as well.  The ledger is read off the journal as in         *)
(* ExecutorRefinement, but what was told is what the Manager itself knows, *)
(* at the far end of the channel.  Requests are the Executor's matter.     *)
(***************************************************************************)
EXTENDS Transport

(* The task of an operation. *)
Asked(id) == Delivery(id, "Execute")

(* What a record says of its operation. *)
Owned(record, id) == IF record = None THEN None ELSE Asked(id)
Committed(record) == record # None /\ record.effect # None
Verdict(record) == IF record # None /\ Final(record.report) THEN record.report ELSE None
Over(record) == record # None /\ record.acknowledged

Owners == [id \in OpIds |-> Owned(disk[id], id)]
Commitments == [id \in OpIds |-> Committed(disk[id])]
Verdicts == [id \in OpIds |-> Verdict(disk[id])]
Endings == [id \in OpIds |-> Over(disk[id])]

(* The verdicts the Manager has. *)
Heard == [task \in {Asked(id) : id \in OpIds} |->
            {known[task.id]} \intersect (Refusals \union Successes)]

Ledger == INSTANCE EffectLedger WITH
    Tasks <- {Asked(id) : id \in OpIds},
    owner <- Owners,
    committed <- Commitments,
    requests <- [id \in OpIds |-> 0],
    verdict <- Verdicts,
    over <- Endings,
    told <- Heard

(* The Manager hears of an operation what the journal decided, after it    *)
(* was decided and before it is closed, and never anything else.           *)
ImplementsLedger == Ledger!LedgerSpec
=============================================================================
