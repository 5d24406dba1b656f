------------------------- MODULE ExecutorRefinement -------------------------
(***************************************************************************)
(* The engine with its journal, its lane, lost responses, edits, timeouts  *)
(* and crashes implements the ledger of EffectLedger.  The ledger is read  *)
(* off the durable records and the history of requests and answers; it     *)
(* does not speak of repeated reads, which need no record.                 *)
(***************************************************************************)
EXTENDS Executor

Ledger == INSTANCE EffectLedger WITH
    owner <- [id \in OpIds |-> IF disk[id] = None THEN None ELSE disk[id].fingerprint],
    committed <- [id \in OpIds |-> disk[id] # None /\ disk[id].effect # None],
    requests <- posts,
    verdict <- [id \in OpIds |->
        IF disk[id] # None /\ Final(disk[id].report) THEN disk[id].report ELSE None],
    over <- [id \in OpIds |-> disk[id] # None /\ disk[id].acknowledged],
    told <- [t \in Tasks |-> IF Mutates(t) THEN told[t] ELSE {}]

(* Every step of the engine, of Sunshine, of the local user and of a crash *)
(* is a step of the ledger or leaves it alone: at any instant the durable  *)
(* records and the requests that really left tell one consistent story.    *)
ImplementsLedger == Ledger!LedgerSpec
=============================================================================
