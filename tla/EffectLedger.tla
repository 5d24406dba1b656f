---------------------------- MODULE EffectLedger ----------------------------
(***************************************************************************)
(* What the execution engine promises the Manager about every operation    *)
(* ID, without a journal, a lane, readings or crashes: a ledger with one   *)
(* line per ID.  A task claims the line, the effect is committed to before *)
(* its only request is performed, one verdict is entered and may then be   *)
(* told any number of times, and the Manager closes the line for good.     *)
(***************************************************************************)
EXTENDS Records, Naturals

CONSTANTS OpIds, Tasks

VARIABLES
    owner,      \* owner[id]: the task the ID belongs to, or None
    committed,  \* committed[id]: the effect may have been requested
    requests,   \* requests[id]: requests performed for the ID
    verdict,    \* verdict[id]: the verdict entered, or None
    over,       \* over[id]: the Manager closed the operation
    told        \* told[t]: verdicts the Manager was told about task t

ledgerVars == <<owner, committed, requests, verdict, over, told>>

(* Refusals that promise that nothing was requested.  A wrong pairing PIN  *)
(* is refused by Sunshine itself.                                          *)
BeforeTheEffect == Refusals \ {"Rejected.PairingFailed"}

LedgerInit ==
    /\ owner = [id \in OpIds |-> None]
    /\ committed = [id \in OpIds |-> FALSE]
    /\ requests = [id \in OpIds |-> 0]
    /\ verdict = [id \in OpIds |-> None]
    /\ over = [id \in OpIds |-> FALSE]
    /\ told = [t \in Tasks |-> {}]

Undecided(id) == owner[id] # None /\ ~over[id] /\ verdict[id] = None

Claim(task) ==
    /\ owner[task.id] = None
    /\ owner' = [owner EXCEPT ![task.id] = task]
    /\ UNCHANGED <<committed, requests, verdict, over, told>>

Commit(id) ==
    /\ Undecided(id) /\ ~committed[id]
    /\ committed' = [committed EXCEPT ![id] = TRUE]
    /\ UNCHANGED <<owner, requests, verdict, over, told>>

Perform(id) ==
    /\ Undecided(id) /\ committed[id]
    /\ requests[id] = 0
    /\ requests' = [requests EXCEPT ![id] = 1]
    /\ UNCHANGED <<owner, committed, verdict, over, told>>

(* The verdict is entered; the Manager may or may not hear it now. *)
Decide(id, report) ==
    /\ Undecided(id)
    /\ report \in BeforeTheEffect => requests[id] = 0
    /\ report \in Successes \ {"Read"} => committed[id]
    /\ verdict' = [verdict EXCEPT ![id] = report]
    /\ told' \in {told, [told EXCEPT ![owner[id]] = @ \union {report}]}
    /\ UNCHANGED <<owner, committed, requests, over>>

Tell(id) ==
    /\ verdict[id] # None /\ ~over[id]
    /\ told' = [told EXCEPT ![owner[id]] = @ \union {verdict[id]}]
    /\ UNCHANGED <<owner, committed, requests, verdict, over>>

(* A verdict, or an effect that may have happened, is settled. *)
CloseLine(id) ==
    /\ owner[id] # None /\ ~over[id]
    /\ verdict[id] # None \/ committed[id]
    /\ over' = [over EXCEPT ![id] = TRUE]
    /\ verdict' = [verdict EXCEPT ![id] = None]
    /\ committed' = [committed EXCEPT ![id] = FALSE]
    /\ UNCHANGED <<owner, requests, told>>

LedgerNext ==
    \/ \E task \in Tasks : Claim(task)
    \/ \E id \in OpIds :
          \/ Commit(id)
          \/ Perform(id)
          \/ \E report \in Refusals \union Successes : Decide(id, report)
          \/ Tell(id)
          \/ CloseLine(id)

LedgerSpec == LedgerInit /\ [][LedgerNext]_ledgerVars
=============================================================================
