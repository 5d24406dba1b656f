----------------------------- MODULE Transport -----------------------------
(***************************************************************************)
(* The Manager session (src/transport.rs).  run() keeps one execution,     *)
(* the reports it has computed and the receipts being saved across         *)
(* WebSocket sessions; the engine and its journal live as long as the      *)
(* process.  Deliveries and receipts are spawned tasks that compete for    *)
(* the engine's mutex.                                                     *)
(*                                                                         *)
(* The engine is what Executor shows it to be, cut down to the steps a     *)
(* session can tell apart: claim the ID, save the intent, save the report. *)
(* An operation ID stands for its task and its fingerprint.  The Manager   *)
(* is external: it sends one task at a time, confirms every result it      *)
(* reads, and never sends a task again that it has closed.                 *)
(***************************************************************************)
EXTENDS Records, Naturals, FiniteSets, SequencesExt

CONSTANTS
    OpIds,
    StorageFails,   \* whether the journal may fail
    \* Bounds
    MaxStarts,      \* starts of the process
    MaxSessions,    \* WebSocket sessions of one process
    MaxDeliveries,  \* tasks the Manager sends for one operation
    MaxQueue,       \* messages on the way, per direction
    MaxReceipts     \* receipts being saved

ASSUME TransportAssumption ==
    /\ {MaxStarts, MaxSessions, MaxDeliveries, MaxQueue, MaxReceipts} \subseteq Nat
    /\ StorageFails \in BOOLEAN
    /\ IsFiniteSet(OpIds)   \* a journal holds MAX_IDENTITIES of them
    /\ None \notin OpIds \union Reports \union {"intent", "Resolved", "Ok"}

VARIABLES
    disk, poisoned,     \* the journal
    run,        \* "off", "down" or "up" (the session), "stopping", "ended"
    cause,      \* how run() ended
    active,     \* the delivery whose JoinHandle run() holds, or None
    completed,  \* completed[id]: a report not yet confirmed, or None
    acknowledging,      \* receipts being saved
    toManager, toClient,    \* messages on the way in this session
    known,      \* known[id]: what the Manager knows of the operation
    busy,       \* the operation the Manager believes to be running
    starts, sessions, deliveries,   \* counters, for the bounds
    faulted,    \* history: the journal failed in this process
    begun       \* history: operations this process began to execute

journalVars == <<disk, poisoned, faulted, begun>>
runVars == <<run, cause, active, completed, acknowledging>>
channelVars == <<toManager, toClient>>
managerVars == <<known, busy, deliveries>>
vars == <<journalVars, runVars, channelVars, managerVars, starts, sessions>>

Modes == {"Execute", "InspectOnly"}

DeliveryRecord ==
    [id : OpIds, mode : Modes, phase : {"waiting", "holding", "done"},
     report : Reports \union {None}]

(* None is neither a record nor a delivery. *)
ASSUME NoRecordAssumption ==
    None \notin Record(OpIds, {"intent"}, Reports) \union DeliveryRecord

(* What the engine can come to, before and after an intent. *)
Outcomes(record) ==
    IF record.effect = None THEN {"Conflict"}
    ELSE {"ConfigSaved", "Unknown.EffectNotConfirmed", "Unknown.ResultTooLarge"}

Delivery(id, mode) == [id |-> id, mode |-> mode, phase |-> "waiting", report |-> None]

Receipt(id, report, finalized) ==
    [id |-> id, report |-> report, finalized |-> finalized, phase |-> "waiting"]

Result(id, report) == [type |-> "Result", id |-> id, report |-> report]

(***************************************************************************)
(* The engine behind its mutex                                             *)
(***************************************************************************)

Holding == active # None /\ active.phase = "holding"

(* Some file of the journal could not be read or written. *)
Fault == StorageFails /\ faulted' = TRUE

(* The journal cannot be read, or is poisoned. *)
Faulty == Fault \/ (poisoned /\ UNCHANGED faulted)

Answer(report) ==
    active' = [active EXCEPT !.phase = "done", !.report = report]

(* A write that failed may have installed the record. *)
Save(id, record, outcome) ==
    \/ /\ outcome = "Ok"
       /\ disk' = [disk EXCEPT ![id] = record]
       /\ UNCHANGED <<poisoned, faulted>>
    \/ /\ outcome = "Storage"
       /\ disk' \in {disk, [disk EXCEPT ![id] = record]}
       /\ poisoned' = TRUE
       /\ Fault

EngineUnchanged ==
    UNCHANGED <<run, cause, completed, acknowledging, channelVars, managerVars,
                starts, sessions>>

(* deliver_before takes the mutex. *)
Lock ==
    LET record == disk[active.id] IN
    /\ active # None /\ active.phase = "waiting"
    /\ \/ /\ Answer("Unknown.PersistenceFailure")
          /\ Faulty
          /\ UNCHANGED <<disk, poisoned, begun>>
       \/ /\ ~poisoned
          /\ record # None
          /\ IF record.acknowledged THEN Answer("Rejected.OperationAlreadyCompleted")
             ELSE IF Final(record.report) THEN Answer(record.report)
             ELSE IF record.effect = None /\ record.report # None THEN Answer(record.report)
             ELSE IF record.effect = None /\ active.mode = "InspectOnly"
             THEN Answer("Unknown.NoExecutionRecord")
             ELSE active' = [active EXCEPT !.phase = "holding"]
          /\ begun' = IF active'.phase = "holding" THEN begun \union {active.id} ELSE begun
          /\ UNCHANGED <<disk, poisoned, faulted>>
       \/ /\ ~poisoned
          /\ record = None
          /\ IF active.mode = "InspectOnly"
             THEN Answer("Unknown.NoExecutionRecord") /\ UNCHANGED journalVars
             ELSE \/ Answer("Rejected.JournalFull") /\ UNCHANGED journalVars
                  \/ \E outcome \in {"Ok", "Storage"} :
                        /\ Save(active.id, FreshRecord(active.id), outcome)
                        /\ begun' = begun \union {active.id}
                        /\ IF outcome = "Ok"
                           THEN active' = [active EXCEPT !.phase = "holding"]
                           ELSE Answer("Unknown.PersistenceFailure")
    /\ EngineUnchanged

(* The record with a change is saved, or the delivery ends without. *)
Commit(record, next) ==
    /\ \E outcome \in {"Ok", "Storage"} :
          /\ Save(active.id, record, outcome)
          /\ IF outcome = "Ok" THEN next ELSE Answer("Unknown.PersistenceFailure")
    /\ UNCHANGED begun
    /\ EngineUnchanged

Remember ==
    /\ Holding
    /\ disk[active.id].effect = None
    /\ Commit([disk[active.id] EXCEPT !.effect = "intent"], UNCHANGED active)

Finish ==
    /\ Holding
    /\ \E report \in Outcomes(disk[active.id]) :
          Commit([disk[active.id] EXCEPT !.report = report], Answer(report))

(* A receipt for a report that was accepted before. *)
OlderReceipt(record, report) == record.accepted = report

(* Mutated form: any receipt closes the operation. *)
AlwaysCloses(receipt) == TRUE

Closes(receipt) == receipt.finalized \/ Final(receipt.report)

(* acknowledge_final, in the task spawned for receipt i. *)
SaveReceipt(i) ==
    LET receipt == acknowledging[i]
        record == disk[receipt.id]
        Ends(phase) == acknowledging' = [acknowledging EXCEPT ![i].phase = phase] IN
    /\ receipt.phase = "waiting"
    /\ ~Holding
    /\ \/ /\ Ends("failed")
          /\ Faulty
          /\ UNCHANGED <<disk, poisoned>>
       \/ /\ ~poisoned
          /\ record # None => record.acknowledged
          /\ Ends("saved")
          /\ UNCHANGED <<disk, poisoned, faulted>>
       \/ /\ ~poisoned
          /\ record # None /\ ~record.acknowledged
          /\ record.report # receipt.report
          /\ Ends(IF OlderReceipt(record, receipt.report) THEN "saved" ELSE "failed")
          /\ UNCHANGED <<disk, poisoned, faulted>>
       \/ /\ ~poisoned
          /\ record # None /\ ~record.acknowledged
          /\ record.report = receipt.report
          /\ \E outcome \in {"Ok", "Storage"} :
                /\ Save(receipt.id,
                        [record EXCEPT !.acknowledged = Closes(receipt),
                                       !.report = IF Closes(receipt) THEN None ELSE @,
                                       !.effect = IF Closes(receipt) THEN None ELSE @,
                                       !.accepted = receipt.report], outcome)
                /\ Ends(IF outcome = "Ok" THEN "saved" ELSE "failed")
    /\ UNCHANGED <<begun, run, cause, active, completed, channelVars, managerVars,
                   starts, sessions>>

(***************************************************************************)
(* The process                                                             *)
(***************************************************************************)

Pending == {id \in OpIds : disk[id] # None /\ ResultOwed(disk[id])}

(* The journal is opened and run() collects what is still owed. *)
Start ==
    /\ run = "off"
    /\ starts < MaxStarts
    /\ starts' = starts + 1 /\ sessions' = 0
    /\ run' = "down"
    /\ poisoned' = FALSE /\ faulted' = FALSE /\ begun' = {}
    /\ completed' = [id \in OpIds |-> IF id \in Pending THEN disk[id].report ELSE None]
    /\ UNCHANGED <<disk, cause, active, acknowledging, channelVars, managerVars>>

(* The process dies: only the journal remains. *)
Crash ==
    /\ run # "off"
    /\ starts < MaxStarts
    /\ run' = "off" /\ cause' = None
    /\ active' = None /\ acknowledging' = <<>>
    /\ completed' = [id \in OpIds |-> None]
    /\ toManager' = <<>> /\ toClient' = <<>>
    /\ UNCHANGED <<journalVars, managerVars, starts, sessions>>

(* run() returns; deliveries and receipts are dropped with the runtime. *)
EndRun(error) ==
    /\ run' = "ended" /\ cause' = error
    /\ active' = None /\ acknowledging' = <<>>
    /\ toManager' = <<>> /\ toClient' = <<>>
    /\ UNCHANGED completed

(***************************************************************************)
(* session()                                                               *)
(***************************************************************************)

ResultsOf(reports) ==
    LET order == SetToSeq(DOMAIN reports)
    IN [i \in DOMAIN order |-> Result(order[i], reports[order[i]])]

Unconfirmed == {id \in OpIds : completed[id] # None}

Connect ==
    /\ run = "down"
    /\ sessions < MaxSessions
    /\ sessions' = sessions + 1
    /\ run' = "up"
    /\ toManager' =
          <<[type |-> "Hello", id |-> IF active = None THEN None ELSE active.id]>>
          \o ResultsOf([id \in Unconfirmed |-> completed[id]])
    /\ UNCHANGED <<cause, active, completed, acknowledging, toClient, journalVars,
                   managerVars, starts>>

(* The socket closes, a send times out, or the peer is silent too long. *)
Disconnect ==
    /\ run = "up"
    /\ sessions < MaxSessions
    /\ run' = "down"
    /\ toManager' = <<>> /\ toClient' = <<>>
    /\ UNCHANGED <<cause, active, completed, acknowledging, journalVars, managerVars,
                   starts, sessions>>

(* Mutated form: every task is executed, computed report or not. *)
AlwaysFresh(id, mode) == TRUE

(* An inspection of an uncertain report must collect fresh evidence. *)
NeedsExecution(id, mode) ==
    \/ completed[id] = None
    \/ mode = "InspectOnly" /\ Uncertain(completed[id])

OnTask(message) ==
    IF active # None
    THEN IF active.id = message.id
         THEN UNCHANGED <<run, cause, active, completed, acknowledging, toManager>>
              /\ toClient' = Tail(toClient)
         ELSE EndRun("Protocol")
    ELSE /\ toClient' = Tail(toClient)
         /\ UNCHANGED <<run, cause, acknowledging>>
         /\ IF NeedsExecution(message.id, message.mode)
            THEN /\ active' = Delivery(message.id, message.mode)
                 /\ completed' = [completed EXCEPT ![message.id] = None]
                 /\ UNCHANGED toManager
            ELSE /\ toManager' = Append(toManager, Result(message.id, completed[message.id]))
                 /\ UNCHANGED <<active, completed>>

OnResultAccepted(message) ==
    IF completed[message.id] = None
    THEN /\ toClient' = Tail(toClient)
         /\ UNCHANGED <<run, cause, active, completed, acknowledging, toManager>>
    ELSE IF completed[message.id] # message.report THEN EndRun("Protocol")
    ELSE /\ Len(acknowledging) < MaxReceipts
         /\ acknowledging' = Append(acknowledging,
                Receipt(message.id, message.report, message.finalized))
         /\ toClient' = Tail(toClient)
         /\ UNCHANGED <<run, cause, active, completed, toManager>>

OnMessage ==
    /\ run = "up"
    /\ toClient # <<>>
    /\ LET message == Head(toClient) IN
          CASE message.type = "Task" -> OnTask(message)
            [] message.type = "ResultAccepted" -> OnResultAccepted(message)
            [] message.type = "Revoked" -> EndRun("Revoked")
    /\ UNCHANGED <<journalVars, managerVars, starts, sessions>>

(* The execution is over. *)
OnExecuted ==
    /\ run = "up"
    /\ active # None /\ active.phase = "done"
    /\ completed' = [completed EXCEPT ![active.id] = active.report]
    /\ toManager' = Append(toManager, Result(active.id, active.report))
    /\ active' = None
    /\ UNCHANGED <<run, cause, acknowledging, toClient, journalVars, managerVars,
                   starts, sessions>>

(* Mutated form: a saved receipt removes whatever report is there. *)
ConfirmedById(receipt) == completed[receipt.id] # None

(* The report this receipt names is still the one to be confirmed. *)
Confirmed(receipt) == completed[receipt.id] = receipt.report

OnReceiptSaved(i) ==
    LET receipt == acknowledging[i] IN
    /\ run = "up"
    /\ \/ receipt.phase = "failed" /\ EndRun("Configuration")
       \/ /\ receipt.phase = "saved"
          /\ acknowledging' = RemoveAt(acknowledging, i)
          /\ completed' = IF Confirmed(receipt)
                          THEN [completed EXCEPT ![receipt.id] = None] ELSE completed
          /\ UNCHANGED <<run, cause, active, channelVars>>
    /\ UNCHANGED <<journalVars, managerVars, starts, sessions>>

(* Mutated form: a heartbeat offers what is already known only. *)
OfferedBefore == {id \in Pending : completed[id] # None}

Offered == Pending

(* The heartbeat offers again what the Manager has not confirmed. *)
OnTick ==
    /\ run = "up"
    /\ Len(toManager) < MaxQueue
    /\ active = None
    /\ \/ Faulty /\ EndRun("Configuration")
       \/ /\ ~poisoned
          /\ Offered # {}
          /\ completed' = [id \in OpIds |->
                IF id \in Offered /\ completed[id] = None THEN disk[id].report
                ELSE completed[id]]
          /\ toManager' = toManager \o ResultsOf([id \in Offered |-> disk[id].report])
          /\ UNCHANGED <<run, cause, active, acknowledging, toClient, faulted>>
    /\ UNCHANGED <<disk, poisoned, begun, managerVars, starts, sessions>>

(***************************************************************************)
(* shutdown()                                                              *)
(***************************************************************************)

(* The session is dropped; what runs may finish. *)
Stop ==
    /\ run \in {"down", "up"}
    /\ run' = "stopping"
    /\ toManager' = <<>> /\ toClient' = <<>>
    /\ UNCHANGED <<cause, active, completed, acknowledging, journalVars, managerVars,
                   starts, sessions>>

(* Mutated form: the running execution is not waited for. *)
ReceiptsSettled == \A i \in DOMAIN acknowledging : acknowledging[i].phase = "saved"

Drained ==
    /\ active # None =>
          active.phase = "done" /\ active.report # "Unknown.PersistenceFailure"
    /\ \A i \in DOMAIN acknowledging : acknowledging[i].phase = "saved"

(* Everything finished and was saved. *)
DrainedInTime ==
    /\ run = "stopping"
    /\ Drained
    /\ EndRun("Ok")
    /\ UNCHANGED <<journalVars, managerVars, starts, sessions>>

(* Something failed, or 30 seconds are over: the rest is aborted. *)
NotDrained ==
    /\ run = "stopping"
    /\ ~Drained
    /\ EndRun("ShutdownIncomplete")
    /\ UNCHANGED <<journalVars, managerVars, starts, sessions>>

(***************************************************************************)
(* The Manager (external)                                                  *)
(***************************************************************************)

ToClient(message) ==
    /\ Len(toClient) < MaxQueue
    /\ toClient' = Append(toClient, message)

ManagerUnchanged == UNCHANGED <<journalVars, runVars, starts, sessions>>

Accepted(id, report, finalized) ==
    [type |-> "ResultAccepted", id |-> id, report |-> report, finalized |-> finalized]

ManagerReceives ==
    /\ toManager # <<>>
    /\ toManager' = Tail(toManager)
    /\ LET message == Head(toManager) IN
       \/ /\ message.type = "Hello"
          /\ busy' = message.id
          /\ UNCHANGED <<known, toClient>>
       \/ /\ message.type = "Result"
          /\ busy' = IF busy = message.id THEN None ELSE busy
          /\ known' = [known EXCEPT ![message.id] =
                IF Final(@) THEN @ ELSE message.report]
          /\ ToClient(Accepted(message.id, message.report,
                               Final(known[message.id]) \/ Final(message.report)))
    /\ UNCHANGED deliveries
    /\ ManagerUnchanged

(* No task leaves before the Hello of the session was read. *)
Greeted == \A i \in DOMAIN toManager : toManager[i].type # "Hello"

ManagerSends ==
    \E id \in OpIds, mode \in Modes :
        /\ run = "up" /\ Greeted
        /\ busy \in {None, id}
        /\ ~Final(known[id])
        /\ deliveries[id] < MaxDeliveries
        /\ mode = "InspectOnly" => deliveries[id] > 0 /\ busy = None
        /\ deliveries' = [deliveries EXCEPT ![id] = @ + 1]
        /\ busy' = id
        /\ ToClient([type |-> "Task", id |-> id, mode |-> mode])
        /\ UNCHANGED <<known, toManager>>
        /\ ManagerUnchanged

(* Someone settles an uncertain operation by hand. *)
ManagerResolves ==
    \E id \in OpIds :
        /\ Uncertain(known[id])
        /\ known' = [known EXCEPT ![id] = "Resolved"]
        /\ UNCHANGED <<busy, deliveries, channelVars>>
        /\ ManagerUnchanged

ManagerRevokes ==
    /\ run = "up" /\ Greeted
    /\ ToClient([type |-> "Revoked"])
    /\ UNCHANGED <<toManager, managerVars>>
    /\ ManagerUnchanged

(***************************************************************************)

Init ==
    /\ disk = [id \in OpIds |-> None]
    /\ poisoned = FALSE /\ faulted = FALSE /\ begun = {}
    /\ run = "off" /\ cause = None
    /\ active = None /\ acknowledging = <<>>
    /\ completed = [id \in OpIds |-> None]
    /\ toManager = <<>> /\ toClient = <<>>
    /\ known = [id \in OpIds |-> None]
    /\ busy = None
    /\ deliveries = [id \in OpIds |-> 0]
    /\ starts = 0 /\ sessions = 0

Next ==
    \/ Lock
    \/ Remember
    \/ Finish
    \/ \E i \in DOMAIN acknowledging : SaveReceipt(i) \/ OnReceiptSaved(i)
    \/ Start
    \/ Crash
    \/ Connect
    \/ Disconnect
    \/ OnMessage
    \/ OnExecuted
    \/ OnTick
    \/ Stop
    \/ DrainedInTime
    \/ NotDrained
    \/ ManagerReceives
    \/ ManagerSends
    \/ ManagerResolves
    \/ ManagerRevokes

Spec == Init /\ [][Next]_vars

(* A tick that does not fail for the storage; no fairness asks it to fail. *)
SoundTick == OnTick /\ (poisoned \/ run' = "up")

(* The runtime polls every task that can proceed; the process is started   *)
(* again; the Manager can be reached again and reads what it is sent.      *)
FairSpec ==
    /\ Spec
    /\ WF_vars(Lock) /\ WF_vars(Finish)
    /\ WF_vars(\E i \in DOMAIN acknowledging : SaveReceipt(i))
    /\ WF_vars(\E i \in DOMAIN acknowledging : OnReceiptSaved(i))
    /\ WF_vars(OnMessage) /\ WF_vars(OnExecuted) /\ WF_vars(SoundTick)
    /\ WF_vars(DrainedInTime \/ NotDrained)
    /\ WF_vars(Start) /\ WF_vars(Connect) /\ WF_vars(ManagerReceives)

(***************************************************************************)
(* Properties                                                              *)
(***************************************************************************)

Unsettled(id) == disk[id] # None /\ Final(disk[id].report)

Closed(id) == disk[id] # None /\ disk[id].acknowledged

(* A final result that no receipt has settled is never dropped from        *)
(* memory: whatever sessions come and go, whichever older receipts are     *)
(* saved meanwhile, run() holds it or still owns the delivery it is from.  *)
FinalResultsAreHeld ==
    run \in {"down", "up"} /\ ~faulted =>
        \A id \in OpIds : Unsettled(id) =>
            \/ completed[id] = disk[id].report
            \/ active # None /\ active.id = id

(* What a Manager that keeps to the protocol is told, or is about to be,   *)
(* never contradicts the final result it has: not after a crash, not by a  *)
(* duplicated task, and not by calling an operation completed that the     *)
(* Manager has not closed.                                                 *)
OneFinalResult ==
    \A id \in OpIds :
        LET told == {completed[id]} \union
                    {toManager[i].report : i \in {j \in DOMAIN toManager :
                        toManager[j].type = "Result" /\ toManager[j].id = id}}
        IN \A report \in told : Final(report) =>
              IF Final(known[id])
              THEN \/ known[id] \in {report, "Resolved"}
                   \/ report = "Rejected.OperationAlreadyCompleted"
              ELSE report # "Rejected.OperationAlreadyCompleted"

(* The client compacts a record only after the Manager has closed the      *)
(* operation, however receipts, inspections and heartbeats interleave.     *)
ManagerClosesFirst ==
    \A id \in OpIds :
        Closed(id) => Final(known[id])

(* A shutdown reported as clean leaves no operation this process began     *)
(* without a saved report.                                                 *)
CleanShutdownIsSettled ==
    cause = "Ok" /\ ~faulted =>
        \A id \in begun :
            Closed(id) \/ (disk[id] # None /\ disk[id].report # None)

(* A final result, or an uncertain one that someone settled by hand,       *)
(* reaches the Manager and its receipt the journal: through lost results,  *)
(* lost and ignored receipts, reconnections and crashes, as long as run()  *)
(* has not ended.                                                          *)
ResultsAreConfirmed ==
    \A id \in OpIds :
        Unsettled(id) \/ (known[id] = "Resolved" /\ id \in Pending)
            ~> Closed(id) \/ run = "ended"

(* "An inspect request must collect fresh evidence even when the receipt   *)
(* for an earlier uncertain result is still being saved" (transport.rs):   *)
(* a Manager that keeps to the protocol is never answered by ending run()  *)
(* with a protocol error.                                                  *)
LateReceiptIsTolerated == cause # "Protocol"

(* "A receipt for an older uncertain observation can race a new inspection *)
(* result" (engine.rs): as long as the journal does not fail, no receipt   *)
(* ends run() with a state error.                                          *)
RacingReceiptIsTolerated == cause = "Configuration" => faulted
=============================================================================
