----------------------------- MODULE Executor ------------------------------
(***************************************************************************)
(* The execution engine (src/engine.rs) on top of the file journal and of  *)
(* the Sunshine adapter.  One tokio mutex makes it a single serial lane:   *)
(* lane.step is the await point its holder has reached, "idle" when the    *)
(* mutex is free.  Between two steps the world may move: Sunshine applies  *)
(* or loses a request, the local user edits, the deadline passes, the      *)
(* process dies.                                                           *)
(***************************************************************************)
EXTENDS Sunshine

CONSTANTS
    MaxRecords, MaxIdentities,  \* limits of the journal
    InitialApps,                \* application list Sunshine starts with
    EditedApps,                 \* application lists the local user may install
    Edited,                     \* what the local user touches
    RestartAttempts             \* 10: reconciliations after a restart request

VARIABLES
    disk, ids, active, poisoned, opened,    \* the journal
    lane,       \* the engine behind its mutex
    sunshine,   \* Sunshine's own state
    flight,     \* requests sent and neither applied nor lost
    answer,     \* answer[t]: what Sunshine replied to the request of task t
    posts,      \* history: posts[id], requests ever sent for an operation
    told,       \* history: told[t], verdicts returned for a task
    goal,       \* history: tasks whose goal held at some time after their intent
    closed      \* history: operations the Manager declared final

journalVars == <<disk, ids, active, poisoned, opened>>
worldVars == <<sunshine, flight, answer>>
historyVars == <<posts, told, goal, closed>>
vars == <<journalVars, lane, worldVars, historyVars>>

J == INSTANCE Journal
        WITH Fingerprints <- Tasks, Effects <- Intents, Answers <- Reports

TaskRecord == Record(Tasks, Intents, Reports)

ASSUME ExecutorAssumption ==
    /\ None \notin TaskRecord \union Intents
    /\ InitialApps \in Seq(AppRefs)
    /\ EditedApps \subseteq Seq(AppRefs)
    /\ {MaxRecords, MaxIdentities, RestartAttempts} \subseteq Nat

Idle ==
    [step |-> "idle", task |-> None, rec |-> None, seen |-> None,
     position |-> 0, attempt |-> 1, bounded |-> FALSE, volatile |-> FALSE,
     deadline |-> "none"]

Busy == lane.step # "idle"

(* Sunshine answers HTTPS requests only while its process runs. *)
Reachable == sunshine.service = "Running"

(***************************************************************************)
(* Answers                                                                 *)
(***************************************************************************)

(* What settles an operation; Unknown and the gate's refusals do not. *)
Verdicts == Refusals \union Successes

Reply(task, report) ==
    /\ lane' = Idle
    /\ told' = [told EXCEPT ![task] = @ \union ({report} \intersect Verdicts)]

PersistenceFailed(task) == Reply(task, "Unknown.PersistenceFailure")

(* A report that carries a snapshot may exceed MAX_REPORT_BYTES. *)
Snapshots ==
    {"Read", "ConfigSaved", "RestartAcknowledged", "ApplicationSaved",
     "ApplicationDeleted", "PairedClientUpdated"}

Sized(report, effect) ==
    {report} \union
    (IF report \notin Snapshots THEN {}
     ELSE IF effect # None THEN {"Unknown.ResultTooLarge"}
     ELSE {"Rejected.ResultTooLarge"})

(* Mutated form: the report is returned although it was not saved. *)
ReturnedAnyway(report, outcome) == report

(* A report that could not be saved is never returned. *)
Returned(report, outcome) ==
    IF outcome = "Ok" THEN report ELSE "Unknown.PersistenceFailure"

(* finish: save the report, then return it.  A read that has no record     *)
(* because the journal was full is not saved.                              *)
Finish(report) ==
    \E out \in Sized(report, lane.rec.effect) :
        IF lane.volatile THEN Reply(lane.task, out) /\ UNCHANGED journalVars
        ELSE \E outcome \in {"Ok", "Storage"} :
               /\ J!Replace(lane.task.id, [lane.rec EXCEPT !.report = out], outcome)
               /\ Reply(lane.task, Returned(out, outcome))

(* Where the reconciliation of an effect starts. *)
FirstReading(effect) == IF ReadTwice(effect) THEN "reconcile" ELSE "conclude"

(***************************************************************************)
(* deliver_before                                                          *)
(***************************************************************************)

(* Mutated form: a read without a record is executed as if it had one. *)
StartRecorded(task, record, step, bounded, volatile, deadline) ==
    /\ lane' = [Idle EXCEPT !.step = step, !.task = task, !.rec = record,
                            !.bounded = bounded, !.deadline = deadline]
    /\ UNCHANGED told

Start(task, record, step, bounded, volatile, deadline) ==
    /\ lane' = [Idle EXCEPT !.step = step, !.task = task, !.rec = record,
                            !.bounded = bounded, !.volatile = volatile,
                            !.deadline = deadline]
    /\ UNCHANGED told

(* Only Execute carries a deadline, which may have passed while the        *)
(* delivery waited for the mutex.                                          *)
Deadlines(mode) == IF mode = "Execute" THEN {"running", "expired"} ELSE {"none"}

(* Mutated form: a saved intent does not keep a redelivery from executing. *)
IntentForgotten(record) == FALSE

(* A saved intent is an ambiguous point of no return. *)
MustReconcile(record) == record.effect # None

DeliverKnown(task, mode, deadline) ==
    LET record == J!Loaded(task.id) IN
    /\ record # None
    /\ UNCHANGED journalVars
    /\ IF record.fingerprint # task THEN Reply(task, "Rejected.OperationIdReused")
       ELSE IF record.acknowledged THEN Reply(task, "Rejected.OperationAlreadyCompleted")
       ELSE IF Final(record.report) THEN Reply(task, record.report)
       ELSE IF MustReconcile(record)
       THEN Start(task, record, FirstReading(record.effect), FALSE, FALSE, deadline)
       ELSE IF record.report # None THEN Reply(task, record.report)
       ELSE IF mode = "InspectOnly" THEN Reply(task, "Unknown.NoExecutionRecord")
       ELSE Start(task, record, "start", TRUE, FALSE, deadline)

DeliverNew(task, mode, deadline) ==
    LET record == FreshRecord(task) IN
    /\ J!Loaded(task.id) = None
    /\ IF mode = "InspectOnly"
       THEN Reply(task, "Unknown.NoExecutionRecord") /\ UNCHANGED journalVars
       ELSE \/ J!Create(task.id, record, "Ok")
               /\ Start(task, record, "start", TRUE, FALSE, deadline)
            \/ /\ J!Create(task.id, record, "Full")
               /\ IF Mutates(task) THEN Reply(task, "Rejected.JournalFull")
                  ELSE Start(task, record, "start", TRUE, TRUE, deadline)
            \/ J!Create(task.id, record, "Storage") /\ PersistenceFailed(task)

Deliver(task, mode) ==
    /\ opened /\ ~Busy
    /\ \E deadline \in Deadlines(mode) :
          \/ PersistenceFailed(task) /\ UNCHANGED journalVars
          \/ /\ ~poisoned
             /\ DeliverKnown(task, mode, deadline) \/ DeliverNew(task, mode, deadline)
    /\ UNCHANGED <<worldVars, posts, goal, closed>>

(***************************************************************************)
(* execute_bounded and execute, up to the durable intent                   *)
(***************************************************************************)

Expired == lane.deadline = "expired"

At(step) == Busy /\ lane.step = step

GoTo(step) ==
    /\ lane' = [lane EXCEPT !.step = step]
    /\ UNCHANGED <<journalVars, told>>

Begin ==
    /\ At("start")
    /\ IF Expired THEN Finish("Rejected.ExecutionExpired")
       ELSE GoTo(IF Checked(lane.task) THEN "check" ELSE "intend")
    /\ UNCHANGED <<worldVars, posts, goal, closed>>

(* A reading of Sunshine that may refuse the command, or fail.  A refusal  *)
(* that could not be saved comes back as an Unknown without an intent, and *)
(* execute_bounded, if the time is over by then, saves an expiry instead.  *)
Refuse(world) ==
    \/ Finish("Rejected.SunshineUnavailable")
    \/ Expired /\ ~lane.volatile /\ Finish("Rejected.ExecutionExpired")
    \/ /\ Reachable \/ ~Mutates(lane.task)
       /\ \E report \in CheckOutcomes(lane.task, world) \ {"Proceed"} : Finish(report)

Check ==
    /\ At("check")
    /\ \/ Refuse(sunshine)
       \/ /\ Reachable
          /\ "Proceed" \in CheckOutcomes(lane.task, sunshine)
          /\ lane' = [lane EXCEPT
                !.step = IF CheckedTwice(lane.task) THEN "recheck" ELSE "intend",
                !.seen = IF lane.task.command = "SaveConfig"
                         THEN sunshine.config ELSE None]
          /\ UNCHANGED <<journalVars, told>>
    /\ UNCHANGED <<worldVars, posts, goal, closed>>

Recheck ==
    /\ At("recheck")
    /\ \/ Refuse(sunshine)
       \/ /\ Reachable
          /\ "Proceed" \in CheckOutcomes(lane.task, sunshine)
          /\ GoTo("intend")
    /\ UNCHANGED <<worldVars, posts, goal, closed>>

StepAfterIntent(task) == IF Guarded(task) THEN "guard" ELSE "post"

(* Mutated form: the effect goes ahead although its intent was not saved. *)
RememberedAnyway(outcome) == TRUE

Remembered(outcome) == outcome = "Ok"

(* Save the intent; without it there is no effect. *)
Remember(effect) ==
    LET rec == [lane.rec EXCEPT !.effect = effect] IN
    \E outcome \in {"Ok", "Storage"} :
        /\ J!Replace(lane.task.id, rec, outcome)
        /\ IF Remembered(outcome)
           THEN /\ lane' = [lane EXCEPT !.rec = rec, !.step = StepAfterIntent(lane.task)]
                /\ UNCHANGED told
           ELSE PersistenceFailed(lane.task)

(* Tasks whose durable intent the world fulfils at this very moment. *)
Achieved(journal, world) ==
    {t \in Tasks :
        /\ journal[t.id] # None
        /\ journal[t.id].fingerprint = t
        /\ journal[t.id].effect # None
        /\ Fulfilled(journal[t.id].effect, world)}

(* An effect whose time has passed is refused before anything is saved:    *)
(* remember returns false and execute_bounded answers ExecutionExpired.    *)
(* Sampling the process generation is part of this step: what happens      *)
(* between the sample and the save may as well happen after the save.      *)
Intend ==
    /\ At("intend")
    /\ IF Expired THEN Finish("Rejected.ExecutionExpired")
       ELSE \E generation \in SampledGenerations(sunshine) :
              Remember(Intent(lane.task, lane.seen, generation))
    /\ goal' = goal \union Achieved(disk', sunshine)
    /\ UNCHANGED <<worldVars, posts, closed>>

(***************************************************************************)
(* The effect                                                              *)
(***************************************************************************)

GuardPasses(task, world) == GuardHolds(task, world)

(* The adapter fails before it has sent anything. *)
Abandon ==
    IF lane.rec.effect.kind = "Unobservable" THEN Finish("Unknown.SideEffectNotConfirmed")
    ELSE GoTo(FirstReading(lane.rec.effect))

(* The adapter's last readings before a guarded write.  A mismatch is a    *)
(* refusal known to precede the write; any other failure leaves it to      *)
(* reconciliation to find out that nothing was written.                    *)
Guard(step) ==
    /\ At(step)
    /\ \/ Reachable /\ GuardPasses(lane.task, sunshine)
          /\ lane' = [lane EXCEPT
                !.step = IF step = "guard" /\ GuardedTwice(lane.task)
                         THEN "guardAgain" ELSE "post",
                !.position = Position(lane.task, sunshine)]
          /\ UNCHANGED <<journalVars, told>>
       \/ Reachable /\ ~GuardPasses(lane.task, sunshine)
          /\ Finish("Rejected.ResourceConflict")
       \/ Abandon
    /\ UNCHANGED <<worldVars, posts, goal, closed>>

(* require_effect_budget: no request leaves after the deadline. *)
Post ==
    /\ At("post")
    /\ ~Expired
    /\ posts' = [posts EXCEPT ![lane.task.id] = @ + 1]
    /\ flight' = flight \union
          {[task |-> lane.task, effect |-> lane.rec.effect, position |-> lane.position]}
    /\ GoTo("await")
    /\ UNCHANGED <<sunshine, answer, goal, closed>>

(* The request is not sent: the deadline passed or the backup failed. *)
PostSkipped ==
    /\ At("post")
    /\ Expired \/ BackedUp(lane.task)
    /\ Abandon
    /\ UNCHANGED <<worldVars, posts, goal, closed>>

(* Mutated form: any HTTP answer is taken for success. *)
OptimisticReport(task, reply) ==
    IF task.command = "SubmitPairingPin" THEN "PairingPinSubmitted" ELSE "SideEffectCompleted"

(* What an unobservable effect is reported as, given Sunshine's answer. *)
UnobservableReport(task, reply) ==
    CASE reply = "ok" /\ task.command = "SubmitPairingPin" -> "PairingPinSubmitted"
      [] reply = "ok" /\ task.command # "SubmitPairingPin" -> "SideEffectCompleted"
      [] reply = "refused" -> "Rejected.PairingFailed"
      [] OTHER -> "Unknown.SideEffectNotConfirmed"

(* Mutated form: the request to Sunshine has no timeout of its own. *)
AnsweredReplies(task) == {answer[task]} \ {"none"}

Replies(task) == {"none", answer[task]}

(* The response arrives, or the connection or the request's own timeout    *)
(* ends the wait.  Only an unobservable effect looks at which it was.      *)
Await ==
    /\ At("await")
    /\ \E reply \in Replies(lane.task) :
          IF lane.rec.effect.kind = "Unobservable"
          THEN Finish(UnobservableReport(lane.task, reply))
          ELSE GoTo(FirstReading(lane.rec.effect))
    /\ UNCHANGED <<worldVars, posts, goal, closed>>

(***************************************************************************)
(* reconcile                                                               *)
(***************************************************************************)

(* A restart is looked for up to ten times after its own request. *)
Retrying ==
    /\ lane.rec.effect.kind = "RestartObserved"
    /\ lane.bounded
    /\ lane.attempt < RestartAttempts

(* Sunshine does not answer, or its answer does not confirm the effect. *)
NotConfirmed ==
    IF Retrying
    THEN /\ lane' = [lane EXCEPT !.step = "reconcile", !.seen = None, !.attempt = @ + 1]
         /\ UNCHANGED <<journalVars, told>>
    ELSE Finish(UncertaintyOf(lane.rec.effect))

(* The first of two readings. *)
Reconcile ==
    /\ At("reconcile")
    /\ \/ /\ lane' = [lane EXCEPT !.step = "conclude", !.seen = sunshine]
          /\ UNCHANGED <<journalVars, told>>
       \/ NotConfirmed
    /\ UNCHANGED <<worldVars, posts, goal, closed>>

(* The only or last reading. *)
Conclude ==
    LET effect == lane.rec.effect IN
    /\ At("conclude")
    /\ \/ /\ Reachable \/ effect.kind = "ControlService"
          /\ \E generation \in Samples(effect, lane.seen, sunshine) :
                Confirmed(effect, lane.seen, sunshine, generation)
          /\ Finish(SuccessOf(effect))
       \/ NotConfirmed
    /\ UNCHANGED <<worldVars, posts, goal, closed>>

(***************************************************************************)
(* Time                                                                    *)
(***************************************************************************)

(* One of the three clocks of the deadline runs out. *)
Expire ==
    /\ Busy /\ lane.deadline = "running"
    /\ lane' = [lane EXCEPT !.deadline = "expired"]
    /\ UNCHANGED <<journalVars, worldVars, historyVars>>

(* Mutated forms: a timeout does not ask whether an intent was saved. *)
TimeoutAlwaysRefused(record) == "Rejected.SunshineUnavailable"

TimeoutAlwaysUnknown(record) == "Unknown.EffectNotConfirmed"

TimeoutReport(record) ==
    IF record.effect # None THEN "Unknown.EffectNotConfirmed"
    ELSE "Rejected.SunshineUnavailable"

Waiting ==
    lane.step \in {"check", "recheck", "intend", "guard", "guardAgain", "await",
                   "reconcile", "conclude"}

(* The 90-second limit cancels execute at any of its await points. *)
Timeout ==
    /\ Busy /\ lane.bounded /\ Waiting
    /\ Finish(TimeoutReport(lane.rec))
    /\ UNCHANGED <<worldVars, posts, goal, closed>>

(***************************************************************************)
(* acknowledge_final                                                       *)
(***************************************************************************)

(* Mutated form: any receipt closes the operation. *)
ClosedByAnyReceipt(report, finalized) == TRUE

(* Keep an uncertain intent for inspection; compact only final results. *)
Closes(report, finalized) == finalized \/ Final(report)

(* A receipt for a report of this task, which the Manager got from a       *)
(* delivery or from pending_results.  A receipt that does not name the     *)
(* current report changes nothing (the caller gets Ok or an error).        *)
Acknowledge(task, report, finalized) ==
    LET record == J!Loaded(task.id)
        closing == Closes(report, finalized) IN
    /\ opened /\ ~poisoned /\ ~Busy
    /\ record # None
    /\ ~record.acknowledged
    /\ record.fingerprint = task
    /\ record.report = report
    /\ \E outcome \in {"Ok", "Storage"} :
          J!Replace(task.id,
                    [record EXCEPT !.acknowledged = closing,
                                   !.report = IF closing THEN None ELSE @,
                                   !.effect = IF closing THEN None ELSE @,
                                   !.accepted = report], outcome)
    /\ closed' = IF finalized THEN closed \union {task.id} ELSE closed
    /\ UNCHANGED <<lane, worldVars, posts, told, goal>>

(***************************************************************************)
(* The process, Sunshine and the local user                                *)
(***************************************************************************)

Open ==
    /\ J!Open
    /\ UNCHANGED <<lane, worldVars, historyVars>>

(* The process dies, or is stopped and its tasks are aborted. *)
Crash ==
    /\ J!Close
    /\ lane' = Idle
    /\ UNCHANGED <<worldVars, historyVars>>

World(world) ==
    /\ sunshine' = world
    /\ goal' = goal \union Achieved(disk, world)
    /\ UNCHANGED <<journalVars, lane, posts, told, closed>>

(* A request may take effect long after the client gave up on it. *)
Land(request) ==
    /\ Reachable \/ request.effect.kind = "ControlService"
    /\ Apply(request.effect, request.position, sunshine).generation <= MaxGeneration
    /\ flight' = flight \ {request}
    /\ \/ /\ World(Apply(request.effect, request.position, sunshine))
          /\ answer' = [answer EXCEPT ![request.task] = "ok"]
       \/ /\ request.task.command = "SubmitPairingPin"
          /\ World(sunshine)
          /\ answer' = [answer EXCEPT ![request.task] = "refused"]

Lose(request) ==
    /\ flight' = flight \ {request}
    /\ UNCHANGED <<journalVars, lane, sunshine, answer, historyVars>>

Edit ==
    /\ \/ /\ "config" \in Edited
          /\ \E config \in Config : World([sunshine EXCEPT !.config = config])
       \/ /\ "apps" \in Edited
          /\ \E apps \in EditedApps : World([sunshine EXCEPT !.apps = apps])
       \/ /\ "clients" \in Edited
          /\ \E c \in Clients, state \in ClientStates :
                World([sunshine EXCEPT !.clients[c] = state])
       \/ /\ "process" \in Edited
          /\ \/ World([sunshine EXCEPT !.service = "Stopped"])
             \/ sunshine.generation < MaxGeneration /\ World(Restarted(sunshine))
    /\ UNCHANGED <<flight, answer>>

(***************************************************************************)

Init ==
    /\ J!JournalInit
    /\ lane = Idle
    /\ \E config \in Config :
          sunshine = [config |-> config, apps |-> InitialApps,
                      clients |-> [c \in Clients |-> "enabled"],
                      service |-> "Running", generation |-> 0]
    /\ flight = {}
    /\ answer = [t \in Tasks |-> "none"]
    /\ posts = [id \in OpIds |-> 0]
    /\ told = [t \in Tasks |-> {}]
    /\ goal = {}
    /\ closed = {}

(* What the holder of the mutex does next. *)
Step ==
    \/ Begin
    \/ Check
    \/ Recheck
    \/ Intend
    \/ Guard("guard")
    \/ Guard("guardAgain")
    \/ Post
    \/ PostSkipped
    \/ Await
    \/ Reconcile
    \/ Conclude

Next ==
    \/ Step
    \/ \E task \in Tasks, mode \in {"Execute", "InspectOnly"} : Deliver(task, mode)
    \/ \E task \in Tasks, report \in Reports, finalized \in BOOLEAN :
          Acknowledge(task, report, finalized)
    \/ Timeout
    \/ Expire
    \/ Open
    \/ Crash
    \/ \E request \in flight : Land(request) \/ Lose(request)
    \/ Edit

Spec == Init /\ [][Next]_vars

(* Every await of the lane ends: requests and processes it waits for have  *)
(* their own timeouts.                                                     *)
FairSpec == Spec /\ WF_vars(Step)

(***************************************************************************)
(* Properties                                                              *)
(***************************************************************************)

Steps ==
    {"idle", "start", "check", "recheck", "intend", "guard", "guardAgain",
     "post", "await", "reconcile", "conclude"}

Requests == [task : Tasks, effect : Intents, position : Nat]

Lanes ==
    [step : Steps, task : Tasks \union {None}, rec : TaskRecord \union {None},
     seen : Config \union WorldStates \union {None}, position : Nat,
     attempt : Nat, bounded : BOOLEAN, volatile : BOOLEAN,
     deadline : {"none", "running", "expired"}]

TypeOK ==
    /\ disk \in [OpIds -> TaskRecord \union {None}]
    /\ ids \in SUBSET OpIds
    /\ active \in SUBSET OpIds
    /\ poisoned \in BOOLEAN
    /\ opened \in BOOLEAN
    /\ lane \in Lanes
    /\ sunshine \in WorldStates
    /\ flight \in SUBSET Requests
    /\ answer \in [Tasks -> {"none", "ok", "refused"}]
    /\ posts \in [OpIds -> Nat]
    /\ told \in [Tasks -> SUBSET Verdicts]
    /\ goal \in SUBSET Tasks
    /\ closed \in SUBSET OpIds

(* One operation ID causes at most one request to Sunshine, whatever the   *)
(* Manager redelivers, whatever response is lost, and however often the    *)
(* client crashes, fails to write its journal or runs out of time: the     *)
(* engine reconciles a saved intent and never executes it again.           *)
AtMostOneRequest == \A id \in OpIds : posts[id] <= 1

(* Whoever restarts the client after a request was sent finds the intent   *)
(* on disk, or the tombstone the Manager's receipt left in its place.      *)
RequestImpliesIntent ==
    \A id \in OpIds :
        posts[id] > 0 =>
            /\ disk[id] # None
            /\ disk[id].effect # None \/ disk[id].acknowledged

(* Refusals that promise that nothing was sent.  A wrong pairing PIN is    *)
(* refused by Sunshine itself, after the request.                          *)
HarmlessRefusals == Refusals \ {"Rejected.PairingFailed"}

(* A Conflict or a Rejected returned for a mutation stays true for ever:   *)
(* no request was sent for it before, and none is sent after, whichever    *)
(* deadline, conflict, failed reading or timeout caused it.                *)
RefusedMeansUntouched ==
    \A t \in Tasks :
        Mutates(t) /\ told[t] \intersect HarmlessRefusals # {} => posts[t.id] = 0

(* A success is never claimed for an effect nobody saw: either Sunshine    *)
(* acknowledged the unobservable effect, or the state the intent aims at   *)
(* really held at some moment after the intent became durable.             *)
SuccessIsWitnessed ==
    \A t \in Tasks :
        /\ told[t] \intersect {"SideEffectCompleted", "PairingPinSubmitted"} # {}
              => answer[t] = "ok"
        /\ told[t] \intersect {"ConfigSaved", "RestartAcknowledged", "ApplicationSaved",
                                "ApplicationDeleted", "PairedClientUpdated",
                                "ServiceControlled"} # {}
              => t \in goal

(* The Manager never hears two different verdicts about one mutation, even *)
(* across crashes and inspections, and even if a later reading of Sunshine *)
(* would now support another one.                                          *)
OneVerdict ==
    \A t \in Tasks :
        Mutates(t) => \A v, w \in told[t] : v = w

(* A verdict is durable before it is returned: as long as no receipt has   *)
(* closed the operation, any later crash finds the same verdict on disk.   *)
VerdictIsDurable ==
    \A t \in Tasks :
        Mutates(t) /\ told[t] # {} =>
            /\ disk[t.id] # None
            /\ disk[t.id].acknowledged \/ disk[t.id].report \in told[t]

(* The engine saves an Unknown only about an effect it has an intent for,  *)
(* so that an inspection can always collect fresh evidence about it.       *)
UncertaintyHasIntent ==
    \A id \in OpIds :
        disk[id] # None =>
            (Uncertain(disk[id].report) => disk[id].effect # None)

(* The engine never tries a write that the journal refuses: a storage      *)
(* failure it reports is a failure of the storage.                         *)
WritesAreLegal ==
    Busy /\ ~poisoned /\ ~lane.volatile =>
        LET existing == disk[lane.task.id] IN
        /\ lane.task.id \in ids /\ existing # None
        /\ ~existing.acknowledged
        /\ existing.fingerprint = lane.task
        /\ existing.effect = lane.rec.effect
        /\ ~Final(existing.report)

(* An operation is closed only by a receipt for a final report, or by the  *)
(* Manager's explicit decision to finalize an uncertain one.               *)
ClosedByTheManager ==
    \A id \in OpIds :
        disk[id] # None =>
            (disk[id].acknowledged => Final(disk[id].accepted) \/ id \in closed)

(* Once an operation is closed nothing more is sent for it, nothing about  *)
(* it stays in execution and its tombstone never changes again.            *)
ClosedIsOver ==
    [][\A id \in OpIds :
          disk[id] # None =>
            (disk[id].acknowledged => disk'[id] = disk[id] /\ posts'[id] = posts[id])]_vars

(* The mutex is always released: a delivery ends with a report, however    *)
(* Sunshine, the journal and the clocks behave.                            *)
DeliveryEnds == Busy ~> ~Busy
============================================================================
