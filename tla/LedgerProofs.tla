---------------------------- MODULE LedgerProofs -----------------------------
(***************************************************************************)
(* The engine, with its journal, its lane, lost responses, failed writes,  *)
(* timeouts and crashes, implements the ledger of EffectLedger: for any    *)
(* number of operations, tasks, settings, applications and clients.  Every *)
(* step that changes a durable record, a request or an answer is one entry *)
(* of the ledger; all the others leave it alone.  Every step is also one   *)
(* that the journal allows its caller, so the theorems of JournalProofs    *)
(* hold of the journal the engine uses.                                    *)
(***************************************************************************)
EXTENDS ExecutorRefinement, ExecutorProofs

(* A step of the engine as the ledger sees it. *)
Follows == [Ledger!LedgerNext]_(Ledger!ledgerVars)

(* Nothing durable, no request and no answer about a mutation changes. *)
Quiet ==
    /\ UNCHANGED <<disk, posts>>
    /\ \A t \in Tasks : Mutates(t) => told'[t] = told[t]

(* The record of id is the only one that changes. *)
Becomes(id, record) ==
    /\ disk'[id] = record
    /\ \A other \in OpIds \ {id} : disk'[other] = disk[other]

-----------------------------------------------------------------------------
(* What each entry of the ledger needs *)

LEMMA QuietFollows == Quiet => Follows
<1> SUFFICES ASSUME Quiet PROVE UNCHANGED Ledger!ledgerVars
  BY DEF Follows
<1>1. disk' = disk /\ posts' = posts
  BY DEF Quiet
<1>2. [t \in Tasks |-> IF Mutates(t) THEN told[t] ELSE {}]'
        = [t \in Tasks |-> IF Mutates(t) THEN told[t] ELSE {}]
  BY DEF Quiet
<1> QED BY <1>1, <1>2 DEF Ledger!ledgerVars

LEMMA ClaimFollows ==
    ASSUME NEW task \in Tasks, disk[task.id] = None,
           Becomes(task.id, FreshRecord(task)),
           UNCHANGED <<posts, told>>
    PROVE  Follows
<1> DEFINE rec == FreshRecord(task)
           id0 == task.id
<1>1. /\ rec # None /\ rec.fingerprint = task /\ rec.effect = None
      /\ rec.report = None /\ ~rec.acknowledged
  BY FreshRecordType
<1>2. id0 \in OpIds
  BY TasksHaveIds
<1> HIDE DEF rec
<1>3. disk'[id0] = rec /\ \A other \in OpIds \ {id0} : disk'[other] = disk[other]
  BY DEF Becomes, rec
<1>4. Ledger!Claim(task)
  <2>1. [id \in OpIds |-> IF disk[id] = None THEN None ELSE disk[id].fingerprint]'
          = [[id \in OpIds |-> IF disk[id] = None THEN None ELSE disk[id].fingerprint]
               EXCEPT ![id0] = task]
    BY <1>1, <1>2, <1>3
  <2>2. [id \in OpIds |-> disk[id] # None /\ disk[id].effect # None]'
          = [id \in OpIds |-> disk[id] # None /\ disk[id].effect # None]
    BY <1>1, <1>2, <1>3
  <2>3. [id \in OpIds |-> IF disk[id] # None /\ Final(disk[id].report)
                            THEN disk[id].report ELSE None]'
          = [id \in OpIds |-> IF disk[id] # None /\ Final(disk[id].report)
                                THEN disk[id].report ELSE None]
    BY <1>1, <1>2, <1>3 DEF Final
  <2>4. [id \in OpIds |-> disk[id] # None /\ disk[id].acknowledged]'
          = [id \in OpIds |-> disk[id] # None /\ disk[id].acknowledged]
    BY <1>1, <1>2, <1>3
  <2> QED BY <1>2, <2>1, <2>2, <2>3, <2>4 DEF Ledger!Claim
<1> QED BY <1>4 DEF Follows, Ledger!LedgerNext

(* What is known of the record of the operation in execution. *)
LEMMA InExecution ==
    ASSUME Inv, Busy, ~lane.volatile
    PROVE  /\ lane.task \in Tasks /\ lane.task.id \in OpIds /\ lane.rec \in TaskRecord
           /\ lane.rec.fingerprint = lane.task /\ ~lane.rec.acknowledged
           /\ disk[lane.task.id] # None
           /\ disk[lane.task.id].fingerprint = lane.task
           /\ ~disk[lane.task.id].acknowledged
           /\ disk[lane.task.id].effect = lane.rec.effect
           /\ ~Final(disk[lane.task.id].report)
BY TasksHaveIds DEF Inv, Safe, LaneSafe, OnDisk

LEMMA CommitFollows ==
    ASSUME Inv, Busy, ~lane.volatile, lane.step = "intend", NEW effect \in Intents,
           Becomes(lane.task.id, [lane.rec EXCEPT !.effect = effect]),
           UNCHANGED <<posts, told>>
    PROVE  Follows
<1> DEFINE rec == [lane.rec EXCEPT !.effect = effect]
<1>1. PICK id0 \in OpIds : id0 = lane.task.id
  BY InExecution
<1>2. /\ disk[id0] # None /\ disk[id0].fingerprint = lane.task
      /\ ~disk[id0].acknowledged /\ disk[id0].effect = None
      /\ ~Final(disk[id0].report)
  BY <1>1, InExecution DEF Inv, Safe, LaneSafe, BeforeIntent
<1>3. /\ rec.fingerprint = lane.task /\ ~rec.acknowledged
      /\ rec.effect # None /\ rec.report = None /\ rec # None
  <2>1. rec \in TaskRecord
    BY InExecution DEF TaskRecord, Record
  <2> QED BY <2>1, InExecution, ExecutorAssumption
          DEF Inv, Safe, LaneSafe, BeforeIntent, TaskRecord, Record
<1> HIDE DEF rec
<1>4. disk'[id0] = rec /\ \A other \in OpIds \ {id0} : disk'[other] = disk[other]
  BY <1>1 DEF Becomes, rec
<1>5. Ledger!Commit(id0)
  <2>1. [id \in OpIds |-> IF disk[id] = None THEN None ELSE disk[id].fingerprint]'
          = [id \in OpIds |-> IF disk[id] = None THEN None ELSE disk[id].fingerprint]
    BY <1>2, <1>3, <1>4
  <2>2. [id \in OpIds |-> disk[id] # None /\ disk[id].effect # None]'
          = [[id \in OpIds |-> disk[id] # None /\ disk[id].effect # None]
               EXCEPT ![id0] = TRUE]
    BY <1>2, <1>3, <1>4
  <2>3. [id \in OpIds |-> IF disk[id] # None /\ Final(disk[id].report)
                            THEN disk[id].report ELSE None]'
          = [id \in OpIds |-> IF disk[id] # None /\ Final(disk[id].report)
                                THEN disk[id].report ELSE None]
    BY <1>2, <1>3, <1>4 DEF Final
  <2>4. [id \in OpIds |-> disk[id] # None /\ disk[id].acknowledged]'
          = [id \in OpIds |-> disk[id] # None /\ disk[id].acknowledged]
    BY <1>2, <1>3, <1>4
  <2>5. lane.task # None
    BY InExecution, TaskAssumption
  <2> QED BY <1>2, <2>1, <2>2, <2>3, <2>4, <2>5 DEF Ledger!Commit, Ledger!Undecided
<1> QED BY <1>5 DEF Follows, Ledger!LedgerNext

LEMMA PerformFollows ==
    ASSUME Inv, Post
    PROVE  Follows
<1>1. Busy /\ lane.step = "post" /\ LaneSafe
  BY DEF Post, At, Inv, Safe
<1>2. ~lane.volatile /\ lane.rec.effect # None /\ posts[lane.task.id] = 0
  BY <1>1 DEF LaneSafe, BeforeIntent, AfterRequest
<1>3. PICK id0 \in OpIds : id0 = lane.task.id
  BY <1>1, <1>2, InExecution
<1>4. /\ disk[id0] # None /\ disk[id0].fingerprint = lane.task
      /\ ~disk[id0].acknowledged /\ disk[id0].effect # None
      /\ ~Final(disk[id0].report) /\ lane.task # None
  BY <1>1, <1>2, <1>3, InExecution, TaskAssumption
<1>5. /\ UNCHANGED <<disk, told>>
      /\ posts' = [posts EXCEPT ![id0] = 1]
  BY <1>2, <1>3 DEF Post, GoTo, journalVars, Inv, Safe, Told
<1>6. Ledger!Perform(id0)
  BY <1>2, <1>3, <1>4, <1>5 DEF Ledger!Perform, Ledger!Undecided
<1> QED BY <1>6 DEF Follows, Ledger!LedgerNext

LEMMA DecideFollows ==
    ASSUME Inv, Busy, ~lane.volatile, NEW out \in Verdicts,
           out \in HarmlessRefusals => posts[lane.task.id] = 0,
           out \in Successes \ {"Read"} => lane.rec.effect # None,
           Becomes(lane.task.id, [lane.rec EXCEPT !.report = out]),
           \/ told' = told
           \/ told' = [told EXCEPT ![lane.task] = @ \union {out}],
           UNCHANGED posts
    PROVE  Follows
<1> DEFINE rec == [lane.rec EXCEPT !.report = out]
           heard == [t \in Tasks |-> IF Mutates(t) THEN told[t] ELSE {}]
<1>1. PICK id0 \in OpIds : id0 = lane.task.id
  BY InExecution
<1>2. /\ disk[id0] # None /\ disk[id0].fingerprint = lane.task
      /\ ~disk[id0].acknowledged /\ disk[id0].effect = lane.rec.effect
      /\ ~Final(disk[id0].report) /\ lane.task # None
  BY <1>1, InExecution, TaskAssumption
<1>3. /\ rec.fingerprint = lane.task /\ ~rec.acknowledged
      /\ rec.effect = lane.rec.effect /\ rec.report = out /\ rec # None
  <2>1. rec \in TaskRecord
    BY InExecution, ReportKinds DEF TaskRecord, Record
  <2> QED BY <2>1, InExecution, ExecutorAssumption DEF TaskRecord, Record
<1>4. Final(out) /\ out \in Refusals \union Successes
  BY ReportKinds DEF Final, Uncertain, Verdicts
<1> HIDE DEF rec
<1>5. disk'[id0] = rec /\ \A other \in OpIds \ {id0} : disk'[other] = disk[other]
  BY <1>1 DEF Becomes, rec
<1>6. Ledger!Decide(id0, out)
  <2>1. [id \in OpIds |-> IF disk[id] = None THEN None ELSE disk[id].fingerprint]'
          = [id \in OpIds |-> IF disk[id] = None THEN None ELSE disk[id].fingerprint]
    BY <1>2, <1>3, <1>5
  <2>2. [id \in OpIds |-> disk[id] # None /\ disk[id].effect # None]'
          = [id \in OpIds |-> disk[id] # None /\ disk[id].effect # None]
    BY <1>2, <1>3, <1>5
  <2>3. [id \in OpIds |-> IF disk[id] # None /\ Final(disk[id].report)
                            THEN disk[id].report ELSE None]'
          = [[id \in OpIds |-> IF disk[id] # None /\ Final(disk[id].report)
                                 THEN disk[id].report ELSE None] EXCEPT ![id0] = out]
    BY <1>2, <1>3, <1>4, <1>5
  <2>4. [id \in OpIds |-> disk[id] # None /\ disk[id].acknowledged]'
          = [id \in OpIds |-> disk[id] # None /\ disk[id].acknowledged]
    BY <1>2, <1>3, <1>5
  <2>5. heard' \in {heard, [heard EXCEPT ![lane.task] = @ \union {out}]}
    <3>1. lane.task \in Tasks /\ told \in [Tasks -> SUBSET Verdicts]
      BY InExecution DEF Inv, Safe, Told
    <3>2. CASE told' = told
      BY <3>2
    <3>3. CASE told' = [told EXCEPT ![lane.task] = @ \union {out}] /\ Mutates(lane.task)
      <4>1. told'[lane.task] = told[lane.task] \union {out}
        BY <3>1, <3>3
      <4>2. \A t \in Tasks \ {lane.task} : told'[t] = told[t]
        BY <3>1, <3>3
      <4>3. heard' = [heard EXCEPT ![lane.task] = @ \union {out}]
        BY <3>1, <3>3, <4>1, <4>2
      <4> QED BY <4>3
    <3>4. CASE told' = [told EXCEPT ![lane.task] = @ \union {out}] /\ ~Mutates(lane.task)
      <4>1. \A t \in Tasks \ {lane.task} : told'[t] = told[t]
        BY <3>1, <3>4
      <4>2. heard' = heard
        BY <3>4, <4>1
      <4> QED BY <4>2
    <3> QED BY <3>2, <3>3, <3>4
  <2>6. /\ out \in Ledger!BeforeTheEffect => posts[id0] = 0
        /\ out \in Ledger!Successes \ {"Read"} => disk[id0].effect # None
    BY <1>1, <1>2 DEF Ledger!BeforeTheEffect, Ledger!Refusals, Ledger!Successes,
                      HarmlessRefusals, Refusals, Successes
  <2> HIDE DEF heard
  <2>7. /\ Ledger!Undecided(id0)
        /\ [id \in OpIds |-> IF disk[id] = None THEN None ELSE disk[id].fingerprint][id0]
             = lane.task
        /\ [id \in OpIds |-> disk[id] # None /\ disk[id].effect # None][id0]
             = (disk[id0].effect # None)
    BY <1>2 DEF Ledger!Undecided
  <2> QED BY <2>1, <2>2, <2>3, <2>4, <2>5, <2>6, <2>7 DEF Ledger!Decide, heard
<1> QED BY <1>4, <1>6
        DEF Follows, Ledger!LedgerNext, Ledger!Refusals, Ledger!Successes,
            Refusals, Successes

(* An Unknown on disk is no verdict. *)
LEMMA UncertainFollows ==
    ASSUME Inv, Busy, ~lane.volatile, NEW out \in Uncertainties,
           Becomes(lane.task.id, [lane.rec EXCEPT !.report = out]),
           UNCHANGED <<posts, told>>
    PROVE  Follows
<1> DEFINE rec == [lane.rec EXCEPT !.report = out]
<1>1. PICK id0 \in OpIds : id0 = lane.task.id
  BY InExecution
<1>2. /\ disk[id0] # None /\ disk[id0].fingerprint = lane.task
      /\ ~disk[id0].acknowledged /\ disk[id0].effect = lane.rec.effect
      /\ ~Final(disk[id0].report)
  BY <1>1, InExecution
<1>3. /\ rec.fingerprint = lane.task /\ ~rec.acknowledged
      /\ rec.effect = lane.rec.effect /\ ~Final(rec.report) /\ rec # None
  <2>1. rec \in TaskRecord /\ rec.report = out
    BY InExecution, ReportKinds DEF TaskRecord, Record, Reports
  <2> QED BY <2>1, InExecution, ExecutorAssumption DEF TaskRecord, Record, Final, Uncertain
<1> HIDE DEF rec
<1>4. disk'[id0] = rec /\ \A other \in OpIds \ {id0} : disk'[other] = disk[other]
  BY <1>1 DEF Becomes, rec
<1> QED BY <1>2, <1>3, <1>4 DEF Follows, Ledger!ledgerVars

(* The verdict on disk is told once more. *)
LEMMA TellFollows ==
    ASSUME Inv, NEW task \in Tasks, disk[task.id] # None,
           disk[task.id].fingerprint = task, ~disk[task.id].acknowledged,
           Final(disk[task.id].report),
           Reply(task, disk[task.id].report),
           UNCHANGED <<disk, posts>>
    PROVE  Follows
<1> DEFINE report == disk[task.id].report
           heard == [t \in Tasks |-> IF Mutates(t) THEN told[t] ELSE {}]
<1>1. PICK id0 \in OpIds : id0 = task.id
  BY TasksHaveIds
<1>2. told' = [told EXCEPT ![task] = @ \union ({report} \intersect Verdicts)]
  BY DEF Reply
<1>3. /\ told'[task] = told[task] \union ({report} \intersect Verdicts)
      /\ \A t \in Tasks \ {task} : told'[t] = told[t]
  BY <1>2 DEF Inv, Safe, Told
<1>4. CASE ~Mutates(task) \/ report \notin Verdicts
  <2>1. Quiet
    BY <1>3, <1>4 DEF Quiet
  <2> QED BY <2>1, QuietFollows
<1>5. CASE Mutates(task) /\ report \in Verdicts
  <2>1. heard' = [heard EXCEPT ![task] = @ \union {report}]
    BY <1>3, <1>5
  <2>2. report # None
    BY <1>5, ReportKinds
  <2>3. /\ [id \in OpIds |-> IF disk[id] = None THEN None ELSE disk[id].fingerprint][id0] = task
        /\ [id \in OpIds |-> disk[id] # None /\ disk[id].acknowledged][id0] = FALSE
        /\ [id \in OpIds |-> IF disk[id] # None /\ Final(disk[id].report)
                               THEN disk[id].report ELSE None][id0] = report
    BY <1>1
  <2> HIDE DEF report
  <2>4. Ledger!Tell(id0)
    BY <2>1, <2>2, <2>3 DEF Ledger!Tell
  <2> QED BY <2>4 DEF Follows, Ledger!LedgerNext
<1> QED BY <1>4, <1>5

(* A receipt that settles the operation. *)
LEMMA CloseFollows ==
    ASSUME NEW id0 \in OpIds, NEW rec, rec # None,
           disk[id0] # None, ~disk[id0].acknowledged, disk[id0].fingerprint # None,
           Final(disk[id0].report) \/ disk[id0].effect # None,
           rec.fingerprint = disk[id0].fingerprint, rec.acknowledged,
           rec.report = None, rec.effect = None,
           Becomes(id0, rec), UNCHANGED <<posts, told>>
    PROVE  Follows
<1>1. disk'[id0] = rec /\ \A other \in OpIds \ {id0} : disk'[other] = disk[other]
  BY DEF Becomes
<1>2. [id \in OpIds |-> IF disk[id] = None THEN None ELSE disk[id].fingerprint]'
        = [id \in OpIds |-> IF disk[id] = None THEN None ELSE disk[id].fingerprint]
  BY <1>1
<1>3. [id \in OpIds |-> disk[id] # None /\ disk[id].effect # None]'
        = [[id \in OpIds |-> disk[id] # None /\ disk[id].effect # None]
             EXCEPT ![id0] = FALSE]
  BY <1>1
<1>4. [id \in OpIds |-> IF disk[id] # None /\ Final(disk[id].report)
                          THEN disk[id].report ELSE None]'
        = [[id \in OpIds |-> IF disk[id] # None /\ Final(disk[id].report)
                               THEN disk[id].report ELSE None] EXCEPT ![id0] = None]
  BY <1>1 DEF Final
<1>5. [id \in OpIds |-> disk[id] # None /\ disk[id].acknowledged]'
        = [[id \in OpIds |-> disk[id] # None /\ disk[id].acknowledged]
             EXCEPT ![id0] = TRUE]
  BY <1>1
<1>6. Final(disk[id0].report) => disk[id0].report # None
  BY DEF Final
<1>7. Ledger!CloseLine(id0)
  BY <1>2, <1>3, <1>4, <1>5, <1>6 DEF Ledger!CloseLine
<1> QED BY <1>7 DEF Follows, Ledger!LedgerNext

-----------------------------------------------------------------------------
(* Ending an execution *)

LEMMA OneRecord ==
    ASSUME Inv, NEW id \in OpIds, NEW rec, disk' = [disk EXCEPT ![id] = rec]
    PROVE  Becomes(id, rec)
BY DEF Becomes, Inv, Safe, Journalled

LEMMA NoVerdicts ==
    /\ "Unknown.PersistenceFailure" \notin Verdicts
    /\ "Unknown.NoExecutionRecord" \notin Verdicts
    /\ \A report \in GateRefusals : report \notin Verdicts
BY ReportKinds DEF Uncertainties

(* An answer that settles nothing, with no record written. *)
LEMMA AnswerFollows ==
    ASSUME Inv, NEW task, NEW report, report \notin Verdicts,
           Reply(task, report), UNCHANGED <<disk, posts>>
    PROVE  Follows
<1>1. told' = told
  BY DEF Reply, Inv, Safe, Told
<1> QED BY <1>1, QuietFollows DEF Quiet

(* Whatever finish saves and returns is one entry of the ledger, also when *)
(* the save is reported as failed after the file was installed.            *)
LEMMA FinishFollows ==
    ASSUME Inv, Busy, NEW report \in Verdicts \union Uncertainties,
           report \in Uncertainties => lane.rec.effect # None,
           report \in HarmlessRefusals => posts[lane.task.id] = 0,
           report \in Successes \ {"Read"} => lane.rec.effect # None,
           Finish(report), UNCHANGED posts
    PROVE  Follows
<1>1. PICK out \in Sized(report, lane.rec.effect) :
          IF lane.volatile THEN Reply(lane.task, out) /\ UNCHANGED journalVars
          ELSE \E outcome \in {"Ok", "Storage"} :
                 /\ J!Replace(lane.task.id, [lane.rec EXCEPT !.report = out], outcome)
                 /\ Reply(lane.task, Returned(out, outcome))
  BY DEF Finish
<1>2. /\ out \in Verdicts \union Uncertainties
      /\ out \in HarmlessRefusals => posts[lane.task.id] = 0
      /\ out \in Successes \ {"Read"} => lane.rec.effect # None
  <2>1. posts[lane.task.id] = 0 \/ lane.rec.effect # None
    BY DEF Inv, Safe, LaneSafe, BeforeIntent, AfterRequest
  <2>2. \/ out = report
        \/ lane.rec.effect = None /\ out = "Rejected.ResultTooLarge"
        \/ lane.rec.effect # None /\ out = "Unknown.ResultTooLarge"
    BY DEF Sized
  <2>3. "Unknown.ResultTooLarge" \notin HarmlessRefusals
    BY DEF HarmlessRefusals, Refusals
  <2>4. "Rejected.ResultTooLarge" \notin Successes
    BY DEF Successes
  <2> QED BY <2>1, <2>2, <2>3, <2>4, ReportKinds
<1>3. CASE lane.volatile
  <2>1. lane.task \in Tasks /\ ~Mutates(lane.task) /\ disk' = disk
    BY <1>1, <1>3 DEF Inv, Safe, LaneSafe, Mutates, journalVars
  <2>2. \A t \in Tasks : Mutates(t) => told'[t] = told[t]
    BY <1>1, <1>3, <2>1 DEF Reply, Inv, Safe, Told
  <2> QED BY <2>1, <2>2, QuietFollows DEF Quiet
<1>4. CASE ~lane.volatile
  <2> DEFINE rec == [lane.rec EXCEPT !.report = out]
  <2>1. PICK outcome \in {"Ok", "Storage"} :
            /\ J!Replace(lane.task.id, rec, outcome)
            /\ Reply(lane.task, Returned(out, outcome))
    BY <1>1, <1>4
  <2>2. rec \in TaskRecord /\ lane.task.id \in OpIds /\ lane.task \in Tasks
    BY <1>2, <1>4, InExecution, ReportKinds DEF TaskRecord, Record, Reports
  <2>3. /\ disk' = disk \/ disk' = [disk EXCEPT ![lane.task.id] = rec]
        /\ outcome = "Ok" => disk' = [disk EXCEPT ![lane.task.id] = rec]
    BY <2>1, <2>2, Replaced DEF Inv, Safe
  <2>4. outcome = "Storage" => told' = told
    BY <2>1, NoVerdicts DEF Reply, Returned, Inv, Safe, Told
  <2>5. outcome = "Ok" =>
            told' = [told EXCEPT ![lane.task] = @ \union ({out} \intersect Verdicts)]
    BY <2>1 DEF Reply, Returned
  <2>6. CASE disk' = disk /\ outcome = "Storage"
    BY <2>4, <2>6, QuietFollows DEF Quiet
  <2>7. CASE disk' = [disk EXCEPT ![lane.task.id] = rec] /\ out \in Verdicts
    <3>1. told' = told \/ told' = [told EXCEPT ![lane.task] = @ \union {out}]
      <4>1. {out} \intersect Verdicts = {out}
        BY <2>7
      <4> QED BY <2>1, <2>4, <2>5, <4>1
    <3>2. Becomes(lane.task.id, rec)
      BY <2>2, <2>7, OneRecord
    <3> QED BY <1>2, <1>4, <2>7, <3>1, <3>2, DecideFollows
  <2>8. CASE disk' = [disk EXCEPT ![lane.task.id] = rec] /\ out \in Uncertainties
    <3>1. told' = told
      <4>1. {out} \intersect Verdicts = {}
        BY <2>8, ReportKinds
      <4>2. outcome = "Ok" => told' = told
        BY <2>5, <4>1 DEF Inv, Safe, Told
      <4> QED BY <2>1, <2>4, <4>2
    <3>2. Becomes(lane.task.id, rec)
      BY <2>2, <2>8, OneRecord
    <3> QED BY <1>4, <2>8, <3>1, <3>2, UncertainFollows
  <2> QED BY <1>2, <2>1, <2>3, <2>6, <2>7, <2>8
<1> QED BY <1>3, <1>4

(* Refusals and readings, before the intent. *)
LEMMA EarlyFollows ==
    ASSUME Inv, Busy, lane.step \in BeforeIntent,
           NEW report \in HarmlessRefusals \union {"Read"},
           Finish(report), UNCHANGED posts
    PROVE  Follows
<1>1. posts[lane.task.id] = 0
  BY DEF Inv, Safe, LaneSafe, BeforeIntent, AfterRequest
<1>2. report \in Verdicts /\ report \notin Uncertainties
  BY ReportKinds DEF Verdicts, Successes, Uncertainties
<1>3. report \notin Successes \ {"Read"}
  BY DEF HarmlessRefusals, Refusals, Successes
<1> QED BY <1>1, <1>2, <1>3, FinishFollows

(* Everything that is reported after the intent. *)
LEMMA LateFollows ==
    ASSUME Inv, Busy, lane.step \notin BeforeIntent,
           NEW report \in (Verdicts \ HarmlessRefusals) \union Uncertainties,
           Finish(report), UNCHANGED posts
    PROVE  Follows
<1>1. lane.rec.effect # None
  BY DEF Inv, Safe, LaneSafe
<1>2. report \notin HarmlessRefusals
  BY ReportKinds
<1> QED BY <1>1, <1>2, FinishFollows

-----------------------------------------------------------------------------
(* The steps of the lane *)

LEMMA MoveFollows ==
    ASSUME UNCHANGED <<journalVars, told, posts>>
    PROVE  Follows
BY QuietFollows DEF Quiet, journalVars

LEMMA RefuseFollows ==
    ASSUME Inv, Busy, lane.step \in BeforeIntent, NEW world, Refuse(world),
           UNCHANGED posts
    PROVE  Follows
<1>1. PICK report \in {"Rejected.SunshineUnavailable", "Rejected.ExecutionExpired"} \union
                        (CheckOutcomes(lane.task, world) \ {"Proceed"}) :
          Finish(report)
  BY DEF Refuse
<1>2. lane.task \in Tasks
  BY DEF Inv, Safe, LaneSafe
<1>3. {"Rejected.SunshineUnavailable", "Rejected.ExecutionExpired"} \subseteq HarmlessRefusals
  BY DEF HarmlessRefusals, Refusals
<1>4. report \in HarmlessRefusals \union {"Read"}
  BY <1>1, <1>2, <1>3, CheckReports
<1> QED BY <1>1, <1>4, EarlyFollows

LEMMA ReadingsFollow == Inv /\ (Begin \/ Check \/ Recheck) => Follows
<1> SUFFICES ASSUME Inv, Begin \/ Check \/ Recheck PROVE Follows
  OBVIOUS
<1>1. Busy /\ lane.step \in BeforeIntent /\ UNCHANGED posts
  BY DEF Begin, Check, Recheck, At, BeforeIntent
<1>2. CASE Finish("Rejected.ExecutionExpired")
  BY <1>1, <1>2, EarlyFollows DEF HarmlessRefusals, Refusals
<1>3. CASE Refuse(sunshine)
  BY <1>1, <1>3, RefuseFollows
<1>4. CASE UNCHANGED <<journalVars, told>>
  BY <1>1, <1>4, MoveFollows
<1> QED BY <1>2, <1>3, <1>4 DEF Begin, Check, Recheck, GoTo

LEMMA IntendFollows == Inv /\ Intend => Follows
<1> SUFFICES ASSUME Inv, Intend PROVE Follows
  OBVIOUS
<1>1. /\ Busy /\ lane.step = "intend" /\ lane.step \in BeforeIntent /\ LaneSafe
      /\ UNCHANGED posts
  BY DEF Intend, At, BeforeIntent, Inv, Safe
<1>2. CASE Finish("Rejected.ExecutionExpired")
  BY <1>1, <1>2, EarlyFollows DEF HarmlessRefusals, Refusals
<1>3. ASSUME NEW generation \in SampledGenerations(sunshine),
             Remember(Intent(lane.task, lane.seen, generation))
      PROVE  Follows
  <2> DEFINE effect == Intent(lane.task, lane.seen, generation)
             rec == [lane.rec EXCEPT !.effect = effect]
  <2>1. ~lane.volatile /\ lane.task \in Tasks /\ lane.task.id \in OpIds
    BY <1>1, TasksHaveIds DEF LaneSafe
  <2>2. effect \in Intents
    BY <1>1, <2>1, SampleType, IntentType DEF LaneSafe
  <2> HIDE DEF effect
  <2>3. rec \in TaskRecord
    BY <1>1, <2>2 DEF LaneSafe, TaskRecord, Record
  <2>4. PICK outcome \in {"Ok", "Storage"} :
            /\ J!Replace(lane.task.id, rec, outcome)
            /\ IF Remembered(outcome) THEN UNCHANGED told
               ELSE PersistenceFailed(lane.task)
    BY <1>3 DEF Remember, effect
  <2>5. disk' = disk \/ disk' = [disk EXCEPT ![lane.task.id] = rec]
    BY <2>1, <2>3, <2>4, Replaced DEF Inv, Safe
  <2>6. told' = told
    <3>1. {"Unknown.PersistenceFailure"} \intersect Verdicts = {}
      BY NoVerdicts
    <3> QED BY <2>4, <3>1 DEF PersistenceFailed, Reply, Inv, Safe, Told
  <2>7. CASE disk' = disk
    BY <1>1, <2>6, <2>7, QuietFollows DEF Quiet
  <2>8. CASE disk' = [disk EXCEPT ![lane.task.id] = rec]
    <3>1. Becomes(lane.task.id, rec)
      BY <2>1, <2>8, OneRecord
    <3> QED BY <1>1, <2>1, <2>2, <2>6, <3>1, CommitFollows
  <2> QED BY <2>5, <2>7, <2>8
<1> QED BY <1>2, <1>3 DEF Intend

LEMMA AbandonFollows ==
    ASSUME Inv, Busy, lane.step \notin BeforeIntent, Abandon, UNCHANGED posts
    PROVE  Follows
<1>1. CASE Finish("Unknown.SideEffectNotConfirmed")
  BY <1>1, LateFollows DEF Uncertainties
<1>2. CASE UNCHANGED <<journalVars, told>>
  BY <1>2, MoveFollows
<1> QED BY <1>1, <1>2 DEF Abandon, GoTo

LEMMA GuardFollows ==
    ASSUME Inv, NEW step \in {"guard", "guardAgain"}, Guard(step)
    PROVE  Follows
<1>1. /\ Busy /\ lane.step = step /\ lane.step \notin BeforeIntent
      /\ lane.step \notin AfterRequest /\ UNCHANGED posts
  BY DEF Guard, At, BeforeIntent, AfterRequest
<1>2. CASE UNCHANGED <<journalVars, told>>
  BY <1>1, <1>2, MoveFollows
<1>3. CASE Finish("Rejected.ResourceConflict")
  <2>1. posts[lane.task.id] = 0
    BY <1>1 DEF Inv, Safe, LaneSafe
  <2>2. /\ "Rejected.ResourceConflict" \in Verdicts
        /\ "Rejected.ResourceConflict" \notin Uncertainties
        /\ "Rejected.ResourceConflict" \notin Successes
    BY DEF Verdicts, Refusals, Uncertainties, Successes
  <2> QED BY <1>1, <1>3, <2>1, <2>2, FinishFollows
<1>4. CASE Abandon
  BY <1>1, <1>4, AbandonFollows
<1> QED BY <1>2, <1>3, <1>4 DEF Guard

LEMMA NotConfirmedFollows ==
    ASSUME Inv, Busy, lane.step \notin BeforeIntent, NotConfirmed, UNCHANGED posts
    PROVE  Follows
<1>1. CASE Finish(UncertaintyOf(lane.rec.effect))
  BY <1>1, LateReports, LateFollows
<1>2. CASE UNCHANGED <<journalVars, told>>
  BY <1>2, MoveFollows
<1> QED BY <1>1, <1>2 DEF NotConfirmed

LEMMA ReconcilingFollows == Inv /\ (PostSkipped \/ Await \/ Reconcile \/ Conclude) => Follows
<1> SUFFICES ASSUME Inv, PostSkipped \/ Await \/ Reconcile \/ Conclude PROVE Follows
  OBVIOUS
<1>1. Busy /\ lane.step \notin BeforeIntent /\ UNCHANGED posts
  BY DEF PostSkipped, Await, Reconcile, Conclude, At, BeforeIntent
<1>2. CASE Abandon
  BY <1>1, <1>2, AbandonFollows
<1>3. ASSUME NEW reply, Finish(UnobservableReport(lane.task, reply))
      PROVE  Follows
  BY <1>1, <1>3, LateReports, LateFollows
<1>4. CASE UNCHANGED <<journalVars, told>>
  BY <1>1, <1>4, MoveFollows
<1>5. CASE NotConfirmed
  BY <1>1, <1>5, NotConfirmedFollows
<1>6. CASE Finish(SuccessOf(lane.rec.effect))
  BY <1>1, <1>6, LateReports, LateFollows
<1> QED BY <1>2, <1>3, <1>4, <1>5, <1>6
        DEF PostSkipped, Await, Reconcile, Conclude, GoTo

LEMMA TimeoutFollows == Inv /\ Timeout => Follows
<1> SUFFICES ASSUME Inv, Timeout PROVE Follows
  OBVIOUS
<1>1. Busy /\ Finish(TimeoutReport(lane.rec)) /\ UNCHANGED posts
  BY DEF Timeout
<1>2. CASE lane.rec.effect # None
  <2>1. lane.step \notin BeforeIntent
    BY <1>1, <1>2 DEF Inv, Safe, LaneSafe
  <2>2. TimeoutReport(lane.rec) = "Unknown.EffectNotConfirmed"
    BY <1>2 DEF TimeoutReport
  <2> QED BY <1>1, <2>1, <2>2, LateFollows DEF Uncertainties
<1>3. CASE lane.rec.effect = None
  <2>1. lane.step \in BeforeIntent
    BY <1>1, <1>3 DEF Inv, Safe, LaneSafe
  <2>2. TimeoutReport(lane.rec) = "Rejected.SunshineUnavailable"
    BY <1>3 DEF TimeoutReport
  <2> QED BY <1>1, <2>1, <2>2, EarlyFollows DEF HarmlessRefusals, Refusals
<1> QED BY <1>2, <1>3

-----------------------------------------------------------------------------
(* Deliveries, receipts and the world *)

LEMMA DeliverFollows ==
    ASSUME Inv, NEW task \in Tasks, NEW mode \in {"Execute", "InspectOnly"},
           Deliver(task, mode)
    PROVE  Follows
<1> DEFINE record == disk[task.id]
<1>1. opened /\ ~Busy /\ UNCHANGED posts /\ task.id \in OpIds
  BY TasksHaveIds DEF Deliver
<1>2. PICK deadline \in Deadlines(mode) :
          \/ PersistenceFailed(task) /\ UNCHANGED journalVars
          \/ /\ ~poisoned
             /\ DeliverKnown(task, mode, deadline) \/ DeliverNew(task, mode, deadline)
  BY DEF Deliver
<1>3. CASE PersistenceFailed(task) /\ UNCHANGED journalVars
  BY <1>1, <1>3, AnswerFollows, NoVerdicts DEF PersistenceFailed, journalVars
<1>4. CASE DeliverKnown(task, mode, deadline)
  <2>1. record # None /\ J!Loaded(task.id) = record /\ disk' = disk
    BY <1>4 DEF DeliverKnown, J!Loaded, journalVars
  <2>2. CASE \E report : report \notin Verdicts /\ Reply(task, report)
    BY <1>1, <2>1, <2>2, AnswerFollows
  <2>3. CASE /\ record.fingerprint = task /\ ~record.acknowledged
             /\ Final(record.report) /\ Reply(task, record.report)
    BY <1>1, <2>1, <2>3, TellFollows
  <2>4. CASE UNCHANGED told
    BY <1>1, <2>1, <2>4, QuietFollows DEF Quiet
  <2>5. ~Final(record.report) => record.report \notin Verdicts
    BY ReportKinds DEF Final, Uncertain
  <2>6. "Rejected.OperationIdReused" \notin Verdicts
        /\ "Rejected.OperationAlreadyCompleted" \notin Verdicts
    BY NoVerdicts DEF GateRefusals
  <2> QED BY <1>4, <2>1, <2>2, <2>3, <2>4, <2>5, <2>6, NoVerdicts DEF DeliverKnown, Start
<1>5. CASE ~poisoned /\ DeliverNew(task, mode, deadline)
  <2> DEFINE fresh == FreshRecord(task)
  <2>1. J!Loaded(task.id) = None
    BY <1>5 DEF DeliverNew
  <2>2. CASE Reply(task, "Unknown.NoExecutionRecord") /\ UNCHANGED journalVars
    BY <1>1, <2>2, AnswerFollows, NoVerdicts DEF journalVars
  <2>3. CASE /\ J!Create(task.id, fresh, "Full")
             /\ IF Mutates(task) THEN Reply(task, "Rejected.JournalFull") ELSE UNCHANGED told
    <3>1. disk' = disk
      BY <1>1, <1>5, <2>1, <2>3, Created DEF journalVars
    <3>2. "Rejected.JournalFull" \notin Verdicts
      BY NoVerdicts DEF GateRefusals
    <3> QED BY <1>1, <2>3, <3>1, <3>2, AnswerFollows, QuietFollows DEF Quiet
  <2>4. CASE \E outcome \in {"Ok", "Storage"} :
                J!Create(task.id, fresh, outcome) /\ UNCHANGED told
    <3>1. /\ disk[task.id] = None
          /\ disk' = disk \/ disk' = [disk EXCEPT ![task.id] = fresh]
      BY <1>1, <1>5, <2>1, <2>4, Created
    <3>2. CASE disk' = disk
      BY <1>1, <2>4, <3>2, QuietFollows DEF Quiet
    <3>3. CASE disk' = [disk EXCEPT ![task.id] = fresh]
      <4>1. Becomes(task.id, fresh)
        BY <1>1, <3>3, OneRecord
      <4> QED BY <1>1, <2>4, <3>1, <4>1, ClaimFollows
    <3> QED BY <3>1, <3>2, <3>3
  <2>5. PersistenceFailed(task) => UNCHANGED told
    BY NoVerdicts DEF PersistenceFailed, Reply, Inv, Safe, Told
  <2> QED BY <1>5, <2>2, <2>3, <2>4, <2>5 DEF DeliverNew, Start
<1> QED BY <1>2, <1>3, <1>4, <1>5

LEMMA AcknowledgeFollows ==
    ASSUME Inv, NEW task \in Tasks, NEW report \in Reports, NEW finalized \in BOOLEAN,
           Acknowledge(task, report, finalized)
    PROVE  Follows
<1> DEFINE id0 == task.id
           closing == Closes(report, finalized)
           rec == [disk[id0] EXCEPT !.acknowledged = closing,
                                    !.report = IF closing THEN None ELSE @,
                                    !.effect = IF closing THEN None ELSE @,
                                    !.accepted = report]
<1>1. id0 \in OpIds /\ task # None
  BY TasksHaveIds, TaskAssumption
<1>2. /\ disk[id0] # None /\ ~disk[id0].acknowledged
      /\ disk[id0].fingerprint = task /\ disk[id0].report = report
      /\ UNCHANGED <<posts, told>>
  BY DEF Acknowledge, J!Loaded
<1>3. PICK outcome \in {"Ok", "Storage"} : J!Replace(id0, rec, outcome)
  BY DEF Acknowledge, J!Loaded
<1>4. disk[id0] \in TaskRecord /\ closing \in BOOLEAN
  BY <1>1, <1>2 DEF Inv, Safe, Journalled, Closes, Final, Uncertain
<1>5. /\ rec \in TaskRecord /\ rec # None
      /\ rec.acknowledged = closing /\ rec.fingerprint = task
      /\ closing => rec.report = None /\ rec.effect = None
      /\ ~closing => rec.report = report /\ rec.effect = disk[id0].effect
  BY ZenonT(40), <1>2, <1>4, ExecutorAssumption DEF TaskRecord, Record
<1>6. Final(disk[id0].report) \/ disk[id0].effect # None
  BY <1>1, <1>2, TaskAssumption
  DEF Inv, Safe, Told, UncertaintyHasIntent, Final
<1> HIDE DEF closing, rec
<1>7. disk' = disk \/ disk' = [disk EXCEPT ![id0] = rec]
  BY <1>1, <1>3, <1>5, Replaced DEF Inv, Safe
<1>8. CASE disk' = disk
  BY <1>2, <1>8, QuietFollows DEF Quiet
<1>9. CASE disk' = [disk EXCEPT ![id0] = rec]
  <2>1. Becomes(id0, rec)
    BY <1>1, <1>9, OneRecord
  <2>2. CASE closing
    BY <1>1, <1>2, <1>5, <1>6, <2>1, <2>2, CloseFollows
  <2>3. CASE ~closing
    <3>1. /\ disk'[id0] = rec
          /\ \A other \in OpIds \ {id0} : disk'[other] = disk[other]
      BY <2>1 DEF Becomes
    <3>2. rec.fingerprint = disk[id0].fingerprint /\ rec.report = disk[id0].report
          /\ rec.effect = disk[id0].effect /\ rec.acknowledged = disk[id0].acknowledged
      BY <1>2, <1>4, <1>5, <2>3 DEF TaskRecord, Record
    <3> QED BY <1>2, <1>5, <3>1, <3>2 DEF Follows, Ledger!ledgerVars
  <2> QED BY <1>4, <2>2, <2>3
<1> QED BY <1>7, <1>8, <1>9

(* Time, the process, Sunshine and the local user write nothing. *)
LEMMA WorldFollows ==
    ASSUME \/ Expire \/ Open \/ Crash \/ Edit \/ UNCHANGED vars
           \/ \E request \in flight : Land(request) \/ Lose(request)
    PROVE  Follows
<1>1. UNCHANGED <<disk, posts, told>>
  BY DEF Expire, Open, J!Open, Crash, J!Close, Edit, Land, Lose, World, vars,
         journalVars, historyVars
<1> QED BY <1>1, QuietFollows DEF Quiet

LEMMA EveryStepFollows == Inv /\ [Next]_vars => Follows
<1> SUFFICES ASSUME Inv, [Next]_vars PROVE Follows
  OBVIOUS
<1>1. CASE Step
  <2>1. CASE Guard("guard") \/ Guard("guardAgain")
    BY <2>1, GuardFollows
  <2>2. CASE Post
    BY <2>2, PerformFollows
  <2> QED BY <1>1, <2>1, <2>2, ReadingsFollow, IntendFollows, ReconcilingFollows DEF Step
<1>2. ASSUME NEW task \in Tasks, NEW mode \in {"Execute", "InspectOnly"},
             Deliver(task, mode)
      PROVE  Follows
  BY <1>2, DeliverFollows
<1>3. ASSUME NEW task \in Tasks, NEW report \in Reports, NEW finalized \in BOOLEAN,
             Acknowledge(task, report, finalized)
      PROVE  Follows
  BY <1>3, AcknowledgeFollows
<1>4. CASE Timeout
  BY <1>4, TimeoutFollows
<1>5. CASE \/ Expire \/ Open \/ Crash \/ Edit \/ UNCHANGED vars
           \/ \E request \in flight : Land(request) \/ Lose(request)
  BY <1>5, WorldFollows
<1> QED BY <1>1, <1>2, <1>3, <1>4, <1>5 DEF Next

LEMMA StartsEmpty == Init => Ledger!LedgerInit
<1> SUFFICES ASSUME Init PROVE Ledger!LedgerInit
  OBVIOUS
<1>1. /\ disk = [id \in OpIds |-> None]
      /\ posts = [id \in OpIds |-> 0]
      /\ told = [t \in Tasks |-> {}]
  BY DEF Init, J!JournalInit
<1> QED BY <1>1 DEF Ledger!LedgerInit

-----------------------------------------------------------------------------
(* The refinement *)

(* At any instant, across failed writes, lost responses, timeouts, edits   *)
(* and crashes, the durable records, the requests that really left and the *)
(* verdicts the Manager was given tell one story that the ledger allows: a *)
(* task owns its ID, is committed before its only request, gets one        *)
(* verdict, and is closed once and for good.                               *)
THEOREM LedgerIsImplemented == Spec => ImplementsLedger
<1>1. Init => Ledger!LedgerInit
  BY StartsEmpty
<1>2. Inv /\ [Next]_vars => [Ledger!LedgerNext]_(Ledger!ledgerVars)
  BY EveryStepFollows DEF Follows
<1> QED BY <1>1, <1>2, Invariance, PTL DEF Spec, ImplementsLedger, Ledger!LedgerSpec

-----------------------------------------------------------------------------
(* The engine and its journal                                              *)
(*                                                                         *)
(* Journal is proved about for a caller that may try any record.  The      *)
(* engine is such a caller, so what is proved of the journal holds of the  *)
(* one the engine uses.                                                    *)

JP == INSTANCE JournalProofs
        WITH Fingerprints <- Tasks, Effects <- Intents, Answers <- Reports

(* A step of the engine as the journal sees it. *)
Journals == [JP!JournalNext]_(JP!journalVars)

LEMMA JournalIsInstance == JP!JournalAssumption
<1>1. JP!JournalRecord = TaskRecord /\ JP!Reports = Reports
  BY DEF JP!JournalRecord, JP!Record, TaskRecord, Record, JP!Reports, Reports,
         JP!Uncertainties, Uncertainties, JP!Refusals, Refusals,
         JP!GateRefusals, GateRefusals, JP!Successes, Successes
<1> QED BY <1>1, ExecutorAssumption, TaskAssumption DEF JP!JournalAssumption

LEMMA SameCardinality == \A S : J!Cardinality(S) = JP!Cardinality(S)
BY Zenon DEF J!Cardinality, JP!Cardinality, J!IsFiniteSet, JP!IsFiniteSet

LEMMA ReplaceJournals ==
    ASSUME opened, NEW id \in OpIds, NEW rec \in TaskRecord,
           NEW outcome \in {"Ok", "Storage"}, J!Replace(id, rec, outcome)
    PROVE  Journals
<1>1. JP!Replace(id, rec, outcome)
  BY DEF J!Replace, JP!Replace, J!journalVars, JP!journalVars, J!Replaceable,
         JP!Replaceable, J!Loaded, JP!Loaded, J!ReplaceAllowed, JP!ReplaceAllowed,
         J!ValidRecord, JP!ValidRecord, J!Final, JP!Final, J!Uncertain, JP!Uncertain,
         J!Uncertainties, JP!Uncertainties, J!Installed, JP!Installed,
         J!FailedWrite, JP!FailedWrite
<1>2. rec \in JP!JournalRecord
  BY DEF JP!JournalRecord, JP!Record, TaskRecord, Record
<1>3. JP!ReplaceAny(id)
  BY <1>1, <1>2 DEF JP!ReplaceAny
<1> QED BY <1>3 DEF Journals, JP!JournalNext

LEMMA CreateJournals ==
    ASSUME opened, NEW task \in Tasks, NEW outcome \in {"Ok", "Full", "Storage"},
           J!Create(task.id, FreshRecord(task), outcome)
    PROVE  Journals
<1>1. FreshRecord(task) = JP!FreshRecord(task)
  BY DEF FreshRecord, JP!FreshRecord
<1>2. JP!Create(task.id, JP!FreshRecord(task), outcome)
  BY <1>1, SameCardinality DEF J!Create, JP!Create, J!journalVars, JP!journalVars, J!AtCapacity,
              JP!AtCapacity, J!Installed, JP!Installed, J!FailedWrite, JP!FailedWrite
<1>3. JP!CreateAny(task.id)
  BY <1>2 DEF JP!CreateAny
<1> QED BY <1>3, TasksHaveIds DEF Journals, JP!JournalNext

LEMMA StaysJournalled == UNCHANGED journalVars => Journals
BY DEF journalVars, Journals, JP!journalVars

LEMMA FinishJournals ==
    ASSUME Inv, Busy, NEW report \in Reports, Finish(report)
    PROVE  Journals
<1>1. lane.rec \in TaskRecord /\ lane.task.id \in OpIds /\ opened
  BY TasksHaveIds DEF Inv, Safe, LaneSafe
<1>2. CASE lane.volatile
  BY <1>2, StaysJournalled DEF Finish
<1>3. CASE ~lane.volatile
  <2>1. PICK out \in Sized(report, lane.rec.effect), outcome \in {"Ok", "Storage"} :
            J!Replace(lane.task.id, [lane.rec EXCEPT !.report = out], outcome)
    BY <1>3 DEF Finish
  <2>2. out \in Reports
    BY <2>1, ReportKinds DEF Sized, Reports
  <2>3. [lane.rec EXCEPT !.report = out] \in TaskRecord
    BY <1>1, <2>2 DEF TaskRecord, Record
  <2> QED BY <1>1, <2>1, <2>3, ReplaceJournals
<1> QED BY <1>2, <1>3

(* The reports of the lane are reports. *)
LEMMA LaneReports ==
    /\ {"Rejected.ExecutionExpired", "Rejected.SunshineUnavailable",
        "Rejected.ResourceConflict", "Unknown.EffectNotConfirmed",
        "Unknown.SideEffectNotConfirmed"} \subseteq Reports
    /\ \A task \in Tasks : \A world : CheckOutcomes(task, world) \ {"Proceed"} \subseteq Reports
<1>1. HarmlessRefusals \subseteq Reports /\ "Read" \in Reports
  BY ReportKinds DEF Reports, Successes
<1>2. \A task \in Tasks : \A world : CheckOutcomes(task, world) \ {"Proceed"} \subseteq Reports
  BY <1>1, CheckReports
<1> QED BY <1>2 DEF Reports, Refusals, Uncertainties

LEMMA StepJournals == Inv /\ (Step \/ Timeout) => Journals
<1> SUFFICES ASSUME Inv, Step \/ Timeout PROVE Journals
  OBVIOUS
<1>1. Busy /\ lane.task \in Tasks /\ opened
  BY DEF Step, Begin, Check, Recheck, Intend, Guard, Post, PostSkipped, Await, Reconcile,
         Conclude, Timeout, At, Inv, Safe, LaneSafe
<1>2. ASSUME NEW report \in Reports, Finish(report) PROVE Journals
  BY <1>1, <1>2, FinishJournals
<1>3. CASE Refuse(sunshine)
  BY <1>1, <1>2, <1>3, LaneReports DEF Refuse
<1>4. CASE Abandon
  BY <1>2, <1>4, LaneReports, StaysJournalled DEF Abandon, GoTo
<1>5. CASE NotConfirmed /\ lane.step \notin BeforeIntent
  BY <1>1, <1>2, <1>5, LateReports, StaysJournalled DEF NotConfirmed, Reports, Verdicts
<1>6. CASE Intend
  <2>1. CASE Finish("Rejected.ExecutionExpired")
    BY <1>2, <2>1, LaneReports
  <2>2. ASSUME NEW generation \in SampledGenerations(sunshine),
               Remember(Intent(lane.task, lane.seen, generation))
        PROVE  Journals
    <3> DEFINE effect == Intent(lane.task, lane.seen, generation)
               rec == [lane.rec EXCEPT !.effect = effect]
    <3>1. lane.step = "intend" /\ LaneSafe /\ ~lane.volatile
      BY <1>1, <1>6 DEF Intend, At, Inv, Safe, LaneSafe
    <3>2. effect \in Intents
      BY <1>1, <3>1, SampleType, IntentType DEF LaneSafe
    <3> HIDE DEF effect
    <3>3. rec \in TaskRecord
      BY <1>1, <3>1, <3>2 DEF LaneSafe, TaskRecord, Record
    <3>4. \E outcome \in {"Ok", "Storage"} : J!Replace(lane.task.id, rec, outcome)
      BY <2>2 DEF Remember, effect
    <3> HIDE DEF rec
    <3> QED BY <1>1, <3>3, <3>4, TasksHaveIds, ReplaceJournals
  <2> QED BY <1>6, <2>1, <2>2 DEF Intend
<1>7. CASE Timeout
  BY <1>2, <1>7, LaneReports DEF Timeout, TimeoutReport
<1>8. CASE Await \/ Conclude
  <2>1. lane.step \notin BeforeIntent
    BY <1>8 DEF Await, Conclude, At, BeforeIntent
  <2> QED BY <1>1, <1>2, <1>5, <1>8, <2>1, LateReports, StaysJournalled
          DEF Await, Conclude, GoTo, Reports, Verdicts
<1>9. CASE Begin \/ Check \/ Recheck \/ Post \/ PostSkipped
  BY <1>2, <1>3, <1>4, <1>9, LaneReports, StaysJournalled
  DEF Begin, Check, Recheck, Post, PostSkipped, GoTo
<1>10. ASSUME NEW step, Guard(step) PROVE Journals
  BY <1>2, <1>4, <1>10, LaneReports, StaysJournalled DEF Guard
<1>11. CASE Reconcile
  BY <1>5, <1>11, StaysJournalled DEF Reconcile, At, BeforeIntent
<1> QED BY <1>6, <1>7, <1>8, <1>9, <1>10, <1>11 DEF Step

LEMMA DeliverJournals ==
    ASSUME NEW task \in Tasks, NEW mode \in {"Execute", "InspectOnly"},
           Deliver(task, mode)
    PROVE  Journals
<1>1. opened
  BY DEF Deliver
<1>2. CASE UNCHANGED journalVars
  BY <1>2, StaysJournalled
<1>3. CASE \E outcome \in {"Ok", "Full", "Storage"} :
              J!Create(task.id, FreshRecord(task), outcome)
  BY <1>1, <1>3, CreateJournals
<1> QED BY <1>2, <1>3 DEF Deliver, DeliverKnown, DeliverNew

LEMMA AcknowledgeJournals ==
    ASSUME Inv, NEW task \in Tasks, NEW report \in Reports, NEW finalized \in BOOLEAN,
           Acknowledge(task, report, finalized)
    PROVE  Journals
<1> DEFINE id0 == task.id
           closing == Closes(report, finalized)
           rec == [disk[id0] EXCEPT !.acknowledged = closing,
                                    !.report = IF closing THEN None ELSE @,
                                    !.effect = IF closing THEN None ELSE @,
                                    !.accepted = report]
<1>1. id0 \in OpIds /\ opened /\ disk[id0] # None
  BY TasksHaveIds DEF Acknowledge, J!Loaded
<1>2. \E outcome \in {"Ok", "Storage"} : J!Replace(id0, rec, outcome)
  BY DEF Acknowledge, J!Loaded
<1>3. disk[id0] \in TaskRecord /\ closing \in BOOLEAN
  BY <1>1 DEF Inv, Safe, Journalled, Closes, Final, Uncertain
<1>4. rec \in TaskRecord
  BY <1>3 DEF TaskRecord, Record
<1> HIDE DEF rec
<1> QED BY <1>1, <1>2, <1>4, ReplaceJournals

LEMMA EveryStepJournals == Inv /\ [Next]_vars => Journals
<1> SUFFICES ASSUME Inv, [Next]_vars PROVE Journals
  OBVIOUS
<1>1. CASE Step \/ Timeout
  BY <1>1, StepJournals
<1>2. ASSUME NEW task \in Tasks, NEW mode \in {"Execute", "InspectOnly"},
             Deliver(task, mode)
      PROVE  Journals
  BY <1>2, DeliverJournals
<1>3. ASSUME NEW task \in Tasks, NEW report \in Reports, NEW finalized \in BOOLEAN,
             Acknowledge(task, report, finalized)
      PROVE  Journals
  BY <1>3, AcknowledgeJournals
<1>4. CASE Open
  <2>1. JP!Open
    BY <1>4, SameCardinality
    DEF Open, J!Open, JP!Open, J!Present, JP!Present,
        J!Unacknowledged, JP!Unacknowledged
  <2> QED BY <2>1 DEF Journals, JP!JournalNext
<1>5. CASE Crash
  <2>1. JP!Close
    BY <1>5 DEF Crash, J!Close, JP!Close
  <2> QED BY <2>1 DEF Journals, JP!JournalNext
<1>6. CASE \/ Expire \/ Edit \/ UNCHANGED vars
           \/ \E request \in flight : Land(request) \/ Lose(request)
  BY <1>6, StaysJournalled DEF Expire, Edit, Land, Lose, World, vars, journalVars
<1> QED BY <1>1, <1>2, <1>3, <1>4, <1>5, <1>6 DEF Next

(* The engine calls the journal only as its trait allows: each of its      *)
(* steps is one call with a record of the journal's type, an opening, the  *)
(* end of the process, or no call at all.                                  *)
THEOREM EngineUsesJournal == Spec => JP!JournalSpec
<1>1. Init => JP!JournalInit
  BY DEF Init, J!JournalInit, JP!JournalInit
<1>2. Inv /\ [Next]_vars => [JP!JournalNext]_(JP!journalVars)
  BY EveryStepJournals DEF Journals
<1> QED BY <1>1, <1>2, Invariance, PTL DEF Spec, JP!JournalSpec

(* So what is proved of the journal alone holds of the one the engine      *)
(* uses: between its failed writes and its restarts the inventory is that  *)
(* of the disk, the directory can always be opened again, no unconfirmed   *)
(* result is missed and no record is rewritten.                            *)
THEOREM EngineJournalIsKept ==
    Spec => /\ []JP!InventoryMatchesDisk
            /\ []JP!ReopenWithinLimits
            /\ []JP!OwedResultsArePending
            /\ JP!HistoryIsPermanent
<1>1. JP!JournalSpec => []JP!InventoryMatchesDisk
  BY JournalIsInstance, JP!InventoryIsExact
<1>2. JP!JournalSpec => []JP!ReopenWithinLimits
  BY JournalIsInstance, JP!LimitsHoldOnDisk
<1>3. JP!JournalSpec => []JP!OwedResultsArePending
  BY JournalIsInstance, JP!OwedResultsAreOffered
<1>4. JP!JournalSpec => JP!HistoryIsPermanent
  BY JournalIsInstance, JP!HistoryIsKept
<1> QED BY <1>1, <1>2, <1>3, <1>4, EngineUsesJournal, PTL
=============================================================================
