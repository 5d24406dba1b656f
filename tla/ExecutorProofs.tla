--------------------------- MODULE ExecutorProofs ---------------------------
(***************************************************************************)
(* The engine never requests an effect twice, never without a durable      *)
(* intent, and never takes back a verdict: for any number of operations,   *)
(* tasks, settings, applications and clients.                              *)
(***************************************************************************)
EXTENDS Executor, FiniteSetTheorems, SequenceTheorems, TLAPS

(* Steps of the lane at which no intent is durable yet. *)
BeforeIntent == {"start", "check", "recheck", "intend"}

(* Steps of the lane at which the request may have left. *)
AfterRequest == {"await", "reconcile", "conclude"}

Journalled ==
    /\ disk \in [OpIds -> TaskRecord \union {None}]
    /\ ids \in SUBSET OpIds
    /\ active \in SUBSET OpIds
    /\ poisoned \in BOOLEAN
    /\ opened \in BOOLEAN
    /\ \A id \in ids : disk[id] # None
    /\ opened /\ ~poisoned => \A id \in OpIds : disk[id] # None => id \in ids

(* The record in execution is the one on disk, except for its report. *)
OnDisk ==
    LET existing == disk[lane.task.id] IN
    /\ existing # None
    /\ existing.fingerprint = lane.task
    /\ ~existing.acknowledged
    /\ existing.effect = lane.rec.effect
    /\ ~Final(existing.report)

LaneSafe ==
    /\ lane.task \in Tasks
    /\ lane.rec \in TaskRecord
    /\ lane.rec.fingerprint = lane.task
    /\ ~lane.rec.acknowledged
    /\ opened /\ ~poisoned
    /\ ~lane.volatile => OnDisk
    /\ lane.volatile => lane.task.command = "Read" /\ lane.rec.effect = None
    /\ lane.task.command = "Read" => lane.step \in {"start", "check"}
    /\ lane.rec.effect = None <=> lane.step \in BeforeIntent
    /\ lane.step \in BeforeIntent => lane.rec.report = None
    /\ lane.step \notin AfterRequest => posts[lane.task.id] = 0
    /\ lane.step = "recheck" => CheckedTwice(lane.task)
    /\ lane.step = "intend" /\ lane.task.command = "SaveConfig" => lane.seen \in Config

(* A verdict that was returned is on disk, unless a receipt compacted it. *)
VerdictsKept ==
    \A t \in Tasks :
        Mutates(t) /\ told[t] # {} =>
            /\ disk[t.id] # None
            /\ disk[t.id].fingerprint = t
            /\ disk[t.id].acknowledged \/ told[t] = {disk[t.id].report}

RefusalsKept ==
    \A id \in OpIds :
        disk[id] # None =>
            (disk[id].report \in HarmlessRefusals => posts[id] = 0)

ReadsHaveNoIntent ==
    \A id \in OpIds :
        disk[id] # None =>
            (disk[id].effect # None => disk[id].fingerprint.command # "Read")

Told ==
    /\ posts \in [OpIds -> Nat]
    /\ told \in [Tasks -> SUBSET Verdicts]
    /\ closed \in SUBSET OpIds
    /\ AtMostOneRequest
    /\ RequestImpliesIntent
    /\ UncertaintyHasIntent
    /\ ClosedByTheManager
    /\ OneVerdict
    /\ VerdictsKept
    /\ RefusalsKept
    /\ ReadsHaveNoIntent
    /\ RefusedMeansUntouched

Worldly ==
    /\ sunshine \in WorldStates
    /\ flight \in SUBSET Requests
    /\ answer \in [Tasks -> {"none", "ok", "refused"}]
    /\ goal \in SUBSET Tasks

Safe ==
    /\ Journalled
    /\ lane \in Lanes
    /\ Busy => LaneSafe
    /\ Told

Inv == Safe /\ Worldly

-----------------------------------------------------------------------------
(* Facts about reports *)

LEMMA ReportKinds ==
    /\ Verdicts \subseteq Reports
    /\ Verdicts \intersect Uncertainties = {}
    /\ Verdicts \intersect GateRefusals = {}
    /\ HarmlessRefusals \subseteq Verdicts
    /\ "Rejected.ResultTooLarge" \in HarmlessRefusals
    /\ "Unknown.ResultTooLarge" \in Uncertainties
    /\ None \notin Reports
<1>1. None \notin Reports
  BY TaskAssumption
<1>2. Verdicts \intersect Uncertainties = {}
  BY DEF Verdicts, Refusals, Successes, Uncertainties
<1>3. Verdicts \intersect GateRefusals = {}
  BY DEF Verdicts, Refusals, Successes, GateRefusals
<1>4. /\ "Rejected.ResultTooLarge" \in HarmlessRefusals
      /\ "Unknown.ResultTooLarge" \in Uncertainties
  BY DEF HarmlessRefusals, Refusals, Uncertainties
<1> QED BY <1>1, <1>2, <1>3, <1>4 DEF Verdicts, Reports, HarmlessRefusals

LEMMA TasksHaveIds == \A t \in Tasks : t.id \in OpIds /\ t.command \in Commands
BY TaskAssumption DEF WellFormed

LEMMA CheckReports ==
    ASSUME NEW task \in Tasks, NEW world
    PROVE  CheckOutcomes(task, world) \subseteq
              (HarmlessRefusals \union {"Read", "Proceed"})
BY DEF CheckOutcomes, HarmlessRefusals, Refusals

-----------------------------------------------------------------------------
(* Writes *)

(* What a replace leaves behind, by what its caller is told. *)
LEMMA Replaced ==
    ASSUME Journalled, NEW id \in OpIds, NEW rec \in TaskRecord,
           NEW outcome \in {"Ok", "Storage"}, J!Replace(id, rec, outcome)
    PROVE  /\ Journalled'
           /\ opened' = opened
           /\ outcome = "Ok" => /\ disk' = [disk EXCEPT ![id] = rec]
                                /\ ~poisoned'
           /\ disk' # disk =>
                /\ disk' = [disk EXCEPT ![id] = rec]
                /\ disk[id] # None
                /\ rec.acknowledged \/ ~Final(disk[id].report)
                                    \/ disk[id].report = rec.report
                /\ disk[id].fingerprint = rec.fingerprint
<1> USE ExecutorAssumption DEF Journalled
<1>1. CASE UNCHANGED J!journalVars /\ outcome = "Storage"
  BY <1>1 DEF J!journalVars
<1>2. CASE J!Replaceable(id, rec)
           /\ \/ /\ outcome = "Ok"
                 /\ J!Installed(id, rec)
                 /\ active' = IF rec.acknowledged THEN active \ {id} ELSE active
                 /\ UNCHANGED <<ids, poisoned, opened>>
              \/ outcome = "Storage" /\ J!FailedWrite(id, rec)
  <2>1. disk[id] # None /\ ~poisoned /\ id \in ids
    BY <1>2 DEF J!Replaceable, J!Loaded
  <2>2. J!ReplaceAllowed(disk[id], rec)
    BY <1>2, <2>1 DEF J!Replaceable, J!Loaded
  <2>3. /\ disk[id].fingerprint = rec.fingerprint
        /\ rec.acknowledged \/ ~Final(disk[id].report)
                            \/ disk[id].report = rec.report
    BY <2>2 DEF J!ReplaceAllowed, J!Final, J!Uncertain, J!Uncertainties,
                Final, Uncertain, Uncertainties
  <2>4. CASE outcome = "Ok"
    <3>1. disk' = [disk EXCEPT ![id] = rec] /\ ids' = ids /\ opened' = opened
      BY <1>2, <2>4 DEF J!Installed
    <3>2. active' \in SUBSET OpIds /\ poisoned' = poisoned
      BY <1>2, <2>4
    <3> QED BY <2>1, <2>3, <2>4, <3>1, <3>2
  <2>5. CASE outcome = "Storage"
    <3>1. disk' = disk \/ disk' = [disk EXCEPT ![id] = rec]
      BY <1>2, <2>5 DEF J!FailedWrite, J!Installed
    <3>2. /\ ids' = ids /\ opened' = opened /\ active' = active
          /\ poisoned' = TRUE
      BY <1>2, <2>5 DEF J!FailedWrite
    <3> QED BY <2>1, <2>3, <2>5, <3>1, <3>2
  <2> QED BY <2>4, <2>5
<1> QED BY <1>1, <1>2 DEF J!Replace

-----------------------------------------------------------------------------
(* Ending an execution *)

(* No verdict was returned for the operation in execution. *)
LEMMA NothingTold ==
    ASSUME Inv, Busy, ~lane.volatile, NEW t \in Tasks,
           t.id = lane.task.id, Mutates(t)
    PROVE  told[t] = {}
<1>1. /\ disk[t.id] # None
      /\ ~disk[t.id].acknowledged
      /\ ~Final(disk[t.id].report)
  BY DEF Inv, Safe, LaneSafe, OnDisk
<1>2. \A v \in told[t] : v # None /\ v \notin Uncertainties
  BY ReportKinds DEF Inv, Safe, Told
<1> QED BY <1>1, <1>2 DEF Inv, Safe, Told, VerdictsKept, Final, Uncertain

(* Saving a report, and returning it if it was saved, keeps all promises.  *)
LEMMA ReportSaved ==
    ASSUME Inv, Busy, ~lane.volatile,
           NEW out \in Verdicts \union Uncertainties,
           out \in Uncertainties => lane.rec.effect # None,
           out \in HarmlessRefusals => posts[lane.task.id] = 0,
           disk' = [disk EXCEPT ![lane.task.id] = [lane.rec EXCEPT !.report = out]],
           \/ told' = told
           \/ told' = [told EXCEPT ![lane.task] = @ \union ({out} \intersect Verdicts)],
           UNCHANGED <<posts, closed>>
    PROVE  Told'
<1> DEFINE id0 == lane.task.id
           rec == [lane.rec EXCEPT !.report = out]
<1> USE DEF Inv, Safe, Told
<1>1. lane.task \in Tasks /\ id0 \in OpIds /\ lane.rec \in TaskRecord
  BY TasksHaveIds DEF LaneSafe
<1>2. /\ rec.fingerprint = lane.task /\ rec.effect = lane.rec.effect
      /\ rec.report = out /\ ~rec.acknowledged /\ rec # None
      /\ rec \in TaskRecord
  BY <1>1, ExecutorAssumption, ReportKinds DEF LaneSafe, TaskRecord, Record, Reports
<1>3. /\ disk'[id0] = rec
      /\ \A id \in OpIds \ {id0} : disk'[id] = disk[id]
  BY <1>1 DEF Journalled
<1>4. /\ disk[id0] # None /\ disk[id0].fingerprint = lane.task
      /\ ~disk[id0].acknowledged
      /\ disk[id0].effect = lane.rec.effect
  BY DEF LaneSafe, OnDisk
<1>5. \A t \in Tasks : t.id = id0 /\ Mutates(t) => told[t] = {}
  BY NothingTold
<1>6. \A t \in Tasks : t # lane.task => told'[t] = told[t]
  BY <1>1
<1>7. told'[lane.task] \in {told[lane.task], told[lane.task] \union ({out} \intersect Verdicts)}
  BY <1>1
<1>8. told' \in [Tasks -> SUBSET Verdicts]
  BY <1>1
<1>9. AtMostOneRequest' /\ posts' \in [OpIds -> Nat] /\ closed' \in SUBSET OpIds
  BY DEF AtMostOneRequest
<1>10. RequestImpliesIntent'
  BY <1>2, <1>3, <1>4 DEF RequestImpliesIntent
<1>11. UncertaintyHasIntent'
  BY <1>2, <1>3 DEF UncertaintyHasIntent, Uncertain
<1>12. ClosedByTheManager'
  BY <1>2, <1>3 DEF ClosedByTheManager
<1>13. OneVerdict'
  BY <1>1, <1>5, <1>6, <1>7 DEF OneVerdict
<1>14. VerdictsKept'
  <2> SUFFICES ASSUME NEW t \in Tasks, Mutates(t), told'[t] # {}
               PROVE  /\ disk'[t.id] # None
                      /\ disk'[t.id].fingerprint = t
                      /\ disk'[t.id].acknowledged \/ told'[t] = {disk'[t.id].report}
    BY DEF VerdictsKept
  <2>1. CASE t = lane.task
    <3>1. told'[t] = {out}
      BY <1>5, <1>7, <2>1
    <3> QED BY ZenonT(40), <1>2, <1>3, <2>1, <3>1
  <2>2. CASE t # lane.task
    BY <1>3, <1>5, <1>6, <2>2, TasksHaveIds DEF VerdictsKept
  <2> QED BY <2>1, <2>2
<1>15. RefusalsKept'
  BY <1>2, <1>3 DEF RefusalsKept
<1>15a. ReadsHaveNoIntent'
  BY <1>1, <1>2, <1>3, <1>4 DEF ReadsHaveNoIntent
<1>16. RefusedMeansUntouched'
  <2> SUFFICES ASSUME NEW t \in Tasks, Mutates(t), told'[t] \intersect HarmlessRefusals # {}
               PROVE  posts'[t.id] = 0
    BY DEF RefusedMeansUntouched
  <2>1. CASE t = lane.task
    BY <1>1, <1>5, <1>7, <2>1
  <2>2. CASE t # lane.task
    BY <1>6, <2>2 DEF RefusedMeansUntouched
  <2> QED BY <2>1, <2>2
<1> QED BY <1>8, <1>9, <1>10, <1>11, <1>12, <1>13, <1>14, <1>15,
            <1>15a, <1>16

(* Nothing durable and nothing about mutations changes. *)
LEMMA ToldUnchanged ==
    ASSUME Inv, UNCHANGED <<disk, posts, closed>>,
           told' \in [Tasks -> SUBSET Verdicts],
           \A t \in Tasks : Mutates(t) => told'[t] = told[t]
    PROVE  Told'
BY DEF Inv, Safe, Told, AtMostOneRequest, RequestImpliesIntent, UncertaintyHasIntent,
       ClosedByTheManager, OneVerdict, VerdictsKept, RefusalsKept, ReadsHaveNoIntent,
       RefusedMeansUntouched

LEMMA IdleLane == Idle \in Lanes /\ Idle.step = "idle"
BY DEF Idle, Lanes, Steps

LEMMA FinishStep ==
    ASSUME Inv, Busy,
           NEW report \in Verdicts \union Uncertainties,
           report \in Uncertainties => lane.rec.effect # None,
           report \in HarmlessRefusals => posts[lane.task.id] = 0,
           Finish(report),
           UNCHANGED <<posts, closed>>
    PROVE  Safe' /\ lane' = Idle
<1> SUFFICES Journalled' /\ lane' = Idle /\ Told'
  BY IdleLane DEF Safe, Busy
<1>1. PICK out \in Sized(report, lane.rec.effect) :
          IF lane.volatile THEN Reply(lane.task, out) /\ UNCHANGED journalVars
          ELSE \E outcome \in {"Ok", "Storage"} :
                 /\ J!Replace(lane.task.id, [lane.rec EXCEPT !.report = out], outcome)
                 /\ Reply(lane.task, Returned(out, outcome))
  BY DEF Finish
<1>2. posts[lane.task.id] = 0 \/ lane.rec.effect # None
  BY DEF Inv, Safe, LaneSafe, BeforeIntent, AfterRequest
<1>3. /\ out \in Verdicts \union Uncertainties
      /\ out \in Uncertainties => lane.rec.effect # None
      /\ out \in HarmlessRefusals => posts[lane.task.id] = 0
  <2>1. out = report \/ out \in {"Unknown.ResultTooLarge", "Rejected.ResultTooLarge"}
    BY DEF Sized
  <2>2. out # report /\ lane.rec.effect = None => out = "Rejected.ResultTooLarge"
    BY DEF Sized
  <2>3. out # report /\ lane.rec.effect # None => out = "Unknown.ResultTooLarge"
    BY DEF Sized
  <2> QED BY <1>2, <2>1, <2>2, <2>3, ReportKinds
<1>4. CASE lane.volatile
  <2>1. ~Mutates(lane.task) /\ lane.task \in Tasks
    BY <1>4 DEF Inv, Safe, LaneSafe, Mutates
  <2>2. lane' = Idle /\ UNCHANGED journalVars
    BY <1>1, <1>4 DEF Reply
  <2>3. told' \in [Tasks -> SUBSET Verdicts]
    BY <1>1, <1>4 DEF Reply, Inv, Safe, Told
  <2>4. \A t \in Tasks : Mutates(t) => told'[t] = told[t]
    BY <1>1, <1>4, <2>1 DEF Reply, Inv, Safe, Told
  <2>5. Told'
    BY <2>2, <2>3, <2>4, ToldUnchanged DEF journalVars
  <2> QED BY <2>2, <2>5 DEF journalVars, Inv, Safe, Journalled
<1>5. CASE ~lane.volatile
  <2> DEFINE rec == [lane.rec EXCEPT !.report = out]
  <2>1. PICK outcome \in {"Ok", "Storage"} :
            /\ J!Replace(lane.task.id, rec, outcome)
            /\ Reply(lane.task, Returned(out, outcome))
    BY <1>1, <1>5
  <2>2. lane.task.id \in OpIds /\ rec \in TaskRecord /\ lane.task \in Tasks
    BY <1>3, TasksHaveIds, ReportKinds DEF Inv, Safe, LaneSafe, TaskRecord, Record, Reports
  <2>3. Journalled' /\ lane' = Idle
    BY <2>1, <2>2, Replaced DEF Inv, Safe, Reply
  <2>4. outcome = "Storage" => told' = told
    BY <2>1, ReportKinds DEF Reply, Returned, Inv, Safe, Told, Verdicts, Refusals, Successes
  <2>5. outcome = "Ok" =>
            told' = [told EXCEPT ![lane.task] = @ \union ({out} \intersect Verdicts)]
    BY <2>1 DEF Reply, Returned
  <2>6. CASE disk' = disk /\ outcome = "Storage"
    BY <2>3, <2>4, <2>6, ToldUnchanged DEF Inv, Safe, Told
  <2>7. CASE disk' = [disk EXCEPT ![lane.task.id] = rec]
    BY <1>3, <1>5, <2>3, <2>4, <2>5, <2>7, ReportSaved
  <2>8. disk' = disk \/ disk' = [disk EXCEPT ![lane.task.id] = rec]
    BY <2>1, <2>2, Replaced DEF Inv, Safe
  <2>9. outcome = "Ok" => disk' = [disk EXCEPT ![lane.task.id] = rec]
    BY <2>1, <2>2, Replaced DEF Inv, Safe
  <2> QED BY <2>6, <2>7, <2>8, <2>9, <2>3
<1> QED BY <1>4, <1>5

(* Answers of finish that need no look at the report. *)
LEMMA FinishLate ==
    ASSUME Inv, Busy, lane.step \notin BeforeIntent,
           NEW report \in (Verdicts \ HarmlessRefusals) \union Uncertainties,
           Finish(report),
           UNCHANGED <<posts, closed>>
    PROVE  Safe' /\ lane' = Idle
<1>1. lane.rec.effect # None
  BY DEF Inv, Safe, LaneSafe
<1>2. report \notin HarmlessRefusals
  BY ReportKinds
<1> QED BY <1>1, <1>2, FinishStep

LEMMA FinishEarly ==
    ASSUME Inv, Busy, lane.step \in BeforeIntent,
           NEW report \in Verdicts,
           Finish(report),
           UNCHANGED <<posts, closed>>
    PROVE  Safe' /\ lane' = Idle
<1>1. posts[lane.task.id] = 0
  BY DEF Inv, Safe, LaneSafe, BeforeIntent, AfterRequest
<1> QED BY <1>1, FinishStep, ReportKinds

-----------------------------------------------------------------------------
(* Moving to the next await point *)

LEMMA MoveStep ==
    ASSUME Inv, Busy,
           UNCHANGED <<journalVars, told, posts, closed>>,
           lane' \in Lanes, lane'.step # "idle",
           lane'.task = lane.task, lane'.rec = lane.rec, lane'.volatile = lane.volatile,
           lane'.step \in BeforeIntent <=> lane.step \in BeforeIntent,
           lane.step \in AfterRequest => lane'.step \in AfterRequest,
           lane.task.command = "Read" => lane'.step \in {"start", "check"},
           lane'.step = "recheck" => CheckedTwice(lane.task),
           lane'.step = "intend" /\ lane.task.command = "SaveConfig" => lane'.seen \in Config
    PROVE  Safe'
<1>1. Journalled'
  BY DEF Inv, Safe, Journalled, journalVars
<1>2. LaneSafe'
  BY DEF Inv, Safe, LaneSafe, OnDisk, journalVars
<1>3. Told'
  BY ToldUnchanged DEF Inv, Safe, Told, journalVars
<1> QED BY <1>1, <1>2, <1>3 DEF Safe

(* A move to a later await point of the same phase. *)
LEMMA GoToStep ==
    ASSUME Inv, Busy, NEW step \in Steps \ {"idle"}, GoTo(step),
           UNCHANGED <<posts, closed>>,
           step \in BeforeIntent <=> lane.step \in BeforeIntent,
           lane.step \in AfterRequest => step \in AfterRequest,
           lane.task.command = "Read" => step \in {"start", "check"},
           step # "recheck",
           step = "intend" /\ lane.task.command = "SaveConfig" => lane.seen \in Config
    PROVE  Safe'
<1>1. lane' = [lane EXCEPT !.step = step] /\ UNCHANGED <<journalVars, told>>
  BY DEF GoTo
<1>2. lane' \in Lanes /\ lane'.step = step
  BY <1>1 DEF Inv, Safe, Lanes
<1>3. /\ lane'.task = lane.task /\ lane'.rec = lane.rec
      /\ lane'.volatile = lane.volatile /\ lane'.seen = lane.seen
  BY <1>1 DEF Inv, Safe, Lanes
<1> QED BY <1>1, <1>2, <1>3, MoveStep

-----------------------------------------------------------------------------
(* Up to the durable intent *)

LEMMA BeginStep == Inv /\ Begin => Safe'
<1> SUFFICES ASSUME Inv, Begin PROVE Safe'
  OBVIOUS
<1>1. Busy /\ lane.step = "start" /\ lane.step \in BeforeIntent
  BY DEF Begin, At, BeforeIntent
<1>2. UNCHANGED <<posts, closed>>
  BY DEF Begin
<1>3. CASE Finish("Rejected.ExecutionExpired")
  BY <1>1, <1>2, <1>3, FinishEarly DEF Verdicts, Refusals
<1>4. CASE GoTo("check")
  BY <1>1, <1>2, <1>4, GoToStep DEF Steps, BeforeIntent, AfterRequest
<1>5. CASE GoTo("intend") /\ ~Checked(lane.task)
  BY <1>1, <1>2, <1>5, GoToStep DEF Steps, BeforeIntent, AfterRequest, Checked
<1> QED BY <1>3, <1>4, <1>5 DEF Begin

LEMMA RefuseStep ==
    ASSUME Inv, Busy, lane.step \in BeforeIntent, NEW world, Refuse(world),
           UNCHANGED <<posts, closed>>
    PROVE  Safe'
<1>1. PICK report \in {"Rejected.SunshineUnavailable", "Rejected.ExecutionExpired"} \union
                        (CheckOutcomes(lane.task, world) \ {"Proceed"}) :
          Finish(report)
  BY DEF Refuse
<1>2. lane.task \in Tasks
  BY DEF Inv, Safe, LaneSafe
<1>3. report \in Verdicts
  BY <1>1, <1>2, CheckReports, ReportKinds DEF Verdicts, Refusals, Successes
<1> QED BY <1>1, <1>3, FinishEarly

LEMMA CheckStep == Inv /\ Check => Safe'
<1> SUFFICES ASSUME Inv, Check PROVE Safe'
  OBVIOUS
<1>1. Busy /\ lane.step = "check" /\ lane.step \in BeforeIntent /\ lane.task \in Tasks
  BY DEF Check, At, BeforeIntent, Inv, Safe, LaneSafe
<1>2. UNCHANGED <<posts, closed>>
  BY DEF Check
<1>3. CASE Refuse(sunshine)
  BY <1>1, <1>2, <1>3, RefuseStep
<1>4. CASE /\ "Proceed" \in CheckOutcomes(lane.task, sunshine)
           /\ lane' = [lane EXCEPT
                 !.step = IF CheckedTwice(lane.task) THEN "recheck" ELSE "intend",
                 !.seen = IF lane.task.command = "SaveConfig"
                          THEN sunshine.config ELSE None]
           /\ UNCHANGED <<journalVars, told>>
  <2>1. lane.task.command # "Read"
    BY <1>4 DEF CheckOutcomes
  <2>2. sunshine.config \in Config
    BY DEF Inv, Worldly, WorldStates
  <2>3. /\ lane' \in Lanes
        /\ lane'.step \in {"recheck", "intend"}
        /\ lane'.task = lane.task /\ lane'.rec = lane.rec /\ lane'.volatile = lane.volatile
        /\ lane'.step = "recheck" => CheckedTwice(lane.task)
        /\ lane.task.command = "SaveConfig" => lane'.seen \in Config
    BY <1>4, <2>2 DEF Inv, Safe, Lanes, Steps
  <2> QED BY <1>1, <1>2, <1>4, <2>1, <2>3, MoveStep DEF BeforeIntent, AfterRequest
<1> QED BY <1>3, <1>4 DEF Check

LEMMA RecheckStep == Inv /\ Recheck => Safe'
<1> SUFFICES ASSUME Inv, Recheck PROVE Safe'
  OBVIOUS
<1>1. Busy /\ lane.step = "recheck" /\ lane.step \in BeforeIntent
  BY DEF Recheck, At, BeforeIntent
<1>2. UNCHANGED <<posts, closed>>
  BY DEF Recheck
<1>3. CASE Refuse(sunshine)
  BY <1>1, <1>2, <1>3, RefuseStep
<1>4. CASE GoTo("intend")
  <2>1. lane.task.command \notin {"Read", "SaveConfig"}
    BY <1>1 DEF Inv, Safe, LaneSafe, CheckedTwice
  <2> QED BY <1>1, <1>2, <1>4, <2>1, GoToStep DEF Steps, BeforeIntent, AfterRequest
<1> QED BY <1>3, <1>4 DEF Recheck

LEMMA SampleType ==
    ASSUME Inv, NEW generation \in SampledGenerations(sunshine)
    PROVE  generation \in Generations \union {None}
BY DEF SampledGenerations, Inv, Worldly, WorldStates

LEMMA IntentType ==
    ASSUME NEW task \in Tasks, NEW config, NEW generation \in Generations \union {None},
           task.command = "SaveConfig" => config \in Config
    PROVE  Intent(task, config, generation) \in Intents
<1>1. CASE task.command = "SaveConfig"
  BY <1>1 DEF Intents
<1>2. CASE task.command # "SaveConfig"
  <2>1. PICK v \in Values : TRUE
    BY TaskAssumption
  <2> DEFINE other == [managed |-> v, local |-> v]
  <2>2. other \in Config
    BY DEF Config
  <2>3. Intent(task, config, generation) = Intent(task, other, generation)
    BY <1>2 DEF Intent
  <2> QED BY <2>2, <2>3 DEF Intents
<1> QED BY <1>1, <1>2

(* An intent is saved for an operation that nothing was requested for. *)
LEMMA IntentSaved ==
    ASSUME Inv, Busy, ~lane.volatile, lane.step = "intend",
           NEW effect \in Intents,
           disk' = [disk EXCEPT ![lane.task.id] = [lane.rec EXCEPT !.effect = effect]],
           UNCHANGED <<posts, told, closed>>
    PROVE  Told'
<1> DEFINE id0 == lane.task.id
           rec == [lane.rec EXCEPT !.effect = effect]
<1>1. lane.task \in Tasks /\ id0 \in OpIds /\ lane.rec \in TaskRecord
  BY TasksHaveIds DEF Inv, Safe, LaneSafe
<1>2. /\ rec.fingerprint = lane.task /\ rec.effect = effect
      /\ rec.report = None /\ ~rec.acknowledged /\ rec # None /\ effect # None
      /\ rec \in TaskRecord
  BY <1>1, ExecutorAssumption DEF Inv, Safe, LaneSafe, BeforeIntent, TaskRecord, Record
<1>3. /\ disk'[id0] = rec
      /\ \A id \in OpIds \ {id0} : disk'[id] = disk[id]
  BY <1>1 DEF Inv, Safe, Journalled
<1>4. \A t \in Tasks : t.id = id0 /\ Mutates(t) => told[t] = {}
  BY NothingTold
<1>5. None \notin Uncertainties /\ None \notin HarmlessRefusals
  BY ReportKinds DEF Reports
<1>6. RequestImpliesIntent' /\ UncertaintyHasIntent' /\ ClosedByTheManager' /\ RefusalsKept'
  BY <1>2, <1>3, <1>5
  DEF Inv, Safe, Told, RequestImpliesIntent, UncertaintyHasIntent, ClosedByTheManager,
      RefusalsKept, Uncertain
<1>6a. ReadsHaveNoIntent'
  BY <1>1, <1>2, <1>3 DEF Inv, Safe, Told, LaneSafe, ReadsHaveNoIntent
<1>7. VerdictsKept'
  BY <1>3, <1>4, TasksHaveIds DEF Inv, Safe, Told, VerdictsKept
<1> QED BY <1>6, <1>6a, <1>7
        DEF Inv, Safe, Told, AtMostOneRequest, OneVerdict, RefusedMeansUntouched

LEMMA IntendStep == Inv /\ Intend => Safe'
<1> SUFFICES ASSUME Inv, Intend PROVE Safe'
  OBVIOUS
<1>1. Busy /\ lane.step = "intend" /\ lane.step \in BeforeIntent /\ LaneSafe
  BY DEF Intend, At, BeforeIntent, Inv, Safe
<1>2. UNCHANGED <<posts, closed>>
  BY DEF Intend
<1>3. CASE Finish("Rejected.ExecutionExpired")
  BY <1>1, <1>2, <1>3, FinishEarly DEF Verdicts, Refusals
<1>4. ASSUME NEW generation \in SampledGenerations(sunshine),
             Remember(Intent(lane.task, lane.seen, generation))
      PROVE  Safe'
  <2> DEFINE effect == Intent(lane.task, lane.seen, generation)
             rec == [lane.rec EXCEPT !.effect = effect]
  <2>1. ~lane.volatile /\ lane.task.command # "Read" /\ lane.task \in Tasks
        /\ lane.task.id \in OpIds
    BY <1>1, TasksHaveIds DEF LaneSafe
  <2>2. effect \in Intents
    BY <1>1, <2>1, SampleType, IntentType DEF LaneSafe
  <2> HIDE DEF effect
  <2>3. rec \in TaskRecord
    BY <1>1, <2>2 DEF LaneSafe, TaskRecord, Record
  <2>4. PICK outcome \in {"Ok", "Storage"} :
            /\ J!Replace(lane.task.id, rec, outcome)
            /\ IF Remembered(outcome)
               THEN /\ lane' = [lane EXCEPT !.rec = rec, !.step = StepAfterIntent(lane.task)]
                    /\ UNCHANGED told
               ELSE PersistenceFailed(lane.task)
    BY <1>4 DEF Remember, effect
  <2>5. /\ Journalled'
        /\ opened' = opened
        /\ outcome = "Ok" => disk' = [disk EXCEPT ![lane.task.id] = rec] /\ ~poisoned'
        /\ disk' = disk \/ disk' = [disk EXCEPT ![lane.task.id] = rec]
    BY <2>1, <2>3, <2>4, Replaced DEF Inv, Safe
  <2>6. told' = told
    <3>1. {"Unknown.PersistenceFailure"} \intersect Verdicts = {}
      BY DEF Verdicts, Refusals, Successes
    <3> QED BY <2>4, <3>1 DEF PersistenceFailed, Reply, Inv, Safe, Told
  <2>7. Told'
    <3>1. CASE disk' = disk
      BY <1>2, <2>6, <3>1, ToldUnchanged DEF Inv, Safe, Told
    <3>2. CASE disk' = [disk EXCEPT ![lane.task.id] = rec]
      BY <1>1, <1>2, <2>1, <2>2, <2>6, <3>2, IntentSaved
    <3> QED BY <2>5, <3>1, <3>2
  <2>8. CASE outcome = "Ok"
    <3>1. lane' = [lane EXCEPT !.rec = rec, !.step = StepAfterIntent(lane.task)]
      BY <2>4, <2>8 DEF Remembered
    <3>2. StepAfterIntent(lane.task) \in {"guard", "post"}
      BY DEF StepAfterIntent
    <3>3. /\ lane' \in Lanes
          /\ lane'.step \in {"guard", "post"} /\ lane'.rec = rec
          /\ lane'.task = lane.task /\ lane'.volatile = lane.volatile
      BY <2>3, <3>1, <3>2 DEF Inv, Safe, Lanes, Steps
    <3>4. /\ rec.fingerprint = lane.task /\ ~rec.acknowledged /\ rec.report = None
          /\ rec.effect = effect /\ effect # None /\ rec # None
      BY <1>1, <2>2, <2>3, ExecutorAssumption DEF LaneSafe, TaskRecord, Record
    <3>5. disk'[lane.task.id] = rec /\ ~poisoned' /\ opened'
      BY <1>1, <2>1, <2>5, <2>8 DEF LaneSafe, Inv, Safe, Journalled
    <3>6. OnDisk'
      BY <3>3, <3>4, <3>5 DEF OnDisk, Final
    <3>7. LaneSafe'
      BY <1>1, <1>2, <2>1, <2>3, <3>3, <3>4, <3>5, <3>6
      DEF LaneSafe, BeforeIntent, AfterRequest
    <3> QED BY <2>5, <2>7, <3>3, <3>7 DEF Safe
  <2>9. CASE outcome # "Ok"
    <3>1. lane' = Idle
      BY <2>4, <2>9 DEF Remembered, PersistenceFailed, Reply
    <3> QED BY <2>5, <2>7, <3>1, IdleLane DEF Safe, Busy
  <2> QED BY <2>8, <2>9
<1> QED BY <1>3, <1>4 DEF Intend

-----------------------------------------------------------------------------
(* From the intent to the verdict *)

LEMMA LateReports ==
    /\ \A effect : SuccessOf(effect) \in Verdicts \ HarmlessRefusals
    /\ \A effect : UncertaintyOf(effect) \in Uncertainties
    /\ \A task, reply : UnobservableReport(task, reply)
                             \in (Verdicts \ HarmlessRefusals) \union Uncertainties
<1>1. \A effect : SuccessOf(effect) \in Verdicts \ HarmlessRefusals
  BY DEF SuccessOf, Verdicts, HarmlessRefusals, Refusals, Successes
<1>2. \A effect : UncertaintyOf(effect) \in Uncertainties
  BY DEF UncertaintyOf, Uncertainties
<1>3. \A task, reply : UnobservableReport(task, reply)
        \in {"PairingPinSubmitted", "SideEffectCompleted", "Rejected.PairingFailed",
             "Unknown.SideEffectNotConfirmed"}
  BY DEF UnobservableReport
<1>4. {"PairingPinSubmitted", "SideEffectCompleted", "Rejected.PairingFailed"}
        \subseteq Verdicts \ HarmlessRefusals
  BY DEF Verdicts, HarmlessRefusals, Refusals, Successes
<1>5. "Unknown.SideEffectNotConfirmed" \in Uncertainties
  BY DEF Uncertainties
<1> QED BY <1>1, <1>2, <1>3, <1>4, <1>5

LEMMA ReadingSteps ==
    \A effect : FirstReading(effect) \in AfterRequest /\ FirstReading(effect) # "idle"
BY DEF FirstReading, AfterRequest

(* Leaving for the readings of reconcile. *)
LEMMA ReadingStep ==
    ASSUME Inv, Busy, lane.step \notin BeforeIntent,
           GoTo(FirstReading(lane.rec.effect)),
           UNCHANGED <<posts, closed>>
    PROVE  Safe'
<1>1. PICK step \in {"reconcile", "conclude"} : GoTo(step)
  BY DEF FirstReading
<1>2. lane.task.command # "Read"
  BY DEF Inv, Safe, LaneSafe, BeforeIntent
<1> QED BY <1>1, <1>2, GoToStep DEF Steps, BeforeIntent, AfterRequest

LEMMA AbandonStep ==
    ASSUME Inv, Busy, lane.step \notin BeforeIntent, Abandon,
           UNCHANGED <<posts, closed>>
    PROVE  Safe'
<1>1. CASE Finish("Unknown.SideEffectNotConfirmed")
  BY <1>1, FinishLate DEF Uncertainties
<1>2. CASE GoTo(FirstReading(lane.rec.effect))
  BY <1>2, ReadingStep
<1> QED BY <1>1, <1>2 DEF Abandon

(* The position of an application is that of one the reading contains.     *)
LEMMA PositionType ==
    ASSUME NEW task, NEW world \in WorldStates, GuardPasses(task, world)
    PROVE  Position(task, world) \in Nat
<1>1. CASE ~Guarded(task) \/ task.command = "PatchConfig" \/ task.target = None
  BY <1>1 DEF Position
<1>2. CASE Guarded(task) /\ task.command # "PatchConfig" /\ task.target # None
  <2> DEFINE places == {i \in DOMAIN world.apps : world.apps[i] = task.target}
  <2>1. Cardinality(places) = 1
    BY <1>2 DEF GuardPasses, GuardHolds, TargetFound, Occurrences
  <2>2. places # {}
    BY <2>1, FS_EmptySet
  <2>3. DOMAIN world.apps \subseteq Nat
    <3>1. world.apps \in Seq(AppRefs)
      BY DEF WorldStates
    <3> QED BY <3>1
  <2>4. Position(task, world) = CHOOSE i \in DOMAIN world.apps : world.apps[i] = task.target
    BY <1>2 DEF Position
  <2> QED BY <2>2, <2>3, <2>4
<1> QED BY <1>1, <1>2

LEMMA GuardStep ==
    ASSUME Inv, NEW step \in {"guard", "guardAgain"}, Guard(step)
    PROVE  Safe'
<1>1. /\ Busy /\ lane.step = step /\ lane.step \notin BeforeIntent
      /\ lane.step \notin AfterRequest /\ LaneSafe
  BY DEF Guard, At, BeforeIntent, AfterRequest, Inv, Safe
<1>2. UNCHANGED <<posts, closed>>
  BY DEF Guard
<1>3. CASE /\ GuardPasses(lane.task, sunshine)
           /\ lane' = [lane EXCEPT
                 !.step = IF step = "guard" /\ GuardedTwice(lane.task)
                          THEN "guardAgain" ELSE "post",
                 !.position = Position(lane.task, sunshine)]
           /\ UNCHANGED <<journalVars, told>>
  <2>1. Position(lane.task, sunshine) \in Nat
    BY <1>3, PositionType DEF Inv, Worldly
  <2>2. /\ lane' \in Lanes
        /\ lane'.step \in {"guardAgain", "post"}
        /\ lane'.task = lane.task /\ lane'.rec = lane.rec /\ lane'.volatile = lane.volatile
    BY <1>3, <2>1 DEF Inv, Safe, Lanes, Steps
  <2>3. lane.task.command # "Read"
    BY <1>1 DEF LaneSafe
  <2> QED BY <1>1, <1>2, <1>3, <2>2, <2>3, MoveStep DEF BeforeIntent, AfterRequest
<1>4. CASE Finish("Rejected.ResourceConflict")
  <2>1. posts[lane.task.id] = 0
    BY <1>1 DEF LaneSafe
  <2>2. "Rejected.ResourceConflict" \in Verdicts
    BY DEF Verdicts, Refusals
  <2> QED BY <1>1, <1>2, <1>4, <2>1, <2>2, FinishStep, ReportKinds
<1>5. CASE Abandon
  BY <1>1, <1>2, <1>5, AbandonStep
<1> QED BY <1>3, <1>4, <1>5 DEF Guard

(* The request leaves: its intent is on disk and no request left before.   *)
LEMMA PostStep == Inv /\ Post => Safe'
<1> SUFFICES ASSUME Inv, Post PROVE Safe'
  OBVIOUS
<1> DEFINE id0 == lane.task.id
<1>1. Busy /\ lane.step = "post" /\ LaneSafe
  BY DEF Post, At, Inv, Safe
<1>2. /\ lane' = [lane EXCEPT !.step = "await"]
      /\ UNCHANGED <<journalVars, told, closed>>
      /\ posts' = [posts EXCEPT ![id0] = @ + 1]
  BY DEF Post, GoTo
<1>3. /\ lane' \in Lanes /\ lane'.step = "await"
      /\ lane'.task = lane.task /\ lane'.rec = lane.rec /\ lane'.volatile = lane.volatile
  BY <1>2 DEF Inv, Safe, Lanes, Steps
<1>4. /\ id0 \in OpIds /\ posts[id0] = 0 /\ ~lane.volatile
      /\ lane.rec.effect # None /\ OnDisk
  BY <1>1, TasksHaveIds DEF LaneSafe, BeforeIntent, AfterRequest
<1>5. /\ posts'[id0] = 1
      /\ \A id \in OpIds \ {id0} : posts'[id] = posts[id]
      /\ posts' \in [OpIds -> Nat]
  BY <1>2, <1>4 DEF Inv, Safe, Told
<1>6. Journalled'
  BY <1>2 DEF Inv, Safe, Journalled, journalVars
<1>7. LaneSafe'
  BY <1>1, <1>2, <1>3 DEF LaneSafe, OnDisk, BeforeIntent, AfterRequest, journalVars
<1>8. AtMostOneRequest' /\ RequestImpliesIntent'
  BY <1>2, <1>4, <1>5
  DEF Inv, Safe, Told, AtMostOneRequest, RequestImpliesIntent, OnDisk, journalVars
<1>9. RefusalsKept'
  <2>1. disk[id0].report \notin HarmlessRefusals
    BY <1>4, ReportKinds DEF OnDisk, Final, Uncertain
  <2> QED BY <1>2, <1>5, <2>1 DEF Inv, Safe, Told, RefusalsKept, journalVars
<1>10. RefusedMeansUntouched'
  <2>1. \A t \in Tasks : t.id = id0 /\ Mutates(t) => told[t] = {}
    BY <1>1, <1>4, NothingTold
  <2> QED BY <1>2, <1>5, <2>1, TasksHaveIds DEF Inv, Safe, Told, RefusedMeansUntouched
<1>11. Told'
  BY <1>2, <1>5, <1>8, <1>9, <1>10
  DEF Inv, Safe, Told, UncertaintyHasIntent, ClosedByTheManager, OneVerdict,
      VerdictsKept, ReadsHaveNoIntent, journalVars
<1> QED BY <1>3, <1>6, <1>7, <1>11 DEF Safe

LEMMA PostSkippedStep == Inv /\ PostSkipped => Safe'
<1> SUFFICES ASSUME Inv, PostSkipped PROVE Safe'
  OBVIOUS
<1> QED BY AbandonStep DEF PostSkipped, At, BeforeIntent

LEMMA AwaitStep == Inv /\ Await => Safe'
<1> SUFFICES ASSUME Inv, Await PROVE Safe'
  OBVIOUS
<1>1. Busy /\ lane.step \notin BeforeIntent /\ UNCHANGED <<posts, closed>>
  BY DEF Await, At, BeforeIntent
<1>2. ASSUME NEW reply, Finish(UnobservableReport(lane.task, reply))
      PROVE  Safe'
  BY <1>1, <1>2, LateReports, FinishLate
<1>3. CASE GoTo(FirstReading(lane.rec.effect))
  BY <1>1, <1>3, ReadingStep
<1> QED BY <1>2, <1>3 DEF Await

(* A step of reconcile that keeps reading. *)
LEMMA ReadOnStep ==
    ASSUME Inv, Busy, lane.step \in AfterRequest,
           NEW step \in {"reconcile", "conclude"},
           NEW seen \in WorldStates \union {None}, NEW attempt \in Nat,
           lane' = [lane EXCEPT !.step = step, !.seen = seen, !.attempt = attempt],
           UNCHANGED <<journalVars, told, posts, closed>>
    PROVE  Safe'
<1>1. /\ lane' \in Lanes /\ lane'.step = step
      /\ lane'.task = lane.task /\ lane'.rec = lane.rec /\ lane'.volatile = lane.volatile
  BY DEF Inv, Safe, Lanes, Steps
<1>2. lane.task.command # "Read"
  BY DEF Inv, Safe, LaneSafe, AfterRequest
<1> QED BY <1>1, <1>2, MoveStep DEF BeforeIntent, AfterRequest

LEMMA NotConfirmedStep ==
    ASSUME Inv, Busy, lane.step \in AfterRequest, NotConfirmed,
           UNCHANGED <<posts, closed>>
    PROVE  Safe'
<1>1. CASE Finish(UncertaintyOf(lane.rec.effect))
  <2>1. lane.step \notin BeforeIntent
    BY DEF AfterRequest, BeforeIntent
  <2> QED BY <1>1, <2>1, LateReports, FinishLate
<1>2. CASE /\ lane' = [lane EXCEPT !.step = "reconcile", !.seen = None, !.attempt = @ + 1]
           /\ UNCHANGED <<journalVars, told>>
  <2>1. lane.attempt + 1 \in Nat
    BY DEF Inv, Safe, Lanes
  <2> QED BY <1>2, <2>1, ReadOnStep
<1> QED BY <1>1, <1>2 DEF NotConfirmed

LEMMA ReconcileStep == Inv /\ Reconcile => Safe'
<1> SUFFICES ASSUME Inv, Reconcile PROVE Safe'
  OBVIOUS
<1>1. /\ Busy /\ lane.step \in AfterRequest /\ lane.step \notin BeforeIntent
      /\ UNCHANGED <<posts, closed>>
  BY DEF Reconcile, At, AfterRequest, BeforeIntent
<1>2. CASE /\ lane' = [lane EXCEPT !.step = "conclude", !.seen = sunshine]
           /\ UNCHANGED <<journalVars, told>>
  <2>1. lane' = [lane EXCEPT !.step = "conclude", !.seen = sunshine,
                             !.attempt = lane.attempt]
    BY <1>2 DEF Inv, Safe, Lanes
  <2>2. sunshine \in WorldStates /\ lane.attempt \in Nat
    BY DEF Inv, Safe, Lanes, Worldly
  <2> QED BY <1>1, <1>2, <2>1, <2>2, ReadOnStep
<1>3. CASE NotConfirmed
  BY <1>1, <1>3, NotConfirmedStep
<1> QED BY <1>2, <1>3 DEF Reconcile

LEMMA ConcludeStep == Inv /\ Conclude => Safe'
<1> SUFFICES ASSUME Inv, Conclude PROVE Safe'
  OBVIOUS
<1>1. /\ Busy /\ lane.step \in AfterRequest /\ lane.step \notin BeforeIntent
      /\ UNCHANGED <<posts, closed>>
  BY DEF Conclude, At, AfterRequest, BeforeIntent
<1>2. CASE Finish(SuccessOf(lane.rec.effect))
  BY <1>1, <1>2, LateReports, FinishLate
<1>3. CASE NotConfirmed
  BY <1>1, <1>3, NotConfirmedStep
<1> QED BY <1>2, <1>3 DEF Conclude

-----------------------------------------------------------------------------
(* Time, receipts and the process *)

LEMMA TimeoutStep == Inv /\ Timeout => Safe'
<1> SUFFICES ASSUME Inv, Timeout PROVE Safe'
  OBVIOUS
<1>1. Busy /\ Finish(TimeoutReport(lane.rec)) /\ UNCHANGED <<posts, closed>>
  BY DEF Timeout
<1>2. CASE lane.rec.effect # None
  <2>1. TimeoutReport(lane.rec) = "Unknown.EffectNotConfirmed"
    BY <1>2 DEF TimeoutReport
  <2>2. lane.step \notin BeforeIntent
    BY <1>1, <1>2 DEF Inv, Safe, LaneSafe
  <2> QED BY <1>1, <2>1, <2>2, FinishLate DEF Uncertainties
<1>3. CASE lane.rec.effect = None
  <2>1. TimeoutReport(lane.rec) = "Rejected.SunshineUnavailable"
    BY <1>3 DEF TimeoutReport
  <2>2. lane.step \in BeforeIntent
    BY <1>1, <1>3 DEF Inv, Safe, LaneSafe
  <2> QED BY <1>1, <2>1, <2>2, FinishEarly DEF Verdicts, Refusals
<1> QED BY <1>2, <1>3

LEMMA ExpireStep == Inv /\ Expire => Safe'
<1> SUFFICES ASSUME Inv, Expire PROVE Safe'
  OBVIOUS
<1>1. /\ Busy /\ lane' = [lane EXCEPT !.deadline = "expired"]
      /\ UNCHANGED <<journalVars, told, posts, closed>>
  BY DEF Expire, historyVars
<1>2. /\ lane' \in Lanes /\ lane'.step = lane.step /\ lane'.seen = lane.seen
      /\ lane'.task = lane.task /\ lane'.rec = lane.rec /\ lane'.volatile = lane.volatile
  BY <1>1 DEF Inv, Safe, Lanes
<1> QED BY <1>1, <1>2, MoveStep DEF Inv, Safe, LaneSafe, Busy

LEMMA OpenStep == Inv /\ Open => Safe'
<1> SUFFICES ASSUME Inv, Open PROVE Safe'
  OBVIOUS
<1>1. ~Busy /\ UNCHANGED <<lane, posts, told, closed>> /\ disk' = disk
  BY DEF Open, J!Open, historyVars, Inv, Safe, LaneSafe
<1>2. Journalled'
  BY DEF Open, J!Open, J!Present, J!Unacknowledged, Inv, Safe, Journalled
<1>3. Told'
  BY <1>1, ToldUnchanged DEF Inv, Safe, Told
<1> QED BY <1>1, <1>2, <1>3 DEF Inv, Safe, Busy

LEMMA CrashStep == Inv /\ Crash => Safe'
<1> SUFFICES ASSUME Inv, Crash PROVE Safe'
  OBVIOUS
<1>1. lane' = Idle /\ UNCHANGED <<posts, told, closed>> /\ disk' = disk
  BY DEF Crash, J!Close, historyVars
<1>2. Journalled'
  BY DEF Crash, J!Close, Inv, Safe, Journalled
<1>3. Told'
  BY <1>1, ToldUnchanged DEF Inv, Safe, Told
<1> QED BY <1>1, <1>2, <1>3, IdleLane DEF Safe, Busy

(* A receipt never touches an operation in execution. *)
LEMMA AcknowledgeStep ==
    ASSUME Inv, NEW task \in Tasks, NEW report \in Reports, NEW finalized \in BOOLEAN,
           Acknowledge(task, report, finalized)
    PROVE  Safe'
<1> DEFINE id0 == task.id
           closing == Closes(report, finalized)
           rec == [disk[id0] EXCEPT !.acknowledged = closing,
                                    !.report = IF closing THEN None ELSE @,
                                    !.effect = IF closing THEN None ELSE @,
                                    !.accepted = report]
<1>1. id0 \in OpIds
  BY TasksHaveIds
<1>2. /\ ~Busy /\ disk[id0] # None /\ ~disk[id0].acknowledged
      /\ disk[id0].fingerprint = task /\ disk[id0].report = report
      /\ UNCHANGED <<lane, posts, told>>
      /\ closed' = IF finalized THEN closed \union {id0} ELSE closed
  BY DEF Acknowledge, J!Loaded
<1>3. PICK outcome \in {"Ok", "Storage"} : J!Replace(id0, rec, outcome)
  BY DEF Acknowledge, J!Loaded
<1>4. disk[id0] \in TaskRecord /\ closing \in BOOLEAN
  BY <1>1, <1>2 DEF Inv, Safe, Journalled, Closes, Final, Uncertain
<1>5. /\ rec \in TaskRecord /\ rec # None
      /\ rec.acknowledged = closing /\ rec.accepted = report
      /\ rec.fingerprint = task
      /\ closing => rec.report = None /\ rec.effect = None
      /\ ~closing => rec.report = report /\ rec.effect = disk[id0].effect
  BY ZenonT(40), <1>2, <1>4, ExecutorAssumption DEF TaskRecord, Record
<1>6. closing => finalized \/ Final(report)
  BY DEF Closes
<1> HIDE DEF closing, rec
<1>7. /\ Journalled'
      /\ disk' = disk \/ disk' = [disk EXCEPT ![id0] = rec]
  BY <1>1, <1>3, <1>5, Replaced DEF Inv, Safe
<1>8. closed' \in SUBSET OpIds /\ closed \subseteq closed' /\ (finalized => id0 \in closed')
  BY <1>1, <1>2 DEF Inv, Safe, Told
<1>9. None \notin Uncertainties /\ None \notin HarmlessRefusals
  BY ReportKinds DEF Reports
<1>10. CASE disk' = disk
  <2>1. Told'
    BY <1>2, <1>8, <1>10
    DEF Inv, Safe, Told, AtMostOneRequest, RequestImpliesIntent, UncertaintyHasIntent,
        ClosedByTheManager, OneVerdict, VerdictsKept, RefusalsKept, ReadsHaveNoIntent,
        RefusedMeansUntouched
  <2> QED BY <1>2, <1>7, <2>1 DEF Inv, Safe, Busy
<1>11. CASE disk' = [disk EXCEPT ![id0] = rec]
  <2>1. /\ disk'[id0] = rec
        /\ \A id \in OpIds \ {id0} : disk'[id] = disk[id]
    BY <1>1, <1>11 DEF Inv, Safe, Journalled
  <2>2. RequestImpliesIntent'
    BY <1>2, <1>5, <2>1 DEF Inv, Safe, Told, RequestImpliesIntent
  <2>3. UncertaintyHasIntent'
    BY <1>2, <1>5, <1>9, <2>1 DEF Inv, Safe, Told, UncertaintyHasIntent, Uncertain
  <2>4. ClosedByTheManager'
    BY <1>5, <1>6, <1>8, <2>1 DEF Inv, Safe, Told, ClosedByTheManager
  <2>5. VerdictsKept'
    <3> SUFFICES ASSUME NEW t \in Tasks, Mutates(t), told[t] # {}
                 PROVE  /\ disk'[t.id] # None
                        /\ disk'[t.id].fingerprint = t
                        /\ disk'[t.id].acknowledged \/ told[t] = {disk'[t.id].report}
      BY <1>2 DEF VerdictsKept
    <3>1. /\ disk[t.id] # None
          /\ disk[t.id].fingerprint = t
          /\ disk[t.id].acknowledged \/ told[t] = {disk[t.id].report}
      BY DEF Inv, Safe, Told, VerdictsKept
    <3> QED BY <1>2, <1>5, <2>1, <3>1, TasksHaveIds
  <2>6. RefusalsKept'
    BY <1>2, <1>5, <1>9, <2>1 DEF Inv, Safe, Told, RefusalsKept
  <2>6a. ReadsHaveNoIntent'
    BY <1>2, <1>5, <2>1 DEF Inv, Safe, Told, ReadsHaveNoIntent
  <2>7. Told'
    BY <1>2, <1>8, <2>2, <2>3, <2>4, <2>5, <2>6, <2>6a
    DEF Inv, Safe, Told, AtMostOneRequest, OneVerdict, RefusedMeansUntouched
  <2> QED BY <1>2, <1>7, <2>7 DEF Inv, Safe, Busy
<1> QED BY <1>7, <1>10, <1>11

-----------------------------------------------------------------------------
(* Deliveries *)

(* An answer that is no verdict, and changes no record. *)
LEMMA ReplyWithoutVerdict ==
    ASSUME Inv, ~Busy, NEW task \in Tasks, NEW report, report \notin Verdicts,
           Reply(task, report), UNCHANGED <<journalVars, posts, closed>>
    PROVE  Safe'
<1>1. lane' = Idle /\ told' = told
  BY DEF Reply, Inv, Safe, Told
<1>2. Journalled' /\ Told'
  BY <1>1, ToldUnchanged DEF Inv, Safe, Told, Journalled, journalVars
<1> QED BY <1>1, <1>2, IdleLane DEF Safe, Busy

(* The saved verdict is returned once more. *)
LEMMA ReplySavedVerdict ==
    ASSUME Inv, ~Busy, NEW task \in Tasks,
           disk[task.id] # None, disk[task.id].fingerprint = task,
           ~disk[task.id].acknowledged, Final(disk[task.id].report),
           Reply(task, disk[task.id].report), UNCHANGED <<journalVars, posts, closed>>
    PROVE  Safe'
<1> DEFINE report == disk[task.id].report
<1>1. lane' = Idle /\ told' = [told EXCEPT ![task] = @ \union ({report} \intersect Verdicts)]
  BY DEF Reply
<1>2. told[task] \subseteq {report} \/ ~Mutates(task)
  BY DEF Inv, Safe, Told, VerdictsKept
<1>3. /\ told' \in [Tasks -> SUBSET Verdicts]
      /\ told'[task] = told[task] \union ({report} \intersect Verdicts)
      /\ \A t \in Tasks \ {task} : told'[t] = told[t]
  BY <1>1 DEF Inv, Safe, Told
<1>4. Journalled' /\ UNCHANGED disk
  BY DEF Inv, Safe, Journalled, journalVars
<1>5. OneVerdict'
  BY <1>2, <1>3 DEF Inv, Safe, Told, OneVerdict
<1>6. VerdictsKept'
  <2> SUFFICES ASSUME NEW t \in Tasks, Mutates(t), told'[t] # {}
               PROVE  /\ disk[t.id] # None
                      /\ disk[t.id].fingerprint = t
                      /\ disk[t.id].acknowledged \/ told'[t] = {disk[t.id].report}
    BY <1>4 DEF VerdictsKept
  <2>1. CASE t = task
    <3>1. told'[t] = {report}
      BY <1>2, <1>3, <2>1
    <3> QED BY <2>1, <3>1
  <2>2. CASE t # task
    BY <1>3, <2>2 DEF Inv, Safe, Told, VerdictsKept
  <2> QED BY <2>1, <2>2
<1>7. RefusedMeansUntouched'
  <2>1. report \in HarmlessRefusals => posts[task.id] = 0
    BY TasksHaveIds DEF Inv, Safe, Told, RefusalsKept
  <2>2. ASSUME NEW t \in Tasks, Mutates(t), told'[t] \intersect HarmlessRefusals # {}
        PROVE  posts'[t.id] = 0
    BY <1>3, <2>1, <2>2 DEF Inv, Safe, Told, RefusedMeansUntouched
  <2> QED BY <2>2 DEF RefusedMeansUntouched
<1>8. Told'
  BY <1>3, <1>4, <1>5, <1>6, <1>7
  DEF Inv, Safe, Told, AtMostOneRequest, RequestImpliesIntent, UncertaintyHasIntent,
      ClosedByTheManager, RefusalsKept, ReadsHaveNoIntent
<1> QED BY <1>1, <1>4, <1>8, IdleLane DEF Safe, Busy

LEMMA DeadlineType ==
    \A mode : Deadlines(mode) \subseteq {"none", "running", "expired"}
BY DEF Deadlines

(* The mutex is taken for an operation whose record is on disk. *)
LEMMA StartKnown ==
    ASSUME Inv, ~Busy, opened, ~poisoned, NEW task \in Tasks,
           NEW record \in TaskRecord, disk[task.id] = record,
           record.fingerprint = task, ~record.acknowledged, ~Final(record.report),
           NEW step \in {"start", "reconcile", "conclude"}, NEW bounded \in BOOLEAN,
           NEW deadline \in {"none", "running", "expired"},
           step = "start" <=> record.effect = None,
           record.effect = None => record.report = None,
           record.effect # None => task.command # "Read",
           Start(task, record, step, bounded, FALSE, deadline),
           UNCHANGED <<journalVars, posts, closed>>
    PROVE  Safe'
<1>1. /\ lane' \in Lanes /\ lane'.step = step /\ lane'.task = task
      /\ lane'.rec = record /\ ~lane'.volatile
  BY DEF Start, Idle, Lanes, Steps
<1>2. record # None /\ task.id \in OpIds
  BY ExecutorAssumption, TasksHaveIds
<1>3. record.effect = None => posts[task.id] = 0
  BY <1>2 DEF Inv, Safe, Told, RequestImpliesIntent
<1>4. LaneSafe'
  BY <1>1, <1>2, <1>3
  DEF LaneSafe, OnDisk, BeforeIntent, AfterRequest, journalVars
<1>5. Journalled' /\ Told'
  BY ToldUnchanged DEF Start, Inv, Safe, Told, Journalled, journalVars
<1> QED BY <1>1, <1>4, <1>5 DEF Safe

LEMMA DeliverKnownStep ==
    ASSUME Inv, ~Busy, opened, ~poisoned, NEW task \in Tasks, NEW mode,
           NEW deadline \in {"none", "running", "expired"},
           DeliverKnown(task, mode, deadline), UNCHANGED <<posts, closed>>
    PROVE  Safe'
<1> DEFINE record == disk[task.id]
<1>1. /\ record # None /\ record \in TaskRecord /\ task.id \in OpIds
      /\ J!Loaded(task.id) = record
      /\ UNCHANGED journalVars
  BY TasksHaveIds DEF DeliverKnown, J!Loaded, Inv, Safe, Journalled
<1>2. /\ "Rejected.OperationIdReused" \notin Verdicts
      /\ "Rejected.OperationAlreadyCompleted" \notin Verdicts
      /\ "Unknown.NoExecutionRecord" \notin Verdicts
  BY ReportKinds DEF GateRefusals, Uncertainties
<1>3. CASE record.fingerprint # task \/ record.acknowledged
  BY <1>1, <1>2, <1>3, ReplyWithoutVerdict DEF DeliverKnown
<1>4. CASE /\ record.fingerprint = task /\ ~record.acknowledged /\ Final(record.report)
  BY <1>1, <1>4, ReplySavedVerdict DEF DeliverKnown
<1>5. CASE /\ record.fingerprint = task /\ ~record.acknowledged /\ ~Final(record.report)
           /\ record.effect # None
  <2>1. Start(task, record, FirstReading(record.effect), FALSE, FALSE, deadline)
    BY <1>1, <1>5 DEF DeliverKnown, MustReconcile
  <2>2. FirstReading(record.effect) \in {"reconcile", "conclude"}
    BY DEF FirstReading
  <2>3. task.command # "Read"
    BY <1>1, <1>5 DEF Inv, Safe, Told, ReadsHaveNoIntent
  <2> QED BY <1>1, <1>5, <2>1, <2>2, <2>3, StartKnown
<1>6. CASE /\ record.fingerprint = task /\ ~record.acknowledged /\ ~Final(record.report)
           /\ record.effect = None
  <2>1. record.report = None
    BY <1>1, <1>6 DEF Inv, Safe, Told, UncertaintyHasIntent, Final
  <2>2. CASE mode = "InspectOnly"
    BY <1>1, <1>2, <1>6, <2>1, <2>2, ReplyWithoutVerdict DEF DeliverKnown, MustReconcile
  <2>3. CASE mode # "InspectOnly"
    <3>1. Start(task, record, "start", TRUE, FALSE, deadline)
      BY <1>1, <1>6, <2>1, <2>3 DEF DeliverKnown, MustReconcile
    <3> QED BY <1>1, <1>6, <2>1, <3>1, StartKnown
  <2> QED BY <2>2, <2>3
<1> QED BY <1>3, <1>4, <1>5, <1>6

LEMMA FreshRecordType ==
    \A task \in Tasks :
        /\ FreshRecord(task) \in TaskRecord /\ FreshRecord(task) # None
        /\ FreshRecord(task).fingerprint = task
        /\ FreshRecord(task).effect = None /\ FreshRecord(task).report = None
        /\ ~FreshRecord(task).acknowledged
<1> SUFFICES ASSUME NEW task \in Tasks
             PROVE  /\ FreshRecord(task) \in TaskRecord /\ FreshRecord(task) # None
                    /\ FreshRecord(task).fingerprint = task
                    /\ FreshRecord(task).effect = None /\ FreshRecord(task).report = None
                    /\ ~FreshRecord(task).acknowledged
  OBVIOUS
<1>1. FreshRecord(task) \in TaskRecord
  BY DEF FreshRecord, TaskRecord, Record
<1>2. FreshRecord(task) # None
  BY <1>1, ExecutorAssumption
<1> QED BY <1>1, <1>2 DEF FreshRecord

(* What a create leaves behind, by what its caller is told. *)
LEMMA Created ==
    ASSUME Inv, opened, ~poisoned, NEW task \in Tasks, J!Loaded(task.id) = None,
           NEW outcome \in {"Ok", "Full", "Storage"},
           J!Create(task.id, FreshRecord(task), outcome)
    PROVE  /\ Journalled'
           /\ opened' = opened
           /\ disk[task.id] = None
           /\ disk' = disk \/ disk' = [disk EXCEPT ![task.id] = FreshRecord(task)]
           /\ outcome = "Ok" =>
                 disk' = [disk EXCEPT ![task.id] = FreshRecord(task)] /\ ~poisoned'
           /\ outcome = "Full" => UNCHANGED journalVars
<1> DEFINE id0 == task.id
           rec == FreshRecord(task)
<1>1. id0 \in OpIds /\ id0 \notin ids /\ disk[id0] = None
  BY TasksHaveIds DEF J!Loaded, Inv, Safe, Journalled
<1>2. rec \in TaskRecord /\ rec # None
  BY FreshRecordType
<1> HIDE DEF rec
<1>3. CASE UNCHANGED J!journalVars /\ outcome # "Ok"
  BY <1>1, <1>3 DEF J!journalVars, journalVars, Inv, Safe, Journalled
<1>4. CASE /\ outcome = "Ok" /\ J!Installed(id0, rec)
           /\ ids' = ids \union {id0}
           /\ active' = IF rec.acknowledged THEN active ELSE active \union {id0}
           /\ UNCHANGED <<poisoned, opened>>
  <2>1. disk' = [disk EXCEPT ![id0] = rec]
    BY <1>4 DEF J!Installed
  <2>2. active' \in SUBSET OpIds
    BY <1>1, <1>4 DEF Inv, Safe, Journalled
  <2>3. Journalled'
    BY <1>1, <1>2, <1>4, <2>1, <2>2 DEF Inv, Safe, Journalled
  <2> QED BY <1>1, <1>4, <2>1, <2>3 DEF rec
<1>5. CASE outcome = "Storage" /\ J!FailedWrite(id0, rec)
  <2>1. disk' = disk \/ disk' = [disk EXCEPT ![id0] = rec]
    BY <1>5 DEF J!FailedWrite, J!Installed
  <2>2. poisoned' = TRUE /\ UNCHANGED <<ids, active, opened>>
    BY <1>5 DEF J!FailedWrite
  <2>3. Journalled'
    BY <1>1, <1>2, <2>1, <2>2 DEF Inv, Safe, Journalled
  <2> QED BY <1>1, <1>5, <2>1, <2>2, <2>3 DEF rec
<1> QED BY <1>3, <1>4, <1>5 DEF J!Create, rec

(* A new record says nothing yet. *)
LEMMA FreshRecordSafe ==
    ASSUME Inv, NEW task \in Tasks, disk[task.id] = None,
           disk' = disk \/ disk' = [disk EXCEPT ![task.id] = FreshRecord(task)],
           UNCHANGED <<posts, told, closed>>
    PROVE  Told'
<1>1. CASE disk' = disk
  BY <1>1, ToldUnchanged DEF Inv, Safe, Told
<1>2. CASE disk' = [disk EXCEPT ![task.id] = FreshRecord(task)]
  <2> DEFINE rec == FreshRecord(task)
  <2>1. /\ rec.effect = None /\ rec.report = None /\ ~rec.acknowledged
        /\ task.id \in OpIds
    BY FreshRecordType, TasksHaveIds
  <2> HIDE DEF rec
  <2>2. /\ disk'[task.id] = rec
        /\ \A id \in OpIds \ {task.id} : disk'[id] = disk[id]
    BY <1>2, <2>1 DEF Inv, Safe, Journalled, rec
  <2>3. posts[task.id] = 0
    BY <2>1 DEF Inv, Safe, Told, RequestImpliesIntent
  <2>4. None \notin Uncertainties /\ None \notin HarmlessRefusals
    BY ReportKinds DEF Reports
  <2>5. RequestImpliesIntent' /\ UncertaintyHasIntent' /\ ClosedByTheManager'
        /\ RefusalsKept' /\ ReadsHaveNoIntent'
    BY <2>1, <2>2, <2>3, <2>4
    DEF Inv, Safe, Told, RequestImpliesIntent, UncertaintyHasIntent, ClosedByTheManager,
        RefusalsKept, ReadsHaveNoIntent, Uncertain
  <2>6. VerdictsKept'
    BY <2>2, TasksHaveIds DEF Inv, Safe, Told, VerdictsKept
  <2> QED BY <2>5, <2>6
          DEF Inv, Safe, Told, AtMostOneRequest, OneVerdict, RefusedMeansUntouched
<1> QED BY <1>1, <1>2

LEMMA DeliverNewStep ==
    ASSUME Inv, ~Busy, opened, ~poisoned, NEW task \in Tasks, NEW mode,
           NEW deadline \in {"none", "running", "expired"},
           DeliverNew(task, mode, deadline), UNCHANGED <<posts, closed>>
    PROVE  Safe'
<1> DEFINE record == FreshRecord(task)
<1>1. J!Loaded(task.id) = None /\ task.id \in OpIds
  BY TasksHaveIds DEF DeliverNew
<1>2. /\ "Unknown.NoExecutionRecord" \notin Verdicts
      /\ "Unknown.PersistenceFailure" \notin Verdicts
      /\ "Rejected.JournalFull" \notin Verdicts
  BY ReportKinds DEF GateRefusals, Uncertainties
<1>3. CASE Reply(task, "Unknown.NoExecutionRecord") /\ UNCHANGED journalVars
  BY <1>2, <1>3, ReplyWithoutVerdict
<1>4. CASE J!Create(task.id, record, "Ok") /\ Start(task, record, "start", TRUE, FALSE, deadline)
  <2>1. /\ Journalled' /\ disk[task.id] = None /\ opened' = opened /\ ~poisoned'
        /\ disk' = [disk EXCEPT ![task.id] = record]
    BY <1>1, <1>4, Created
  <2>2. Told'
    BY <2>1, FreshRecordSafe, <1>4 DEF Start
  <2>3. /\ record \in TaskRecord /\ record # None /\ record.fingerprint = task
        /\ record.effect = None /\ record.report = None /\ ~record.acknowledged
    BY FreshRecordType
  <2> HIDE DEF record
  <2>4. /\ lane' \in Lanes /\ lane'.step = "start" /\ lane'.task = task
        /\ lane'.rec = record /\ ~lane'.volatile
    BY <1>4, <2>3 DEF Start, Idle, Lanes, Steps
  <2>5. disk'[task.id] = record
    BY <1>1, <2>1 DEF Inv, Safe, Journalled
  <2>6. posts[task.id] = 0
    BY <1>1, <2>1 DEF Inv, Safe, Told, RequestImpliesIntent
  <2>7. LaneSafe'
    BY <2>1, <2>3, <2>4, <2>5, <2>6
    DEF LaneSafe, OnDisk, BeforeIntent, AfterRequest, Final
  <2> QED BY <2>1, <2>2, <2>4, <2>7 DEF Safe
<1>5. CASE /\ J!Create(task.id, record, "Full")
           /\ IF Mutates(task) THEN Reply(task, "Rejected.JournalFull")
              ELSE Start(task, record, "start", TRUE, TRUE, deadline)
  <2>1. UNCHANGED journalVars /\ disk[task.id] = None /\ Journalled'
    BY <1>1, <1>5, Created
  <2>2. CASE Mutates(task)
    BY <1>2, <1>5, <2>1, <2>2, ReplyWithoutVerdict
  <2>3. CASE ~Mutates(task)
    <3>1. Start(task, record, "start", TRUE, TRUE, deadline)
      BY <1>5, <2>3
    <3>2. /\ record \in TaskRecord /\ record # None /\ record.fingerprint = task
          /\ record.effect = None /\ record.report = None /\ ~record.acknowledged
      BY FreshRecordType
    <3> HIDE DEF record
    <3>3. /\ lane' \in Lanes /\ lane'.step = "start" /\ lane'.task = task
          /\ lane'.rec = record /\ lane'.volatile
      BY <3>1, <3>2 DEF Start, Idle, Lanes, Steps
    <3>4. posts[task.id] = 0
      BY <1>1, <2>1 DEF Inv, Safe, Told, RequestImpliesIntent
    <3>5. LaneSafe'
      BY <2>1, <2>3, <3>2, <3>3, <3>4
      DEF LaneSafe, BeforeIntent, AfterRequest, Mutates, journalVars
    <3>6. Told'
      BY <2>1, <3>1, ToldUnchanged DEF Start, Inv, Safe, Told, journalVars
    <3> QED BY <2>1, <3>3, <3>5, <3>6 DEF Safe
  <2> QED BY <2>2, <2>3
<1>6. CASE J!Create(task.id, record, "Storage") /\ PersistenceFailed(task)
  <2>1. /\ Journalled' /\ disk[task.id] = None
        /\ disk' = disk \/ disk' = [disk EXCEPT ![task.id] = record]
    BY <1>1, <1>6, Created
  <2>2. lane' = Idle /\ told' = told
    BY <1>2, <1>6 DEF PersistenceFailed, Reply, Inv, Safe, Told
  <2>3. Told'
    BY <2>1, <2>2, FreshRecordSafe
  <2> QED BY <2>1, <2>2, <2>3, IdleLane DEF Safe, Busy
<1> QED BY <1>3, <1>4, <1>5, <1>6 DEF DeliverNew

LEMMA DeliverStep ==
    ASSUME Inv, NEW task \in Tasks, NEW mode \in {"Execute", "InspectOnly"},
           Deliver(task, mode)
    PROVE  Safe'
<1>1. opened /\ ~Busy /\ UNCHANGED <<posts, closed>>
  BY DEF Deliver
<1>2. PICK deadline \in Deadlines(mode) :
          \/ PersistenceFailed(task) /\ UNCHANGED journalVars
          \/ /\ ~poisoned
             /\ DeliverKnown(task, mode, deadline) \/ DeliverNew(task, mode, deadline)
  BY DEF Deliver
<1>3. deadline \in {"none", "running", "expired"}
  BY <1>2, DeadlineType
<1>4. "Unknown.PersistenceFailure" \notin Verdicts
  BY ReportKinds DEF Uncertainties
<1>5. CASE PersistenceFailed(task) /\ UNCHANGED journalVars
  BY <1>1, <1>4, <1>5, ReplyWithoutVerdict DEF PersistenceFailed
<1>6. CASE ~poisoned /\ DeliverKnown(task, mode, deadline)
  BY <1>1, <1>3, <1>6, DeliverKnownStep
<1>7. CASE ~poisoned /\ DeliverNew(task, mode, deadline)
  BY <1>1, <1>3, <1>7, DeliverNewStep
<1> QED BY <1>2, <1>5, <1>6, <1>7

-----------------------------------------------------------------------------
(* Sunshine *)

(* What the intents of the tasks aim at. *)
LEMMA IntentTargets ==
    ASSUME NEW effect \in Intents
    PROVE  /\ effect.kind = "Save" => effect.target \in Config
           /\ effect.kind = "SaveApplication" => effect.target \in AppRefs
           /\ effect.kind = "SetPairedClientEnabled" =>
                 effect.target.client \in Clients /\ effect.target.state \in ClientStates
<1>1. PICK t \in Tasks, c \in Config, g \in Generations \union {None} :
          effect = Intent(t, c, g)
  BY DEF Intents
<1>2. WellFormed(t)
  BY TaskAssumption
<1>3. CASE t.command = "PatchConfig"
  <2>1. effect = Effect("Save", [t.expected EXCEPT !.managed = t.value], None)
    BY <1>1, <1>3 DEF Intent
  <2>2. t.expected \in Config /\ t.value \in Values
    BY <1>2, <1>3 DEF WellFormed
  <2> QED BY <2>1, <2>2 DEF Effect, Config
<1>4. CASE t.command = "SaveConfig"
  <2>1. effect = Effect("Save", [c EXCEPT !.managed = t.value], None)
    BY <1>1, <1>4 DEF Intent
  <2>2. t.value \in Values
    BY <1>2, <1>4 DEF WellFormed
  <2> QED BY <1>1, <2>1, <2>2 DEF Effect, Config
<1>5. CASE t.command = "SaveApplication"
  BY <1>1, <1>2, <1>5 DEF Intent, Effect, WellFormed
<1>6. CASE t.command = "SetClientEnabled"
  BY <1>1, <1>2, <1>6 DEF Intent, Effect, WellFormed, ClientStates
<1>7. CASE t.command \notin {"PatchConfig", "SaveConfig", "SaveApplication", "SetClientEnabled"}
  BY <1>1, <1>7 DEF Intent, Effect
<1> QED BY <1>3, <1>4, <1>5, <1>6, <1>7

LEMMA AppsChange ==
    ASSUME NEW apps \in Seq(AppRefs), NEW position \in Nat
    PROVE  /\ \A ref \in AppRefs : Append(apps, ref) \in Seq(AppRefs)
           /\ position \in DOMAIN apps =>
                /\ \A ref \in AppRefs : [apps EXCEPT ![position] = ref] \in Seq(AppRefs)
                /\ SubSeq(apps, 1, position - 1) \o SubSeq(apps, position + 1, Len(apps))
                      \in Seq(AppRefs)
<1>1. \A ref \in AppRefs : Append(apps, ref) \in Seq(AppRefs)
  OBVIOUS
<1>2. ASSUME position \in DOMAIN apps, NEW ref \in AppRefs
      PROVE  [apps EXCEPT ![position] = ref] \in Seq(AppRefs)
  BY <1>2, ExceptSeq
<1>3. ASSUME position \in DOMAIN apps
      PROVE  SubSeq(apps, 1, position - 1) \o SubSeq(apps, position + 1, Len(apps))
               \in Seq(AppRefs)
  <2>1. position \in 1 .. Len(apps)
    BY <1>3
  <2>2. SubSeq(apps, 1, position - 1) \in Seq(AppRefs)
    BY <2>1, SubSeqProperties
  <2>3. SubSeq(apps, position + 1, Len(apps)) \in Seq(AppRefs)
    BY <2>1, SubSeqProperties
  <2> QED BY <2>2, <2>3
<1> QED BY <1>1, <1>2, <1>3

LEMMA RestartType ==
    ASSUME NEW world \in WorldStates,
           \/ world.generation < MaxGeneration
           \/ Restarted(world).generation <= MaxGeneration
    PROVE  Restarted(world) \in WorldStates
<1>1. world.generation \in 0 .. MaxGeneration /\ MaxGeneration \in Nat
  BY TaskAssumption DEF WorldStates, Generations
<1>2. Restarted(world).generation = world.generation + 1
  BY DEF Restarted, WorldStates
<1>3. world.generation + 1 \in Generations
  BY <1>1, <1>2 DEF Generations
<1>4. ASSUME NEW n \in Generations
      PROVE  [world EXCEPT !.service = "Running", !.generation = n] \in WorldStates
  BY DEF WorldStates
<1>5. Restarted(world) =
        [world EXCEPT !.service = "Running", !.generation = world.generation + 1]
  BY DEF Restarted
<1> QED BY <1>3, <1>4, <1>5

LEMMA AppsType ==
    ASSUME NEW world \in WorldStates, NEW apps \in Seq(AppRefs)
    PROVE  [world EXCEPT !.apps = apps] \in WorldStates
BY DEF WorldStates

(* A request of a task turns a state of Sunshine into one. *)
LEMMA ApplyType ==
    ASSUME NEW effect \in Intents, NEW position \in Nat, NEW world \in WorldStates,
           Apply(effect, position, world).generation <= MaxGeneration
    PROVE  Apply(effect, position, world) \in WorldStates
<1> DEFINE new == Apply(effect, position, world)
<1>1. world.apps \in Seq(AppRefs)
  BY DEF WorldStates
<1>2. CASE effect.kind = "Save"
  BY <1>2, IntentTargets DEF Apply, WorldStates
<1>3. CASE effect.kind \in {"Restart", "RestartObserved"}
  BY <1>3, RestartType DEF Apply
<1>4. CASE effect.kind = "SaveApplication"
  <2>1. \/ new = world
        \/ new = [world EXCEPT !.apps = Append(@, effect.target)]
        \/ /\ position \in DOMAIN world.apps
           /\ new = [world EXCEPT !.apps[position] = effect.target]
    BY <1>4 DEF Apply
  <2>2. effect.target \in AppRefs
    BY <1>4, IntentTargets
  <2>3. CASE new = world
    BY <2>3
  <2>4. CASE new = [world EXCEPT !.apps = Append(@, effect.target)]
    <3>1. Append(world.apps, effect.target) \in Seq(AppRefs)
      BY <1>1, <2>2, AppsChange
    <3> QED BY <2>4, <3>1, AppsType
  <2>5. CASE /\ position \in DOMAIN world.apps
             /\ new = [world EXCEPT !.apps[position] = effect.target]
    <3>1. [world.apps EXCEPT ![position] = effect.target] \in Seq(AppRefs)
      BY <1>1, <2>2, <2>5, AppsChange
    <3>2. new = [world EXCEPT !.apps = [world.apps EXCEPT ![position] = effect.target]]
      BY <2>5
    <3> QED BY <3>1, <3>2, AppsType
  <2> QED BY <2>1, <2>3, <2>4, <2>5
<1>5. CASE effect.kind = "DeleteApplication"
  <2>1. \/ new = world
        \/ /\ position \in DOMAIN world.apps
           /\ new = [world EXCEPT !.apps =
                 SubSeq(@, 1, position - 1) \o SubSeq(@, position + 1, Len(@))]
    BY <1>5 DEF Apply
  <2>2. CASE /\ position \in DOMAIN world.apps
             /\ new = [world EXCEPT !.apps =
                   SubSeq(@, 1, position - 1) \o SubSeq(@, position + 1, Len(@))]
    <3> DEFINE rest == SubSeq(world.apps, 1, position - 1)
                         \o SubSeq(world.apps, position + 1, Len(world.apps))
    <3>1. rest \in Seq(AppRefs)
      BY <1>1, <2>2, AppsChange
    <3>2. new = [world EXCEPT !.apps = rest]
      BY <2>2
    <3> QED BY <3>1, <3>2, AppsType
  <2> QED BY <2>1, <2>2
<1>6. CASE effect.kind = "SetPairedClientEnabled"
  <2>1. effect.target.client \in Clients /\ effect.target.state \in ClientStates
    BY <1>6, IntentTargets
  <2> QED BY <1>6, <2>1 DEF Apply, WorldStates
<1>7. CASE effect.kind = "UnpairClient"
  BY <1>7 DEF Apply, WorldStates, ClientStates
<1>8. CASE effect.kind = "UnpairAllClients"
  BY <1>8 DEF Apply, WorldStates, ClientStates
<1>9. CASE effect.kind = "ControlService"
  <2>1. \/ new = world
        \/ new = [world EXCEPT !.service = "Stopped"]
        \/ new = Restarted(world)
    BY <1>9 DEF Apply
  <2>2. [world EXCEPT !.service = "Stopped"] \in WorldStates
    BY DEF WorldStates
  <2> QED BY <2>1, <2>2, RestartType
<1>10. CASE effect.kind \notin {"Save", "Restart", "RestartObserved", "SaveApplication",
                                "DeleteApplication", "SetPairedClientEnabled",
                                "UnpairClient", "UnpairAllClients", "ControlService"}
  BY <1>10 DEF Apply
<1> QED BY <1>2, <1>3, <1>4, <1>5, <1>6, <1>7, <1>8, <1>9, <1>10

LEMMA AchievedAreTasks == \A journal, world : Achieved(journal, world) \subseteq Tasks
BY DEF Achieved

(* Sunshine moves: nothing of the engine does. *)
LEMMA WorldMoves ==
    ASSUME Inv, NEW world \in WorldStates, World(world)
    PROVE  Safe' /\ sunshine' \in WorldStates /\ goal' \in SUBSET Tasks
<1>1. /\ UNCHANGED <<journalVars, lane, posts, told, closed>>
      /\ sunshine' = world
      /\ goal' = goal \union Achieved(disk, world)
  BY DEF World
<1>2. goal' \in SUBSET Tasks
  BY <1>1, AchievedAreTasks DEF Inv, Worldly
<1>3. Safe'
  <2>1. Told'
    BY <1>1, ToldUnchanged DEF journalVars, Inv, Safe, Told
  <2>2. Journalled' /\ lane' \in Lanes
    BY <1>1 DEF journalVars, Inv, Safe, Journalled
  <2>3. Busy' => LaneSafe'
    BY <1>1 DEF journalVars, Inv, Safe, Busy, LaneSafe, OnDisk
  <2> QED BY <2>1, <2>2, <2>3 DEF Safe
<1> QED BY <1>1, <1>2, <1>3

LEMMA LandStep ==
    ASSUME Inv, NEW request \in flight, Land(request)
    PROVE  Inv'
<1> DEFINE world == Apply(request.effect, request.position, sunshine)
<1>1. /\ request.task \in Tasks /\ request.effect \in Intents /\ request.position \in Nat
      /\ sunshine \in WorldStates
  BY DEF Inv, Worldly, Requests
<1>2. world \in WorldStates
  BY <1>1, ApplyType DEF Land
<1>3. flight' \in SUBSET Requests
  BY DEF Land, Inv, Worldly
<1>4. answer' \in [Tasks -> {"none", "ok", "refused"}]
  BY DEF Land, Inv, Worldly
<1>5. World(world) \/ World(sunshine)
  BY DEF Land
<1>6. Safe' /\ sunshine' \in WorldStates /\ goal' \in SUBSET Tasks
  BY <1>1, <1>2, <1>5, WorldMoves
<1> QED BY <1>3, <1>4, <1>6 DEF Inv, Worldly

LEMMA LoseStep ==
    ASSUME Inv, NEW request \in flight, Lose(request)
    PROVE  Inv'
<1>1. /\ UNCHANGED <<journalVars, lane, sunshine, answer, historyVars>>
      /\ flight' = flight \ {request}
  BY DEF Lose
<1>2. Worldly'
  BY <1>1 DEF Inv, Worldly, historyVars
<1>3. Told'
  BY <1>1, ToldUnchanged DEF journalVars, historyVars, Inv, Safe, Told
<1>4. Journalled' /\ lane' \in Lanes
  BY <1>1 DEF journalVars, Inv, Safe, Journalled
<1>5. Busy' => LaneSafe'
  BY <1>1 DEF journalVars, historyVars, Inv, Safe, Busy, LaneSafe, OnDisk
<1> QED BY <1>2, <1>3, <1>4, <1>5 DEF Inv, Safe

LEMMA EditStep == Inv /\ Edit => Inv'
<1> SUFFICES ASSUME Inv, Edit PROVE Inv'
  OBVIOUS
<1>1. UNCHANGED <<flight, answer>>
  BY DEF Edit
<1>2. PICK world \in WorldStates : World(world)
  <2>1. ASSUME NEW config \in Config, World([sunshine EXCEPT !.config = config])
        PROVE  \E world \in WorldStates : World(world)
    BY <2>1 DEF Inv, Worldly, WorldStates
  <2>2. ASSUME NEW apps \in EditedApps, World([sunshine EXCEPT !.apps = apps])
        PROVE  \E world \in WorldStates : World(world)
    BY <2>2, ExecutorAssumption DEF Inv, Worldly, WorldStates
  <2>3. ASSUME NEW c \in Clients, NEW state \in ClientStates,
               World([sunshine EXCEPT !.clients[c] = state])
        PROVE  \E world \in WorldStates : World(world)
    BY <2>3 DEF Inv, Worldly, WorldStates
  <2>4. ASSUME World([sunshine EXCEPT !.service = "Stopped"])
        PROVE  \E world \in WorldStates : World(world)
    BY <2>4 DEF Inv, Worldly, WorldStates
  <2>5. ASSUME sunshine.generation < MaxGeneration, World(Restarted(sunshine))
        PROVE  \E world \in WorldStates : World(world)
    <3>1. Restarted(sunshine) \in WorldStates
      BY <2>5, RestartType DEF Inv, Worldly
    <3> QED BY <2>5, <3>1
  <2> QED BY <2>1, <2>2, <2>3, <2>4, <2>5 DEF Edit
<1> QED BY <1>1, <1>2, WorldMoves DEF Inv, Worldly

LEMMA WorldUnchanged ==
    ASSUME Inv, UNCHANGED <<worldVars, goal>>
    PROVE  Worldly'
BY DEF Inv, Worldly, worldVars

LEMMA IntendWorld == Inv /\ Intend => Worldly'
<1> SUFFICES ASSUME Inv, Intend PROVE Worldly'
  OBVIOUS
<1>1. goal' \in SUBSET Tasks
  BY AchievedAreTasks DEF Intend, Inv, Worldly
<1> QED BY <1>1 DEF Intend, Inv, Worldly, worldVars

LEMMA PostWorld == Inv /\ Post => Worldly'
<1> SUFFICES ASSUME Inv, Post PROVE Worldly'
  OBVIOUS
<1> DEFINE request == [task |-> lane.task, effect |-> lane.rec.effect,
                       position |-> lane.position]
<1>1. lane.task \in Tasks /\ lane.rec \in TaskRecord /\ lane.rec.effect # None
      /\ lane.position \in Nat
  BY DEF Post, At, Inv, Safe, LaneSafe, BeforeIntent, Lanes
<1>2. lane.rec.effect \in Intents
  BY <1>1 DEF TaskRecord, Record
<1>3. request \in Requests
  BY <1>1, <1>2 DEF Requests
<1>4. flight' = flight \union {request}
  BY DEF Post
<1>5. flight' \in SUBSET Requests
  BY <1>3, <1>4 DEF Inv, Worldly
<1> QED BY <1>5 DEF Post, Inv, Worldly

-----------------------------------------------------------------------------
(* The induction *)

LEMMA InitiallyInv == Init => Inv
<1> SUFFICES ASSUME Init PROVE Inv
  OBVIOUS
<1>1. /\ disk = [id \in OpIds |-> None] /\ ids = {} /\ active = {}
      /\ ~poisoned /\ ~opened /\ poisoned \in BOOLEAN /\ opened \in BOOLEAN
  BY DEF Init, J!JournalInit
<1>2. Journalled
  BY <1>1 DEF Journalled
<1>3. lane = Idle /\ lane \in Lanes /\ ~Busy
  BY IdleLane DEF Init, Busy
<1>4. Told
  BY <1>1
  DEF Init, Told, AtMostOneRequest, RequestImpliesIntent, UncertaintyHasIntent,
      ClosedByTheManager, OneVerdict, VerdictsKept, RefusalsKept, ReadsHaveNoIntent,
      RefusedMeansUntouched
<1>5. sunshine \in WorldStates
  <2>1. PICK config \in Config :
          sunshine = [config |-> config, apps |-> InitialApps,
                      clients |-> [c \in Clients |-> "enabled"],
                      service |-> "Running", generation |-> 0]
    BY DEF Init
  <2>2. 0 \in Generations
    BY TaskAssumption DEF Generations
  <2>3. [c \in Clients |-> "enabled"] \in [Clients -> ClientStates]
    BY DEF ClientStates
  <2> QED BY <2>1, <2>2, <2>3, ExecutorAssumption DEF WorldStates
<1>6. Worldly
  BY <1>5 DEF Init, Worldly
<1> QED BY <1>2, <1>3, <1>4, <1>6 DEF Inv, Safe

LEMMA LaneStep == Inv /\ Step => Inv'
<1> SUFFICES ASSUME Inv, Step PROVE Inv'
  OBVIOUS
<1>1. CASE Begin
  BY <1>1, BeginStep, WorldUnchanged DEF Begin, Inv
<1>2. CASE Check
  BY <1>2, CheckStep, WorldUnchanged DEF Check, Inv
<1>3. CASE Recheck
  BY <1>3, RecheckStep, WorldUnchanged DEF Recheck, Inv
<1>4. CASE Intend
  BY <1>4, IntendStep, IntendWorld DEF Inv
<1>5. ASSUME NEW step \in {"guard", "guardAgain"}, Guard(step) PROVE Inv'
  BY <1>5, GuardStep, WorldUnchanged DEF Guard, Inv
<1>6. CASE Post
  BY <1>6, PostStep, PostWorld DEF Inv
<1>7. CASE PostSkipped
  BY <1>7, PostSkippedStep, WorldUnchanged DEF PostSkipped, Inv
<1>8. CASE Await
  BY <1>8, AwaitStep, WorldUnchanged DEF Await, Inv
<1>9. CASE Reconcile
  BY <1>9, ReconcileStep, WorldUnchanged DEF Reconcile, Inv
<1>10. CASE Conclude
  BY <1>10, ConcludeStep, WorldUnchanged DEF Conclude, Inv
<1> QED BY <1>1, <1>2, <1>3, <1>4, <1>5, <1>6, <1>7, <1>8, <1>9, <1>10 DEF Step

LEMMA StutterStep == Inv /\ UNCHANGED vars => Inv'
<1> SUFFICES ASSUME Inv, UNCHANGED vars PROVE Inv'
  OBVIOUS
<1>1. Told'
  BY ToldUnchanged DEF vars, journalVars, historyVars, Inv, Safe, Told
<1>2. Journalled' /\ lane' \in Lanes
  BY DEF vars, journalVars, Inv, Safe, Journalled
<1>3. Busy' => LaneSafe'
  BY DEF vars, journalVars, historyVars, Inv, Safe, Busy, LaneSafe, OnDisk
<1>4. Worldly'
  BY WorldUnchanged DEF vars, historyVars
<1> QED BY <1>1, <1>2, <1>3, <1>4 DEF Inv, Safe

LEMMA Inductive == Inv /\ [Next]_vars => Inv'
<1> SUFFICES ASSUME Inv, [Next]_vars PROVE Inv'
  OBVIOUS
<1>1. CASE Step
  BY <1>1, LaneStep
<1>2. ASSUME NEW task \in Tasks, NEW mode \in {"Execute", "InspectOnly"},
             Deliver(task, mode)
      PROVE  Inv'
  BY <1>2, DeliverStep, WorldUnchanged DEF Deliver, Inv
<1>3. ASSUME NEW task \in Tasks, NEW report \in Reports, NEW finalized \in BOOLEAN,
             Acknowledge(task, report, finalized)
      PROVE  Inv'
  BY <1>3, AcknowledgeStep, WorldUnchanged DEF Acknowledge, Inv
<1>4. CASE Timeout
  BY <1>4, TimeoutStep, WorldUnchanged DEF Timeout, Inv
<1>5. CASE Expire
  BY <1>5, ExpireStep, WorldUnchanged DEF Expire, Inv, historyVars
<1>6. CASE Open
  BY <1>6, OpenStep, WorldUnchanged DEF Open, Inv, historyVars
<1>7. CASE Crash
  BY <1>7, CrashStep, WorldUnchanged DEF Crash, Inv, historyVars
<1>8. ASSUME NEW request \in flight, Land(request) \/ Lose(request) PROVE Inv'
  BY <1>8, LandStep, LoseStep
<1>9. CASE Edit
  BY <1>9, EditStep
<1>10. CASE UNCHANGED vars
  BY <1>10, StutterStep
<1> QED BY <1>1, <1>2, <1>3, <1>4, <1>5, <1>6, <1>7, <1>8, <1>9, <1>10 DEF Next

LEMMA Invariance == Spec => []Inv
<1>1. Init => Inv
  BY InitiallyInv
<1>2. Inv /\ [Next]_vars => Inv'
  BY Inductive
<1> QED BY <1>1, <1>2, PTL DEF Spec

-----------------------------------------------------------------------------
(* The promises of the engine *)

(* Every variable keeps its type: no record on disk is malformed, whatever *)
(* was crashed, lost, edited or redelivered.                               *)
THEOREM TypeCorrect == Spec => []TypeOK
<1>1. Inv => TypeOK
  BY DEF Inv, Safe, Journalled, Told, Worldly, TypeOK
<1> QED BY <1>1, Invariance, PTL

(* For any number of operations, redeliveries and crashes, one operation   *)
(* ID causes at most one request to Sunshine.                              *)
THEOREM NeverRequestedTwice == Spec => []AtMostOneRequest
<1>1. Inv => AtMostOneRequest
  BY DEF Inv, Safe, Told
<1> QED BY <1>1, Invariance, PTL

(* A request is never sent without its intent on disk, and the intent      *)
(* stays there until the Manager closes the operation.                     *)
THEOREM IntentComesFirst == Spec => []RequestImpliesIntent
<1>1. Inv => RequestImpliesIntent
  BY DEF Inv, Safe, Told
<1> QED BY <1>1, Invariance, PTL

(* A refusal returned for a mutation is a promise that nothing was or will *)
(* be requested for it.                                                    *)
THEOREM RefusalsAreTrue == Spec => []RefusedMeansUntouched
<1>1. Inv => RefusedMeansUntouched
  BY DEF Inv, Safe, Told
<1> QED BY <1>1, Invariance, PTL

(* The Manager never hears two different verdicts about one mutation.      *)
THEOREM VerdictsAgree == Spec => []OneVerdict
<1>1. Inv => OneVerdict
  BY DEF Inv, Safe, Told
<1> QED BY <1>1, Invariance, PTL

(* A verdict that was returned survives every crash until a receipt.       *)
THEOREM VerdictsSurvive == Spec => []VerdictIsDurable
<1>1. Inv => VerdictIsDurable
  BY DEF Inv, Safe, Told, VerdictsKept, VerdictIsDurable
<1> QED BY <1>1, Invariance, PTL

(* An Unknown on disk always has an intent that can be reconciled.         *)
THEOREM UncertaintyIsResolvable == Spec => []UncertaintyHasIntent
<1>1. Inv => UncertaintyHasIntent
  BY DEF Inv, Safe, Told
<1> QED BY <1>1, Invariance, PTL

(* The engine never offers the journal a write that its rules refuse.      *)
THEOREM EngineWritesLegally == Spec => []WritesAreLegal
<1>1. Inv => WritesAreLegal
  <2> SUFFICES ASSUME Inv, Busy, ~poisoned, ~lane.volatile
               PROVE  /\ lane.task.id \in ids /\ OnDisk
    BY DEF WritesAreLegal, OnDisk
  <2>1. LaneSafe /\ OnDisk
    BY DEF Inv, Safe, LaneSafe
  <2>2. lane.task.id \in OpIds
    BY <2>1, TasksHaveIds DEF LaneSafe
  <2> QED BY <2>1, <2>2 DEF Inv, Safe, Journalled, LaneSafe, OnDisk
<1> QED BY <1>1, Invariance, PTL

(* Only a receipt for a final report, or the Manager's decision to         *)
(* finalize, ever compacts a record to its tombstone.                      *)
THEOREM OnlyTheManagerCloses == Spec => []ClosedByTheManager
<1>1. Inv => ClosedByTheManager
  BY DEF Inv, Safe, Told
<1> QED BY <1>1, Invariance, PTL

-----------------------------------------------------------------------------
(* Closed operations *)

(* Only the record of the operation in execution may change. *)
Sealed ==
    \A id \in OpIds :
        disk[id] # None =>
            (disk[id].acknowledged => disk'[id] = disk[id] /\ posts'[id] = posts[id])

LEMMA ReplaceTouchesOne ==
    \A id, rec, outcome :
        J!Replace(id, rec, outcome) =>
            disk' = disk \/ disk' = [disk EXCEPT ![id] = rec]
BY DEF J!Replace, J!Installed, J!FailedWrite, J!journalVars

LEMMA CreateTouchesOne ==
    \A id, rec, outcome :
        J!Create(id, rec, outcome) =>
            disk' = disk \/ disk' = [disk EXCEPT ![id] = rec]
BY DEF J!Create, J!Installed, J!FailedWrite, J!journalVars

LEMMA FinishSeals ==
    ASSUME Inv, Busy, NEW report, Finish(report), UNCHANGED posts
    PROVE  Sealed
<1>1. CASE lane.volatile
  BY <1>1 DEF Finish, journalVars, Sealed
<1>2. CASE ~lane.volatile
  <2>1. PICK out, outcome :
            J!Replace(lane.task.id, [lane.rec EXCEPT !.report = out], outcome)
    BY <1>2 DEF Finish
  <2>2. \/ disk' = disk
        \/ disk' = [disk EXCEPT ![lane.task.id] = [lane.rec EXCEPT !.report = out]]
    BY <2>1, ReplaceTouchesOne
  <2>3. ~disk[lane.task.id].acknowledged
    BY <1>2 DEF Inv, Safe, LaneSafe, OnDisk
  <2> QED BY <2>2, <2>3 DEF Sealed, Inv, Safe, Journalled
<1> QED BY <1>1, <1>2

LEMMA AbandonSeals ==
    ASSUME Inv, Busy, Abandon, UNCHANGED posts
    PROVE  Sealed
<1>1. CASE Finish("Unknown.SideEffectNotConfirmed")
  BY <1>1, FinishSeals
<1>2. CASE GoTo(FirstReading(lane.rec.effect))
  BY <1>2 DEF GoTo, journalVars, Sealed
<1> QED BY <1>1, <1>2 DEF Abandon

LEMMA RefuseSeals ==
    ASSUME Inv, Busy, NEW world, Refuse(world), UNCHANGED posts
    PROVE  Sealed
BY FinishSeals DEF Refuse

LEMMA NotConfirmedSeals ==
    ASSUME Inv, Busy, NotConfirmed, UNCHANGED posts
    PROVE  Sealed
BY FinishSeals DEF NotConfirmed, journalVars, Sealed

LEMMA IntendSeals == Inv /\ Intend => Sealed
<1> SUFFICES ASSUME Inv, Intend PROVE Sealed
  OBVIOUS
<1>1. Busy /\ UNCHANGED posts /\ lane.step \in BeforeIntent /\ lane.step = "intend"
  BY DEF Intend, At, BeforeIntent
<1>2. CASE Finish("Rejected.ExecutionExpired")
  BY <1>1, <1>2, FinishSeals
<1>3. ASSUME NEW effect, Remember(effect) PROVE Sealed
  <2>1. PICK outcome :
            J!Replace(lane.task.id, [lane.rec EXCEPT !.effect = effect], outcome)
    BY <1>3 DEF Remember
  <2>2. \/ disk' = disk
        \/ disk' = [disk EXCEPT ![lane.task.id] = [lane.rec EXCEPT !.effect = effect]]
    BY <2>1, ReplaceTouchesOne
  <2>3. ~disk[lane.task.id].acknowledged
    BY <1>1 DEF Inv, Safe, LaneSafe, OnDisk
  <2> QED BY <1>1, <2>2, <2>3 DEF Sealed, Inv, Safe, Journalled
<1> QED BY <1>2, <1>3 DEF Intend

LEMMA PostSeals == Inv /\ Post => Sealed
<1> SUFFICES ASSUME Inv, Post PROVE Sealed
  OBVIOUS
<1>1. ~disk[lane.task.id].acknowledged
  BY DEF Post, At, Inv, Safe, LaneSafe, OnDisk, BeforeIntent
<1> QED BY <1>1 DEF Post, GoTo, journalVars, Sealed, Inv, Safe, Told

LEMMA StepSeals == Inv /\ Step => Sealed
<1> SUFFICES ASSUME Inv, Step PROVE Sealed
  OBVIOUS
<1>1. CASE Begin
  BY <1>1, FinishSeals DEF Begin, At, GoTo, journalVars, Sealed
<1>2. CASE Check
  BY <1>2, RefuseSeals DEF Check, At, journalVars, Sealed
<1>3. CASE Recheck
  BY <1>3, RefuseSeals DEF Recheck, At, GoTo, journalVars, Sealed
<1>4. ASSUME NEW step \in {"guard", "guardAgain"}, Guard(step) PROVE Sealed
  BY <1>4, FinishSeals, AbandonSeals DEF Guard, At, journalVars, Sealed
<1>5. CASE PostSkipped
  BY <1>5, AbandonSeals DEF PostSkipped, At
<1>6. CASE Await
  BY <1>6, FinishSeals DEF Await, At, GoTo, journalVars, Sealed
<1>7. CASE Reconcile
  BY <1>7, NotConfirmedSeals DEF Reconcile, At, journalVars, Sealed
<1>8. CASE Conclude
  BY <1>8, FinishSeals, NotConfirmedSeals DEF Conclude, At
<1> QED BY <1>1, <1>2, <1>3, <1>4, <1>5, <1>6, <1>7, <1>8, IntendSeals, PostSeals DEF Step

LEMMA DeliverSeals ==
    ASSUME Inv, NEW task \in Tasks, NEW mode, Deliver(task, mode)
    PROVE  Sealed
<1>1. opened /\ UNCHANGED posts
  BY DEF Deliver
<1>2. CASE UNCHANGED journalVars
  BY <1>1, <1>2 DEF journalVars, Sealed
<1>3. ASSUME NEW outcome, ~poisoned, J!Loaded(task.id) = None,
             J!Create(task.id, FreshRecord(task), outcome)
      PROVE  Sealed
  <2>1. disk[task.id] = None
    BY <1>1, <1>3, TasksHaveIds DEF J!Loaded, Inv, Safe, Journalled
  <2>2. disk' = disk \/ disk' = [disk EXCEPT ![task.id] = FreshRecord(task)]
    BY <1>3, CreateTouchesOne
  <2> QED BY <1>1, <2>1, <2>2 DEF Sealed, Inv, Safe, Journalled
<1> QED BY <1>2, <1>3 DEF Deliver, DeliverKnown, DeliverNew

LEMMA AcknowledgeSeals ==
    ASSUME Inv, NEW task \in Tasks, NEW report, NEW finalized,
           Acknowledge(task, report, finalized)
    PROVE  Sealed
<1>1. PICK rec, outcome : J!Replace(task.id, rec, outcome)
  BY DEF Acknowledge
<1>2. disk' = disk \/ disk' = [disk EXCEPT ![task.id] = rec]
  BY <1>1, ReplaceTouchesOne
<1>3. ~disk[task.id].acknowledged /\ UNCHANGED posts
  BY DEF Acknowledge, J!Loaded
<1> QED BY <1>2, <1>3 DEF Sealed, Inv, Safe, Journalled

LEMMA NextSeals == Inv /\ [Next]_vars => Sealed
<1> SUFFICES ASSUME Inv, [Next]_vars PROVE Sealed
  OBVIOUS
<1>1. CASE Step
  BY <1>1, StepSeals
<1>2. ASSUME NEW task \in Tasks, NEW mode \in {"Execute", "InspectOnly"},
             Deliver(task, mode)
      PROVE  Sealed
  BY <1>2, DeliverSeals
<1>3. ASSUME NEW task \in Tasks, NEW report \in Reports, NEW finalized \in BOOLEAN,
             Acknowledge(task, report, finalized)
      PROVE  Sealed
  BY <1>3, AcknowledgeSeals
<1>4. CASE Timeout
  BY <1>4, FinishSeals DEF Timeout
<1>5. CASE Expire \/ Open \/ Crash \/ Edit
  BY <1>5 DEF Expire, Open, Crash, Edit, World, J!Open, J!Close,
              journalVars, historyVars, Sealed
<1>6. ASSUME NEW request \in flight, Land(request) \/ Lose(request) PROVE Sealed
  BY <1>6 DEF Land, Lose, World, journalVars, historyVars, Sealed
<1>7. CASE UNCHANGED vars
  BY <1>7 DEF vars, journalVars, historyVars, Sealed
<1> QED BY <1>1, <1>2, <1>3, <1>4, <1>5, <1>6, <1>7 DEF Next

(* A closed operation is over for ever: its tombstone never changes and    *)
(* nothing more is requested for it.                                       *)
THEOREM ClosedForEver == Spec => ClosedIsOver
<1>1. Inv /\ [Next]_vars =>
        [\A id \in OpIds :
            disk[id] # None =>
              (disk[id].acknowledged => disk'[id] = disk[id] /\ posts'[id] = posts[id])]_vars
  BY NextSeals DEF Sealed
<1> QED BY <1>1, Invariance, PTL DEF Spec, ClosedIsOver

-----------------------------------------------------------------------------
(* Evidence for successes                                                  *)
(*                                                                         *)
(* A success is told when a reading confirms it, or later from the disk.   *)
(* What makes the readings conclusive: the goals that Sunshine fulfilled   *)
(* are remembered from the moment the intent is durable, a process sampled *)
(* before the intent is no younger than any seen after it, and a task has  *)
(* one request, hence one answer.                                          *)

(* Successes that say Sunshine reached the state of the intent. *)
GoalSuccesses ==
    {"ConfigSaved", "RestartAcknowledged", "ApplicationSaved",
     "ApplicationDeleted", "PairedClientUpdated", "ServiceControlled"}

(* Successes that say Sunshine answered the request. *)
ReplySuccesses == {"SideEffectCompleted", "PairingPinSubmitted"}

(* There is evidence for report as a verdict on task t. *)
Evidence(report, t) ==
    /\ report \in GoalSuccesses => t \in goal
    /\ report \in ReplySuccesses => answer[t] = "ok"

HeardIsWitnessed == \A t \in Tasks : \A v \in told[t] : Evidence(v, t)

RecordsAreWitnessed ==
    \A id \in OpIds :
        disk[id] # None =>
            /\ disk[id].fingerprint.id = id
            /\ Evidence(disk[id].report, disk[id].fingerprint)

RequestsAreSingle ==
    /\ \A r \in flight : posts[r.task.id] > 0 /\ answer[r.task] = "none"
    /\ \A r, s \in flight : r.task.id = s.task.id => r = s
    /\ \A t \in Tasks : posts[t.id] = 0 => answer[t] = "none"

AchievedIsRemembered ==
    \A id \in OpIds :
        disk[id] # None =>
            (disk[id].effect # None =>
                (Fulfilled(disk[id].effect, sunshine) => disk[id].fingerprint \in goal))

(* The process sampled for effect is the one in world, or an older one. *)
SampledBefore(effect, world) ==
    ReadTwice(effect) /\ effect.before # None =>
        effect.before \in Nat /\ effect.before <= world.generation

SamplesArePast ==
    \A id \in OpIds :
        disk[id] # None =>
            (disk[id].effect # None => SampledBefore(disk[id].effect, sunshine))

ReadingIsPast ==
    lane.step = "conclude" =>
        (ReadTwice(lane.rec.effect) =>
            /\ lane.seen \in WorldStates
            /\ SampledBefore(lane.rec.effect, lane.seen)
            /\ lane.seen.generation <= sunshine.generation
            /\ Fulfilled(lane.rec.effect, lane.seen) => lane.task \in goal)

Witnessed ==
    /\ HeardIsWitnessed
    /\ RecordsAreWitnessed
    /\ RequestsAreSingle
    /\ AchievedIsRemembered
    /\ SamplesArePast
    /\ ReadingIsPast

LEMMA GenerationType ==
    \A world \in WorldStates : world.generation \in Nat
BY TaskAssumption DEF WorldStates, Generations

(* Evidence is never lost. *)
LEMMA EvidenceStays ==
    ASSUME goal \subseteq goal', NEW t, answer[t] = "ok" => answer'[t] = "ok",
           NEW report, Evidence(report, t)
    PROVE  Evidence(report, t)'
BY DEF Evidence

(* Refusals and uncertain reports need none. *)
LEMMA NoEvidenceNeeded ==
    /\ \A report \in Refusals \union Uncertainties \union GateRefusals \union {"Read", None} :
          report \notin GoalSuccesses \union ReplySuccesses
    /\ GoalSuccesses \intersect ReplySuccesses = {}
<1>1. None \notin GoalSuccesses \union ReplySuccesses
  BY TaskAssumption DEF Reports, Successes, GoalSuccesses, ReplySuccesses
<1> QED BY <1>1
        DEF Refusals, Uncertainties, GateRefusals, GoalSuccesses, ReplySuccesses

(* What a step may do to the records without touching their effects. *)
EffectsKept ==
    \A id \in OpIds :
        disk'[id] # None =>
            (disk'[id].effect # None =>
                /\ disk[id] # None
                /\ disk[id].effect = disk'[id].effect
                /\ disk[id].fingerprint = disk'[id].fingerprint)

LEMMA KeptEffects ==
    ASSUME Witnessed, EffectsKept, UNCHANGED sunshine, goal \subseteq goal'
    PROVE  AchievedIsRemembered' /\ SamplesArePast'
<1>1. AchievedIsRemembered'
  BY DEF Witnessed, EffectsKept, AchievedIsRemembered
<1>2. SamplesArePast'
  BY DEF Witnessed, EffectsKept, SamplesArePast, SampledBefore
<1> QED BY <1>1, <1>2

(* A lane that is not about to conclude promises nothing about a reading. *)
LEMMA NotConcluding == lane'.step # "conclude" => ReadingIsPast'
BY DEF ReadingIsPast

(* No record, no answer and no request changes: the lane only moves on. *)
LEMMA MoveWitness ==
    ASSUME Inv, Witnessed,
           UNCHANGED <<disk, told, sunshine, flight, answer, posts>>,
           goal \subseteq goal', ReadingIsPast'
    PROVE  Witnessed'
<1>1. HeardIsWitnessed' /\ RecordsAreWitnessed'
  BY DEF Witnessed, HeardIsWitnessed, RecordsAreWitnessed, Evidence
<1>2. RequestsAreSingle'
  BY DEF Witnessed, RequestsAreSingle
<1>3. AchievedIsRemembered' /\ SamplesArePast'
  BY KeptEffects DEF EffectsKept
<1> QED BY <1>1, <1>2, <1>3 DEF Witnessed

-----------------------------------------------------------------------------
(* The lane and its evidence *)

(* Saving and returning a report there is evidence for. *)
LEMMA FinishWitness ==
    ASSUME Inv, Witnessed, Busy, NEW report, report \in Verdicts \union Uncertainties,
           Evidence(report, lane.task), Finish(report),
           UNCHANGED <<worldVars, posts>>, goal \subseteq goal'
    PROVE  Witnessed'
<1>1. PICK out \in Sized(report, lane.rec.effect) :
          IF lane.volatile THEN Reply(lane.task, out) /\ UNCHANGED journalVars
          ELSE \E outcome \in {"Ok", "Storage"} :
                 /\ J!Replace(lane.task.id, [lane.rec EXCEPT !.report = out], outcome)
                 /\ Reply(lane.task, Returned(out, outcome))
  BY DEF Finish
<1>2. UNCHANGED <<sunshine, flight, answer>> /\ lane.task \in Tasks
      /\ lane.task.id \in OpIds /\ lane.rec \in TaskRecord
  BY TasksHaveIds DEF worldVars, Inv, Safe, LaneSafe
<1>2a. PICK t0 \in Tasks : t0 = lane.task
  BY <1>2
<1>3. Evidence(out, t0)'
  <2>1. \/ out = report
        \/ out \in {"Unknown.ResultTooLarge", "Rejected.ResultTooLarge"}
    BY DEF Sized
  <2>2. "Unknown.ResultTooLarge" \in Uncertainties /\ "Rejected.ResultTooLarge" \in Refusals
    BY DEF Uncertainties, Refusals
  <2> QED BY <1>2, <1>2a, <2>1, <2>2, NoEvidenceNeeded DEF Evidence
<1>4. /\ told'[lane.task] \subseteq told[lane.task] \union {out}
      /\ \A t \in Tasks \ {lane.task} : told'[t] = told[t]
      /\ lane' = Idle
  <2>1. PICK answered \in {out, "Unknown.PersistenceFailure"} : Reply(lane.task, answered)
    BY <1>1 DEF Returned
  <2>2. "Unknown.PersistenceFailure" \notin Verdicts
    BY ReportKinds DEF Uncertainties
  <2> QED BY <1>2, <2>1, <2>2 DEF Reply, Inv, Safe, Told
<1>5. \/ disk' = disk
      \/ ~lane.volatile /\ disk' = [disk EXCEPT ![lane.task.id] = [lane.rec EXCEPT !.report = out]]
  BY <1>1, ReplaceTouchesOne DEF journalVars
<1>6. HeardIsWitnessed'
  <2> SUFFICES ASSUME NEW t \in Tasks, NEW v \in told'[t] PROVE Evidence(v, t)'
    BY DEF HeardIsWitnessed
  <2>1. CASE v \in told[t]
    BY <1>2, <2>1, EvidenceStays DEF Witnessed, HeardIsWitnessed
  <2>2. CASE v \notin told[t]
    BY <1>2a, <1>3, <1>4, <2>2
  <2> QED BY <2>1, <2>2
<1>7. CASE disk' = disk
  <2>1. RecordsAreWitnessed'
    BY <1>2, <1>7, EvidenceStays DEF Witnessed, RecordsAreWitnessed
  <2>2. AchievedIsRemembered' /\ SamplesArePast'
    BY <1>2, <1>7, KeptEffects DEF EffectsKept
  <2>3. RequestsAreSingle'
    BY <1>2 DEF Witnessed, RequestsAreSingle
  <2>4. ReadingIsPast'
    BY <1>4, NotConcluding DEF Idle
  <2> QED BY <1>6, <2>1, <2>2, <2>3, <2>4 DEF Witnessed
<1>8. CASE /\ ~lane.volatile
           /\ disk' = [disk EXCEPT ![lane.task.id] = [lane.rec EXCEPT !.report = out]]
  <2> DEFINE rec == [lane.rec EXCEPT !.report = out]
  <2>1. rec.report = out /\ rec.fingerprint = lane.task /\ rec.effect = lane.rec.effect
    BY <1>2 DEF TaskRecord, Record, Inv, Safe, LaneSafe
  <2>2. /\ disk[lane.task.id] # None /\ disk[lane.task.id].fingerprint = lane.task
        /\ disk[lane.task.id].effect = lane.rec.effect
    BY <1>8 DEF Inv, Safe, LaneSafe, OnDisk
  <2> HIDE DEF rec
  <2>3. /\ disk'[lane.task.id] = rec
        /\ \A id \in OpIds \ {lane.task.id} : disk'[id] = disk[id]
    BY <1>2, <1>8 DEF rec, Inv, Safe, Journalled
  <2>4. RecordsAreWitnessed'
    <3> SUFFICES ASSUME NEW id \in OpIds, disk'[id] # None
                 PROVE  /\ disk'[id].fingerprint.id = id
                        /\ Evidence(disk[id].report, disk[id].fingerprint)'
      BY DEF RecordsAreWitnessed
    <3>1. CASE id = lane.task.id
      BY <1>2a, <1>3, <2>1, <2>3, <3>1 DEF Evidence
    <3>2. CASE id # lane.task.id
      BY <1>2, <2>3, <3>2 DEF Witnessed, RecordsAreWitnessed, Evidence
    <3> QED BY <3>1, <3>2
  <2>5. EffectsKept
    BY <2>1, <2>2, <2>3 DEF EffectsKept
  <2>6. AchievedIsRemembered' /\ SamplesArePast'
    BY <1>2, <2>5, KeptEffects
  <2>7. RequestsAreSingle'
    BY <1>2 DEF Witnessed, RequestsAreSingle
  <2>8. ReadingIsPast'
    BY <1>4, NotConcluding DEF Idle
  <2> QED BY <1>6, <2>4, <2>6, <2>7, <2>8 DEF Witnessed
<1> QED BY <1>5, <1>7, <1>8

(* Refusals, readings and uncertain reports. *)
LEMMA PlainFinishWitness ==
    ASSUME Inv, Witnessed, Busy,
           NEW report \in Refusals \union Uncertainties \union {"Read"},
           Finish(report), UNCHANGED <<worldVars, posts>>, goal \subseteq goal'
    PROVE  Witnessed'
<1>1. Evidence(report, lane.task)
  BY NoEvidenceNeeded DEF Evidence
<1>2. report \in Verdicts \union Uncertainties
  BY DEF Verdicts, Successes
<1> QED BY <1>1, <1>2, FinishWitness

(* A step of the lane to an await point where nothing is about to be concluded. *)
LEMMA WalkWitness ==
    ASSUME Inv, Witnessed, UNCHANGED <<journalVars, told, worldVars, posts>>,
           goal \subseteq goal', lane'.step # "conclude"
    PROVE  Witnessed'
BY MoveWitness, NotConcluding DEF journalVars, worldVars

LEMMA GoToWitness ==
    ASSUME Inv, Witnessed, Busy, NEW step \in Steps, GoTo(step),
           UNCHANGED <<worldVars, posts, goal>>,
           step = "conclude" => ~ReadTwice(lane.rec.effect)
    PROVE  Witnessed'
<1>1. lane' = [lane EXCEPT !.step = step] /\ UNCHANGED <<journalVars, told>>
  BY DEF GoTo
<1>2. lane'.step = step /\ lane'.rec = lane.rec
  BY <1>1 DEF Inv, Safe, Lanes
<1>3. ReadingIsPast'
  BY <1>2 DEF ReadingIsPast
<1> QED BY <1>1, <1>3, MoveWitness DEF journalVars, worldVars

LEMMA FirstReadingWitness ==
    ASSUME Inv, Witnessed, Busy, GoTo(FirstReading(lane.rec.effect)),
           UNCHANGED <<worldVars, posts, goal>>
    PROVE  Witnessed'
<1>1. /\ FirstReading(lane.rec.effect) \in Steps
      /\ FirstReading(lane.rec.effect) = "conclude" => ~ReadTwice(lane.rec.effect)
  BY DEF FirstReading, Steps
<1> QED BY <1>1, GoToWitness

LEMMA RefuseWitness ==
    ASSUME Inv, Witnessed, Busy, NEW world, Refuse(world),
           UNCHANGED <<worldVars, posts, goal>>
    PROVE  Witnessed'
<1>1. PICK report \in {"Rejected.SunshineUnavailable", "Rejected.ExecutionExpired"} \union
                        (CheckOutcomes(lane.task, world) \ {"Proceed"}) :
          Finish(report)
  BY DEF Refuse
<1>2. lane.task \in Tasks
  BY DEF Inv, Safe, LaneSafe
<1>3. {"Rejected.SunshineUnavailable", "Rejected.ExecutionExpired"} \subseteq Refusals
  BY DEF Refusals
<1>4. report \in Refusals \union {"Read"}
  BY <1>1, <1>2, <1>3, CheckReports DEF HarmlessRefusals
<1> QED BY <1>1, <1>4, PlainFinishWitness

LEMMA ReadingsWitness == Inv /\ Witnessed /\ (Begin \/ Check \/ Recheck) => Witnessed'
<1> SUFFICES ASSUME Inv, Witnessed, Begin \/ Check \/ Recheck PROVE Witnessed'
  OBVIOUS
<1>1. Busy /\ UNCHANGED <<worldVars, posts, goal>>
  BY DEF Begin, Check, Recheck, At
<1>2. CASE Finish("Rejected.ExecutionExpired")
  BY <1>1, <1>2, PlainFinishWitness DEF Refusals
<1>3. CASE Refuse(sunshine)
  BY <1>1, <1>3, RefuseWitness
<1>4. CASE \E step \in {"check", "recheck", "intend"} :
              /\ lane'.step = step
              /\ UNCHANGED <<journalVars, told>>
  BY <1>1, <1>4, WalkWitness
<1>5. CASE GoTo("check") \/ GoTo("intend")
  <2>1. lane'.step \in {"check", "intend"} /\ UNCHANGED <<journalVars, told>>
    BY <1>5 DEF GoTo, Inv, Safe, Lanes
  <2> QED BY <1>4, <2>1
<1>6. CASE /\ Check
           /\ lane' = [lane EXCEPT
                 !.step = IF CheckedTwice(lane.task) THEN "recheck" ELSE "intend",
                 !.seen = IF lane.task.command = "SaveConfig"
                          THEN sunshine.config ELSE None]
           /\ UNCHANGED <<journalVars, told>>
  <2>1. lane'.step \in {"recheck", "intend"}
    BY <1>6 DEF Inv, Safe, Lanes
  <2> QED BY <1>4, <1>6, <2>1
<1> QED BY <1>2, <1>3, <1>5, <1>6 DEF Begin, Check, Recheck

(* The process sampled for an intent is the one that runs. *)
LEMMA IntentSamples ==
    ASSUME NEW task \in Tasks, NEW config, NEW world \in WorldStates,
           NEW generation \in SampledGenerations(world)
    PROVE  SampledBefore(Intent(task, config, generation), world)
<1> DEFINE effect == Intent(task, config, generation)
<1>1. generation \in {None, world.generation}
  BY DEF SampledGenerations
<1>2. effect.before \in {None, generation} \/ ~ReadTwice(effect)
  <2>1. CASE task.command \in {"Restart", "ControlService"}
    BY <2>1 DEF Intent, Effect
  <2>2. CASE task.command \notin {"Restart", "ControlService"}
    <3>1. effect.kind \notin {"RestartObserved", "ControlService"}
      BY <2>2 DEF Intent, Effect
    <3> QED BY <3>1 DEF ReadTwice
  <2> QED BY <2>1, <2>2
<1> HIDE DEF effect
<1>3. SampledBefore(effect, world)
  BY <1>1, <1>2, GenerationType DEF SampledBefore
<1> QED BY <1>3 DEF effect

LEMMA IntendWitness == Inv /\ Witnessed /\ Intend => Witnessed'
<1> SUFFICES ASSUME Inv, Witnessed, Intend PROVE Witnessed'
  OBVIOUS
<1>1. /\ Busy /\ lane.step = "intend" /\ LaneSafe
      /\ UNCHANGED <<sunshine, flight, answer, posts>> /\ UNCHANGED worldVars
      /\ goal' = goal \union Achieved(disk', sunshine)
  BY DEF Intend, At, Inv, Safe, worldVars
<1>2. CASE Finish("Rejected.ExecutionExpired")
  BY <1>1, <1>2, PlainFinishWitness DEF Refusals
<1>3. ASSUME NEW generation \in SampledGenerations(sunshine),
             Remember(Intent(lane.task, lane.seen, generation))
      PROVE  Witnessed'
  <2>1. PICK t0 \in Tasks : t0 = lane.task /\ t0.id \in OpIds
    BY <1>1, TasksHaveIds DEF LaneSafe
  <2>2. PICK effect \in Intents : effect = Intent(lane.task, lane.seen, generation)
    BY <1>1, SampleType, IntentType DEF LaneSafe
  <2>3. SampledBefore(effect, sunshine)
    BY <2>1, <2>2, IntentSamples DEF Inv, Worldly
  <2>4. PICK rec : rec = [lane.rec EXCEPT !.effect = effect]
    OBVIOUS
  <2>5. /\ rec.fingerprint = t0 /\ rec.effect = effect /\ rec.report = None
        /\ effect # None /\ rec # None
    <3>1. rec \in TaskRecord
      BY <1>1, <2>4 DEF LaneSafe, TaskRecord, Record
    <3> QED BY <1>1, <2>1, <2>4, <3>1, ExecutorAssumption
            DEF LaneSafe, BeforeIntent, TaskRecord, Record
  <2>6. PICK outcome \in {"Ok", "Storage"} :
            /\ J!Replace(lane.task.id, rec, outcome)
            /\ IF Remembered(outcome)
               THEN /\ lane' = [lane EXCEPT !.rec = rec, !.step = StepAfterIntent(lane.task)]
                    /\ UNCHANGED told
               ELSE PersistenceFailed(lane.task)
    BY <1>3, <2>2, <2>4 DEF Remember
  <2>7. told' = told
    <3>1. {"Unknown.PersistenceFailure"} \intersect Verdicts = {}
      BY DEF Verdicts, Refusals, Successes
    <3> QED BY <2>6, <3>1 DEF PersistenceFailed, Reply, Inv, Safe, Told
  <2>8. lane'.step # "conclude"
    <3>1. CASE outcome = "Ok"
      <4>1. lane' = [lane EXCEPT !.rec = rec, !.step = StepAfterIntent(lane.task)]
        BY <2>6, <3>1 DEF Remembered
      <4>2. StepAfterIntent(lane.task) \in {"guard", "post"}
        BY DEF StepAfterIntent
      <4> QED BY <4>1, <4>2 DEF Inv, Safe, Lanes
    <3>2. CASE outcome # "Ok"
      BY <2>6, <3>2 DEF Remembered, PersistenceFailed, Reply, Idle
    <3> QED BY <3>1, <3>2
  <2>9. disk' = disk \/ disk' = [disk EXCEPT ![t0.id] = rec]
    BY <2>1, <2>6, ReplaceTouchesOne
  <2>10. /\ \A id \in OpIds \ {t0.id} : disk'[id] = disk[id]
         /\ disk'[t0.id] \in {disk[t0.id], rec}
    BY <2>1, <2>9 DEF Inv, Safe, Journalled
  <2>11. HeardIsWitnessed'
    BY <1>1, <2>7 DEF Witnessed, HeardIsWitnessed, Evidence
  <2>12. RecordsAreWitnessed'
    <3>1. ASSUME NEW id \in OpIds, disk'[id] # None
          PROVE  /\ disk'[id].fingerprint.id = id
                 /\ Evidence(disk[id].report, disk[id].fingerprint)'
      <4>1. CASE disk'[id] = disk[id]
        BY <1>1, <3>1, <4>1 DEF Witnessed, RecordsAreWitnessed, Evidence
      <4>2. CASE disk'[id] = rec /\ id = t0.id
        BY <2>5, <4>2, NoEvidenceNeeded DEF Evidence
      <4> QED BY <2>10, <4>1, <4>2
    <3> QED BY <3>1 DEF RecordsAreWitnessed
  <2>13. RequestsAreSingle'
    BY <1>1 DEF Witnessed, RequestsAreSingle
  <2>14. AchievedIsRemembered'
    <3> SUFFICES ASSUME NEW id \in OpIds, disk'[id] # None, disk'[id].effect # None,
                        Fulfilled(disk'[id].effect, sunshine)
                 PROVE  disk'[id].fingerprint \in goal'
      BY <1>1 DEF AchievedIsRemembered
    <3>1. CASE disk'[id] = disk[id]
      BY <1>1, <3>1 DEF Witnessed, AchievedIsRemembered
    <3>2. CASE disk'[id] = rec /\ id = t0.id
      BY <1>1, <2>1, <2>5, <3>2 DEF Achieved
    <3> QED BY <2>10, <3>1, <3>2
  <2>15. SamplesArePast'
    <3> SUFFICES ASSUME NEW id \in OpIds, disk'[id] # None, disk'[id].effect # None
                 PROVE  SampledBefore(disk'[id].effect, sunshine)
      BY <1>1 DEF SamplesArePast, SampledBefore
    <3> QED BY <2>3, <2>5, <2>10 DEF Witnessed, SamplesArePast
  <2> QED BY <2>8, <2>11, <2>12, <2>13, <2>14, <2>15, NotConcluding DEF Witnessed
<1> QED BY <1>2, <1>3 DEF Intend

LEMMA AbandonWitness ==
    ASSUME Inv, Witnessed, Busy, Abandon, UNCHANGED <<worldVars, posts, goal>>
    PROVE  Witnessed'
<1>1. CASE Finish("Unknown.SideEffectNotConfirmed")
  BY <1>1, PlainFinishWitness DEF Uncertainties
<1>2. CASE GoTo(FirstReading(lane.rec.effect))
  BY <1>2, FirstReadingWitness
<1> QED BY <1>1, <1>2 DEF Abandon

LEMMA GuardWitness ==
    ASSUME Inv, Witnessed, NEW step \in {"guard", "guardAgain"}, Guard(step)
    PROVE  Witnessed'
<1>1. Busy /\ UNCHANGED <<worldVars, posts, goal>>
  BY DEF Guard, At
<1>2. CASE /\ lane' = [lane EXCEPT
                 !.step = IF step = "guard" /\ GuardedTwice(lane.task)
                          THEN "guardAgain" ELSE "post",
                 !.position = Position(lane.task, sunshine)]
           /\ UNCHANGED <<journalVars, told>>
  <2>1. lane'.step \in {"guardAgain", "post"}
    BY <1>2 DEF Inv, Safe, Lanes
  <2> QED BY <1>1, <1>2, <2>1, WalkWitness
<1>3. CASE Finish("Rejected.ResourceConflict")
  BY <1>1, <1>3, PlainFinishWitness DEF Refusals
<1>4. CASE Abandon
  BY <1>1, <1>4, AbandonWitness
<1> QED BY <1>2, <1>3, <1>4 DEF Guard

(* The only request of a task leaves before there is any answer to it. *)
LEMMA PostWitness == Inv /\ Witnessed /\ Post => Witnessed'
<1> SUFFICES ASSUME Inv, Witnessed, Post PROVE Witnessed'
  OBVIOUS
<1>1. PICK t0 \in Tasks : t0 = lane.task /\ t0.id \in OpIds /\ posts[t0.id] = 0
  BY TasksHaveIds DEF Post, At, Inv, Safe, LaneSafe, AfterRequest
<1>2. PICK request : request = [task |-> lane.task, effect |-> lane.rec.effect,
                                position |-> lane.position]
  OBVIOUS
<1>3. /\ flight' = flight \union {request} /\ request.task = t0
      /\ UNCHANGED <<disk, told, sunshine, answer, goal>>
      /\ lane' = [lane EXCEPT !.step = "await"]
      /\ posts' = [posts EXCEPT ![t0.id] = @ + 1]
  BY <1>1, <1>2 DEF Post, GoTo, journalVars
<1>4. /\ posts'[t0.id] = 1
      /\ \A id \in OpIds \ {t0.id} : posts'[id] = posts[id]
  BY <1>1, <1>3 DEF Inv, Safe, Told
<1>5. RequestsAreSingle'
  <2>1. \A r \in flight : r.task \in Tasks /\ r.task.id \in OpIds
    BY TasksHaveIds DEF Inv, Worldly, Requests
  <2>2. \A r \in flight : posts[r.task.id] > 0 /\ r.task.id # t0.id
    BY <1>1 DEF Witnessed, RequestsAreSingle
  <2>3. answer[t0] = "none"
    BY <1>1 DEF Witnessed, RequestsAreSingle
  <2>4. \A r \in flight' : posts'[r.task.id] > 0 /\ answer[r.task] = "none"
    <3>1. \A r \in flight : posts'[r.task.id] > 0 /\ answer[r.task] = "none"
      BY <1>4, <2>1, <2>2 DEF Witnessed, RequestsAreSingle
    <3>2. posts'[request.task.id] > 0 /\ answer[request.task] = "none"
      BY <1>3, <1>4, <2>3
    <3> QED BY <1>3, <3>1, <3>2
  <2>5. \A r, s \in flight' : r.task.id = s.task.id => r = s
    BY <1>3, <2>2 DEF Witnessed, RequestsAreSingle
  <2>6. \A t \in Tasks : posts'[t.id] = 0 => answer[t] = "none"
    BY <1>4, TasksHaveIds DEF Witnessed, RequestsAreSingle
  <2> QED BY <1>3, <2>4, <2>5, <2>6 DEF RequestsAreSingle
<1>6. HeardIsWitnessed' /\ RecordsAreWitnessed'
  BY <1>3 DEF Witnessed, HeardIsWitnessed, RecordsAreWitnessed, Evidence
<1>7. AchievedIsRemembered' /\ SamplesArePast'
  BY <1>3, KeptEffects DEF EffectsKept
<1>8. ReadingIsPast'
  BY <1>3, NotConcluding DEF Inv, Safe, Lanes
<1> QED BY <1>5, <1>6, <1>7, <1>8 DEF Witnessed

LEMMA PostSkippedWitness == Inv /\ Witnessed /\ PostSkipped => Witnessed'
BY AbandonWitness DEF PostSkipped, At

(* An unobservable effect succeeds only on Sunshine's own word. *)
LEMMA AwaitWitness == Inv /\ Witnessed /\ Await => Witnessed'
<1> SUFFICES ASSUME Inv, Witnessed, Await PROVE Witnessed'
  OBVIOUS
<1>1. Busy /\ UNCHANGED <<worldVars, posts, goal>>
  BY DEF Await, At
<1>2. ASSUME NEW reply \in Replies(lane.task), Finish(UnobservableReport(lane.task, reply))
      PROVE  Witnessed'
  <2> DEFINE report == UnobservableReport(lane.task, reply)
  <2>1. /\ report \in {"PairingPinSubmitted", "SideEffectCompleted",
                       "Rejected.PairingFailed", "Unknown.SideEffectNotConfirmed"}
        /\ report \in {"PairingPinSubmitted", "SideEffectCompleted"} => reply = "ok"
    BY DEF UnobservableReport
  <2>2. report \in Verdicts \union Uncertainties
    BY LateReports
  <2> HIDE DEF report
  <2>3. Evidence(report, lane.task)
    BY <1>2, <2>1 DEF Evidence, GoalSuccesses, ReplySuccesses, Replies
  <2>4. Finish(report)
    BY <1>2 DEF report
  <2> QED BY <1>1, <2>2, <2>3, <2>4, FinishWitness
<1>3. CASE GoTo(FirstReading(lane.rec.effect))
  BY <1>1, <1>3, FirstReadingWitness
<1> QED BY <1>2, <1>3 DEF Await

LEMMA NotConfirmedWitness ==
    ASSUME Inv, Witnessed, Busy, NotConfirmed, UNCHANGED <<worldVars, posts, goal>>
    PROVE  Witnessed'
<1>1. CASE Finish(UncertaintyOf(lane.rec.effect))
  BY <1>1, LateReports, PlainFinishWitness
<1>2. CASE /\ lane' = [lane EXCEPT !.step = "reconcile", !.seen = None, !.attempt = @ + 1]
           /\ UNCHANGED <<journalVars, told>>
  <2>1. lane'.step = "reconcile"
    BY <1>2 DEF Inv, Safe, Lanes
  <2> QED BY <1>2, <2>1, WalkWitness
<1> QED BY <1>1, <1>2 DEF NotConfirmed

(* The record of the operation under reconciliation is on disk. *)
LEMMA UnderReconciliation ==
    ASSUME Inv, Busy, lane.step \in AfterRequest
    PROVE  /\ lane.task \in Tasks /\ lane.task.id \in OpIds /\ lane.rec.effect # None
           /\ lane.rec.effect \in Intents
           /\ disk[lane.task.id] # None
           /\ disk[lane.task.id].effect = lane.rec.effect
           /\ disk[lane.task.id].fingerprint = lane.task
<1>1. LaneSafe /\ lane.step \notin BeforeIntent
  BY DEF Inv, Safe, AfterRequest, BeforeIntent
<1>2. OnDisk /\ lane.rec.effect # None
  BY <1>1 DEF LaneSafe
<1> QED BY <1>1, <1>2, TasksHaveIds DEF LaneSafe, OnDisk, TaskRecord, Record

LEMMA ReconcileWitness == Inv /\ Witnessed /\ Reconcile => Witnessed'
<1> SUFFICES ASSUME Inv, Witnessed, Reconcile PROVE Witnessed'
  OBVIOUS
<1>1. Busy /\ lane.step \in AfterRequest /\ UNCHANGED <<worldVars, posts, goal>>
  BY DEF Reconcile, At, AfterRequest
<1>2. CASE /\ lane' = [lane EXCEPT !.step = "conclude", !.seen = sunshine]
           /\ UNCHANGED <<journalVars, told>>
  <2>1. /\ lane'.seen = sunshine /\ lane'.rec = lane.rec /\ lane'.task = lane.task
        /\ sunshine' = sunshine /\ goal' = goal
    BY <1>1, <1>2 DEF Inv, Safe, Lanes, worldVars
  <2>2. sunshine \in WorldStates /\ sunshine.generation \in Nat
    BY GenerationType DEF Inv, Worldly
  <2>3. SampledBefore(lane.rec.effect, sunshine)
    BY <1>1, UnderReconciliation DEF Witnessed, SamplesArePast
  <2>4. Fulfilled(lane.rec.effect, sunshine) => lane.task \in goal
    BY <1>1, UnderReconciliation DEF Witnessed, AchievedIsRemembered
  <2>5. ReadingIsPast'
    BY <2>1, <2>2, <2>3, <2>4 DEF ReadingIsPast, SampledBefore
  <2> QED BY <1>1, <1>2, <2>5, MoveWitness DEF journalVars, worldVars
<1>3. CASE NotConfirmed
  BY <1>1, <1>3, NotConfirmedWitness
<1> QED BY <1>2, <1>3 DEF Reconcile

-----------------------------------------------------------------------------
(* What a confirmation is worth *)

LEMMA OccurrencesMeans ==
    ASSUME NEW apps \in Seq(AppRefs), NEW ref
    PROVE  /\ Occurrences(apps, ref) = 1 => \E i \in DOMAIN apps : apps[i] = ref
           /\ Occurrences(apps, ref) = 0 => \A i \in DOMAIN apps : apps[i] # ref
<1> DEFINE places == {i \in DOMAIN apps : apps[i] = ref}
<1>1. Occurrences(apps, ref) = Cardinality(places)
  BY DEF Occurrences
<1>2. IsFiniteSet(places)
  <2>1. DOMAIN apps = 1 .. Len(apps) /\ Len(apps) \in Nat
    OBVIOUS
  <2>2. IsFiniteSet(1 .. Len(apps))
    BY <2>1, FS_Interval
  <2> QED BY <2>1, <2>2, FS_Subset
<1>3. Cardinality(places) = 0 => places = {}
  BY <1>2, FS_EmptySet
<1>4. Cardinality({}) = 0
  BY FS_EmptySet
<1> QED BY <1>1, <1>3, <1>4

(* Whenever the client takes an effect for confirmed, Sunshine really was  *)
(* in the state of the intent, now or at the first of the two readings.    *)
LEMMA ConfirmedIsGoal ==
    ASSUME Inv, Witnessed, Busy, lane.step = "conclude",
           NEW generation \in Samples(lane.rec.effect, lane.seen, sunshine),
           Confirmed(lane.rec.effect, lane.seen, sunshine, generation)
    PROVE  lane.task \in goal
<1> DEFINE effect == lane.rec.effect
<1>1. Fulfilled(effect, sunshine) => lane.task \in goal
  BY UnderReconciliation DEF Witnessed, AchievedIsRemembered, AfterRequest
<1>2. sunshine \in WorldStates /\ sunshine.generation \in Nat /\ sunshine.apps \in Seq(AppRefs)
  BY GenerationType DEF Inv, Worldly, WorldStates
<1>3. ReadTwice(effect) =>
        /\ lane.seen \in WorldStates /\ lane.seen.generation \in Nat
        /\ effect.before # None =>
              effect.before \in Nat /\ effect.before <= lane.seen.generation
        /\ lane.seen.generation <= sunshine.generation
        /\ Fulfilled(effect, lane.seen) => lane.task \in goal
  BY GenerationType DEF Witnessed, ReadingIsPast, SampledBefore
<1> HIDE DEF effect
<1>4. Confirmed(effect, lane.seen, sunshine, generation)
  BY DEF effect
<1>5. generation \in Samples(effect, lane.seen, sunshine)
  BY DEF effect
<1>6. CASE effect.kind \in {"Save", "SetPairedClientEnabled", "UnpairClient", "UnpairAllClients"}
  BY <1>1, <1>4, <1>6 DEF Confirmed, Fulfilled
<1>7. CASE effect.kind \in {"SaveApplication", "DeleteApplication"}
  BY <1>1, <1>2, <1>4, <1>7, OccurrencesMeans DEF Confirmed, Fulfilled
<1>8. CASE effect.kind = "RestartObserved"
  <2>1. generation \notin {None, effect.before} /\ sunshine.config = effect.target
    BY <1>4, <1>8 DEF Confirmed
  <2>2. generation = lane.seen.generation
    BY <1>5, <1>8, <2>1 DEF Samples, SampledGenerations
  <2>3. effect.before # None
    <3>1. effect \in Intents
      BY UnderReconciliation DEF AfterRequest, effect
    <3>2. PICK t \in Tasks, c \in Config, g \in Generations \union {None} :
              effect = Intent(t, c, g)
      BY <3>1 DEF Intents
    <3>3. t.command = "Restart" /\ g # None
      BY <1>8, <3>2 DEF Intent, Effect
    <3> QED BY <3>2, <3>3 DEF Intent, Effect
  <2>4. sunshine.generation > effect.before
    BY <1>2, <1>3, <1>8, <2>1, <2>2, <2>3 DEF ReadTwice
  <2> QED BY <1>1, <1>8, <2>1, <2>4 DEF Fulfilled
<1>9. CASE effect.kind = "ControlService"
  <2>1. /\ lane.seen.service = IF effect.target = "Stop" THEN "Stopped" ELSE "Running"
        /\ effect.target = "Restart" =>
              effect.before # None /\ generation \notin {None, effect.before}
    BY <1>4, <1>9 DEF Confirmed
  <2>2. CASE effect.target # "Restart"
    BY <1>3, <1>9, <2>1, <2>2 DEF ReadTwice, Fulfilled
  <2>3. CASE effect.target = "Restart"
    <3>1. generation = sunshine.generation /\ sunshine.service = "Running"
      BY <1>5, <1>9, <2>1, <2>3 DEF Samples, SampledGenerations
    <3>2. sunshine.generation > effect.before
      BY <1>2, <1>3, <1>9, <2>1, <2>3, <3>1 DEF ReadTwice
    <3> QED BY <1>1, <1>9, <2>1, <2>3, <3>1, <3>2 DEF Fulfilled
  <2> QED BY <2>2, <2>3
<1>10. effect.kind \in {"Save", "SetPairedClientEnabled", "UnpairClient", "UnpairAllClients",
                        "SaveApplication", "DeleteApplication", "RestartObserved",
                        "ControlService"}
  BY <1>4 DEF Confirmed
<1> QED BY <1>6, <1>7, <1>8, <1>9, <1>10

LEMMA ConcludeWitness == Inv /\ Witnessed /\ Conclude => Witnessed'
<1> SUFFICES ASSUME Inv, Witnessed, Conclude PROVE Witnessed'
  OBVIOUS
<1>1. Busy /\ lane.step = "conclude" /\ UNCHANGED <<worldVars, posts, goal>>
  BY DEF Conclude, At
<1>2. CASE /\ \E generation \in Samples(lane.rec.effect, lane.seen, sunshine) :
                 Confirmed(lane.rec.effect, lane.seen, sunshine, generation)
           /\ Finish(SuccessOf(lane.rec.effect))
  <2>1. lane.task \in goal
    BY <1>1, <1>2, ConfirmedIsGoal
  <2>2. SuccessOf(lane.rec.effect) \in GoalSuccesses
    BY DEF SuccessOf, GoalSuccesses
  <2>3. Evidence(SuccessOf(lane.rec.effect), lane.task)
    BY <2>1, <2>2, NoEvidenceNeeded DEF Evidence
  <2> QED BY <1>1, <1>2, <2>3, LateReports, FinishWitness
<1>3. CASE NotConfirmed
  BY <1>1, <1>3, NotConfirmedWitness
<1> QED BY <1>2, <1>3 DEF Conclude

-----------------------------------------------------------------------------
(* Deliveries, receipts and the world *)

LEMMA TimeoutWitness == Inv /\ Witnessed /\ Timeout => Witnessed'
<1> SUFFICES ASSUME Inv, Witnessed, Timeout PROVE Witnessed'
  OBVIOUS
<1>1. TimeoutReport(lane.rec) \in Refusals \union Uncertainties
  BY DEF TimeoutReport, Refusals, Uncertainties
<1> QED BY <1>1, PlainFinishWitness DEF Timeout

LEMMA ExpireWitness == Inv /\ Witnessed /\ Expire => Witnessed'
<1> SUFFICES ASSUME Inv, Witnessed, Expire PROVE Witnessed'
  OBVIOUS
<1>1. /\ lane' = [lane EXCEPT !.deadline = "expired"]
      /\ UNCHANGED <<journalVars, worldVars, historyVars>>
  BY DEF Expire
<1>2. /\ lane'.step = lane.step /\ lane'.seen = lane.seen
      /\ lane'.task = lane.task /\ lane'.rec = lane.rec
  BY <1>1 DEF Inv, Safe, Lanes
<1>3. ReadingIsPast'
  BY <1>1, <1>2 DEF Witnessed, ReadingIsPast, SampledBefore, worldVars, historyVars
<1> QED BY <1>1, <1>3, MoveWitness DEF journalVars, worldVars, historyVars

LEMMA ProcessWitness == Inv /\ Witnessed /\ (Open \/ Crash) => Witnessed'
<1> SUFFICES ASSUME Inv, Witnessed, Open \/ Crash PROVE Witnessed'
  OBVIOUS
<1>1. UNCHANGED <<disk, worldVars, historyVars>>
  BY DEF Open, J!Open, Crash, J!Close
<1>2. lane' = lane \/ lane' = Idle
  BY DEF Open, Crash
<1>3. ReadingIsPast'
  BY <1>1, <1>2 DEF Witnessed, ReadingIsPast, SampledBefore, worldVars, historyVars, Idle
<1> QED BY <1>1, <1>3, MoveWitness DEF worldVars, historyVars

(* An answer that no record changes with: something without evidence to    *)
(* give, or the verdict saved before.                                      *)
LEMMA ReplyWitness ==
    ASSUME Inv, Witnessed, NEW task \in Tasks, NEW report,
           report \in Verdicts => Evidence(report, task),
           Reply(task, report), UNCHANGED <<disk, worldVars, posts, goal>>
    PROVE  Witnessed'
<1>1. /\ lane' = Idle
      /\ told'[task] \subseteq told[task] \union ({report} \intersect Verdicts)
      /\ \A t \in Tasks \ {task} : told'[t] = told[t]
  BY DEF Reply, Inv, Safe, Told
<1>2. HeardIsWitnessed'
  BY <1>1 DEF Witnessed, HeardIsWitnessed, Evidence, worldVars
<1>3. RecordsAreWitnessed' /\ RequestsAreSingle'
  BY DEF Witnessed, RecordsAreWitnessed, RequestsAreSingle, Evidence, worldVars
<1>4. AchievedIsRemembered' /\ SamplesArePast'
  BY KeptEffects DEF EffectsKept, worldVars
<1>5. ReadingIsPast'
  BY <1>1, NotConcluding DEF Idle
<1> QED BY <1>2, <1>3, <1>4, <1>5 DEF Witnessed

(* A new record carries nothing that needs evidence. *)
LEMMA FreshWitness ==
    ASSUME Inv, Witnessed, NEW task \in Tasks,
           disk' = disk \/ disk' = [disk EXCEPT ![task.id] = FreshRecord(task)],
           UNCHANGED <<told, worldVars, posts, goal>>, lane'.step # "conclude"
    PROVE  Witnessed'
<1>1. PICK rec : rec = FreshRecord(task)
  OBVIOUS
<1>2. /\ rec.effect = None /\ rec.report = None /\ rec.fingerprint = task
      /\ task.id \in OpIds
  BY <1>1, FreshRecordType, TasksHaveIds
<1>3. /\ \A id \in OpIds \ {task.id} : disk'[id] = disk[id]
      /\ disk'[task.id] \in {disk[task.id], rec}
  BY <1>1, <1>2 DEF Inv, Safe, Journalled
<1>4. HeardIsWitnessed' /\ RequestsAreSingle'
  BY DEF Witnessed, HeardIsWitnessed, RequestsAreSingle, Evidence, worldVars
<1>5. RecordsAreWitnessed'
  BY <1>2, <1>3, NoEvidenceNeeded DEF Witnessed, RecordsAreWitnessed, Evidence, worldVars
<1>6. AchievedIsRemembered' /\ SamplesArePast'
  BY <1>2, <1>3, KeptEffects DEF EffectsKept, worldVars
<1> QED BY <1>4, <1>5, <1>6, NotConcluding DEF Witnessed

LEMMA DeliverWitness ==
    ASSUME Inv, Witnessed, NEW task \in Tasks, NEW mode \in {"Execute", "InspectOnly"},
           Deliver(task, mode)
    PROVE  Witnessed'
<1> DEFINE record == disk[task.id]
<1>1. opened /\ ~Busy /\ UNCHANGED <<worldVars, posts, goal>> /\ task.id \in OpIds
  BY TasksHaveIds DEF Deliver
<1>2. PICK deadline \in Deadlines(mode) :
          \/ PersistenceFailed(task) /\ UNCHANGED journalVars
          \/ /\ ~poisoned
             /\ DeliverKnown(task, mode, deadline) \/ DeliverNew(task, mode, deadline)
  BY DEF Deliver
<1>3. /\ \A report \in GateRefusals : report \notin Verdicts
      /\ "Unknown.PersistenceFailure" \notin Verdicts
      /\ "Unknown.NoExecutionRecord" \notin Verdicts
      /\ "Rejected.OperationIdReused" \in GateRefusals
      /\ "Rejected.OperationAlreadyCompleted" \in GateRefusals
      /\ "Rejected.JournalFull" \in GateRefusals
  BY ReportKinds DEF Uncertainties, GateRefusals
<1>4. CASE PersistenceFailed(task) /\ UNCHANGED journalVars
  BY <1>1, <1>3, <1>4, ReplyWitness DEF PersistenceFailed, journalVars
<1>5. CASE DeliverKnown(task, mode, deadline)
  <2>1. record # None /\ J!Loaded(task.id) = record /\ UNCHANGED disk
    BY <1>5 DEF DeliverKnown, J!Loaded, journalVars
  <2>2. CASE \E report : report \notin Verdicts /\ Reply(task, report)
    BY <1>1, <2>1, <2>2, ReplyWitness
  <2>3. CASE record.fingerprint = task /\ Reply(task, record.report)
    <3>1. Evidence(record.report, task)
      BY <1>1, <2>1, <2>3 DEF Witnessed, RecordsAreWitnessed
    <3> QED BY <1>1, <2>1, <2>3, <3>1, ReplyWitness
  <2>4. CASE Start(task, record, FirstReading(record.effect), FALSE, FALSE, deadline)
    <3>1. /\ lane'.step = FirstReading(record.effect) /\ lane'.rec = record
          /\ UNCHANGED told
      BY <2>4 DEF Start, Idle
    <3>2. ReadingIsPast'
      BY <3>1 DEF ReadingIsPast, FirstReading
    <3> QED BY <1>1, <2>1, <3>1, <3>2, MoveWitness DEF worldVars
  <2>5. CASE Start(task, record, "start", TRUE, FALSE, deadline)
    <3>1. lane'.step # "conclude" /\ UNCHANGED told
      BY <2>5 DEF Start, Idle
    <3> QED BY <1>1, <2>1, <3>1, NotConcluding, MoveWitness DEF worldVars
  <2> QED BY <1>3, <1>5, <2>1, <2>2, <2>3, <2>4, <2>5 DEF DeliverKnown
<1>6. CASE ~poisoned /\ DeliverNew(task, mode, deadline)
  <2> DEFINE fresh == FreshRecord(task)
  <2>1. J!Loaded(task.id) = None
    BY <1>6 DEF DeliverNew
  <2>2. CASE Reply(task, "Unknown.NoExecutionRecord") /\ UNCHANGED journalVars
    BY <1>1, <1>3, <2>2, ReplyWitness DEF journalVars
  <2>3. CASE J!Create(task.id, fresh, "Full") /\ Reply(task, "Rejected.JournalFull")
    <3>1. UNCHANGED disk
      BY <1>1, <1>6, <2>1, <2>3, Created DEF journalVars
    <3> QED BY <1>1, <1>3, <2>3, <3>1, ReplyWitness
  <2>4. CASE \E outcome, volatile : /\ J!Create(task.id, fresh, outcome)
                                    /\ Start(task, fresh, "start", TRUE, volatile, deadline)
    <3>1. disk' = disk \/ disk' = [disk EXCEPT ![task.id] = fresh]
      BY <2>4, CreateTouchesOne
    <3>2. lane'.step # "conclude" /\ UNCHANGED told
      <4>1. PICK volatile : Start(task, fresh, "start", TRUE, volatile, deadline)
        BY <2>4
      <4> QED BY <4>1 DEF Start, Idle
    <3> QED BY <1>1, <3>1, <3>2, FreshWitness
  <2>5. CASE J!Create(task.id, fresh, "Storage") /\ PersistenceFailed(task)
    <3>1. disk' = disk \/ disk' = [disk EXCEPT ![task.id] = fresh]
      BY <2>5, CreateTouchesOne
    <3>2. {"Unknown.PersistenceFailure"} \intersect Verdicts = {}
      BY <1>3
    <3>3. lane' = Idle /\ UNCHANGED told
      BY <2>5, <3>2 DEF PersistenceFailed, Reply, Inv, Safe, Told
    <3>4. lane'.step # "conclude"
      BY <3>3 DEF Idle
    <3> QED BY <1>1, <3>1, <3>3, <3>4, FreshWitness
  <2> QED BY <1>6, <2>2, <2>3, <2>4, <2>5 DEF DeliverNew
<1> QED BY <1>2, <1>4, <1>5, <1>6

LEMMA AcknowledgeWitness ==
    ASSUME Inv, Witnessed, NEW task \in Tasks, NEW report \in Reports,
           NEW finalized \in BOOLEAN, Acknowledge(task, report, finalized)
    PROVE  Witnessed'
<1>1. PICK id0 \in OpIds : id0 = task.id
  BY TasksHaveIds
<1>2. PICK rec : rec = [disk[id0] EXCEPT
                          !.acknowledged = Closes(report, finalized),
                          !.report = IF Closes(report, finalized) THEN None ELSE @,
                          !.effect = IF Closes(report, finalized) THEN None ELSE @,
                          !.accepted = report]
  OBVIOUS
<1>3. /\ disk[id0] # None /\ ~Busy
      /\ UNCHANGED <<lane, worldVars, posts, told, goal>>
      /\ \E outcome : J!Replace(id0, rec, outcome)
  BY <1>1, <1>2 DEF Acknowledge, J!Loaded
<1>4. /\ rec.fingerprint = disk[id0].fingerprint
      /\ rec.report \in {None, disk[id0].report}
      /\ rec.effect \in {None, disk[id0].effect}
  BY <1>1, <1>2, <1>3 DEF Inv, Safe, Journalled, TaskRecord, Record
<1>5. /\ \A id \in OpIds \ {id0} : disk'[id] = disk[id]
      /\ disk'[id0] \in {disk[id0], rec}
  BY <1>3, ReplaceTouchesOne DEF Inv, Safe, Journalled
<1>6. HeardIsWitnessed' /\ RequestsAreSingle'
  BY <1>3 DEF Witnessed, HeardIsWitnessed, RequestsAreSingle, Evidence, worldVars
<1>7. RecordsAreWitnessed'
  BY <1>3, <1>4, <1>5, NoEvidenceNeeded
  DEF Witnessed, RecordsAreWitnessed, Evidence, worldVars
<1>8. AchievedIsRemembered' /\ SamplesArePast'
  BY <1>3, <1>4, <1>5, KeptEffects DEF EffectsKept, worldVars
<1>9. ReadingIsPast'
  BY <1>3, NotConcluding DEF Busy
<1> QED BY <1>6, <1>7, <1>8, <1>9 DEF Witnessed

(* Sunshine's processes are numbered upwards. *)
LEMMA ApplyGrows ==
    ASSUME NEW effect, NEW position, NEW world \in WorldStates
    PROVE  world.generation <= Apply(effect, position, world).generation
<1> DEFINE new == Apply(effect, position, world)
<1>1. world.generation \in Nat
  BY GenerationType
<1>2. Restarted(world).generation = world.generation + 1
  BY DEF Restarted, WorldStates
<1>3. CASE effect.kind \in {"Restart", "RestartObserved"}
  BY <1>1, <1>2, <1>3 DEF Apply
<1>4. CASE effect.kind = "ControlService"
  <2>1. \/ new = world
        \/ new = [world EXCEPT !.service = "Stopped"]
        \/ new = Restarted(world)
    BY <1>4 DEF Apply
  <2>2. [world EXCEPT !.service = "Stopped"].generation = world.generation
    BY DEF WorldStates
  <2>3. new.generation \in {world.generation, world.generation + 1}
    BY <1>2, <2>1, <2>2
  <2> HIDE DEF new
  <2>4. world.generation <= new.generation
    BY <1>1, <2>3
  <2> QED BY <2>4 DEF new
<1>5. CASE effect.kind \notin {"Restart", "RestartObserved", "ControlService"}
  <2>1. new.generation = world.generation
    BY <1>5 DEF Apply, WorldStates
  <2> QED BY <1>1, <2>1
<1> QED BY <1>3, <1>4, <1>5

(* Sunshine moves on; what it fulfils now is remembered. *)
LEMMA WorldWitness ==
    ASSUME Inv, Witnessed, NEW world \in WorldStates,
           sunshine.generation <= world.generation, World(world)
    PROVE  /\ goal \subseteq goal' /\ UNCHANGED <<disk, told, posts, lane>>
           /\ AchievedIsRemembered' /\ SamplesArePast' /\ ReadingIsPast'
<1>1. /\ UNCHANGED <<disk, lane, posts, told>>
      /\ sunshine' = world
      /\ goal' = goal \union Achieved(disk, world)
  BY DEF World, journalVars
<1>2. world.generation \in Nat /\ sunshine.generation \in Nat
  BY GenerationType DEF Inv, Worldly
<1>3. AchievedIsRemembered'
  <2> SUFFICES ASSUME NEW id \in OpIds, disk[id] # None, disk[id].effect # None,
                      Fulfilled(disk[id].effect, world)
               PROVE  disk[id].fingerprint \in goal'
    BY <1>1 DEF AchievedIsRemembered
  <2>1. disk[id].fingerprint \in Tasks /\ disk[id].fingerprint.id = id
    BY DEF Inv, Safe, Journalled, TaskRecord, Record, Witnessed, RecordsAreWitnessed
  <2> QED BY <1>1, <2>1 DEF Achieved
<1>4. SamplesArePast'
  BY <1>1, <1>2 DEF Witnessed, SamplesArePast, SampledBefore
<1>5. ReadingIsPast'
  BY <1>1, <1>2, GenerationType DEF Witnessed, ReadingIsPast, SampledBefore
<1> QED BY <1>1, <1>3, <1>4, <1>5

(* The answer to a request is the first and the last one to its task. *)
LEMMA LandWitness ==
    ASSUME Inv, Witnessed, NEW request \in flight, Land(request)
    PROVE  Witnessed'
<1>1. /\ request.task \in Tasks /\ request.effect \in Intents /\ request.position \in Nat
      /\ sunshine \in WorldStates /\ request.task.id \in OpIds
  BY TasksHaveIds DEF Inv, Worldly, Requests
<1>2. PICK world \in WorldStates : sunshine.generation <= world.generation /\ World(world)
  <2>1. Apply(request.effect, request.position, sunshine) \in WorldStates
    BY <1>1, ApplyType DEF Land
  <2>2. sunshine.generation <= sunshine.generation
    BY <1>1, GenerationType
  <2> QED BY <1>1, <2>1, <2>2, ApplyGrows DEF Land
<1>3. /\ goal \subseteq goal' /\ UNCHANGED <<disk, told, posts, lane>>
      /\ AchievedIsRemembered' /\ SamplesArePast' /\ ReadingIsPast'
  BY <1>2, WorldWitness
<1>4. /\ flight' = flight \ {request}
      /\ \A t \in Tasks \ {request.task} : answer'[t] = answer[t]
  BY <1>1 DEF Land, Inv, Worldly
<1>5. answer[request.task] = "none" /\ posts[request.task.id] > 0
  BY DEF Witnessed, RequestsAreSingle
<1>6. \A t \in Tasks : answer[t] = "ok" => answer'[t] = "ok"
  BY <1>4, <1>5
<1>7. HeardIsWitnessed'
  BY <1>3, <1>6 DEF Witnessed, HeardIsWitnessed, Evidence
<1>8. RecordsAreWitnessed'
  <2>1. \A id \in OpIds : disk[id] # None => disk[id].fingerprint \in Tasks
    BY DEF Inv, Safe, Journalled, TaskRecord, Record
  <2> QED BY <1>3, <1>6, <2>1 DEF Witnessed, RecordsAreWitnessed, Evidence
<1>9. RequestsAreSingle'
  <2>1. \A r \in flight : r.task \in Tasks
    BY DEF Inv, Worldly, Requests
  <2>2. \A r \in flight' : r.task # request.task
    BY <1>4 DEF Witnessed, RequestsAreSingle
  <2>3. \A r \in flight' : posts'[r.task.id] > 0 /\ answer'[r.task] = "none"
    BY <1>3, <1>4, <2>1, <2>2 DEF Witnessed, RequestsAreSingle
  <2>4. \A t \in Tasks : posts'[t.id] = 0 => answer'[t] = "none"
    BY <1>3, <1>4, <1>5 DEF Witnessed, RequestsAreSingle
  <2> QED BY <1>4, <2>3, <2>4 DEF Witnessed, RequestsAreSingle
<1> QED BY <1>3, <1>7, <1>8, <1>9 DEF Witnessed

LEMMA LoseWitness ==
    ASSUME Inv, Witnessed, NEW request \in flight, Lose(request)
    PROVE  Witnessed'
<1>1. /\ UNCHANGED <<disk, lane, sunshine, answer, posts, told, goal>>
      /\ flight' = flight \ {request}
  BY DEF Lose, journalVars, historyVars
<1>2. HeardIsWitnessed' /\ RecordsAreWitnessed'
  BY <1>1 DEF Witnessed, HeardIsWitnessed, RecordsAreWitnessed, Evidence
<1>3. RequestsAreSingle'
  BY <1>1 DEF Witnessed, RequestsAreSingle
<1>4. AchievedIsRemembered' /\ SamplesArePast'
  BY <1>1, KeptEffects DEF EffectsKept
<1>5. ReadingIsPast'
  BY <1>1 DEF Witnessed, ReadingIsPast, SampledBefore
<1> QED BY <1>2, <1>3, <1>4, <1>5 DEF Witnessed

LEMMA EditWitness == Inv /\ Witnessed /\ Edit => Witnessed'
<1> SUFFICES ASSUME Inv, Witnessed, Edit PROVE Witnessed'
  OBVIOUS
<1>1. sunshine \in WorldStates /\ sunshine.generation \in Nat
  BY GenerationType DEF Inv, Worldly
<1>2. PICK world \in WorldStates : sunshine.generation <= world.generation /\ World(world)
  <2> DEFINE Goal == \E world \in WorldStates :
                        sunshine.generation <= world.generation /\ World(world)
  <2>1. ASSUME NEW config \in Config, World([sunshine EXCEPT !.config = config])
        PROVE  Goal
    BY <1>1, <2>1 DEF WorldStates
  <2>2. ASSUME NEW apps \in EditedApps, World([sunshine EXCEPT !.apps = apps])
        PROVE  Goal
    <3>1. apps \in Seq(AppRefs)
      BY ExecutorAssumption
    <3>2. [sunshine EXCEPT !.apps = apps] \in WorldStates
      BY <1>1, <3>1, AppsType
    <3>3. [sunshine EXCEPT !.apps = apps].generation = sunshine.generation
      BY <1>1 DEF WorldStates
    <3>4. sunshine.generation <= [sunshine EXCEPT !.apps = apps].generation
      BY <1>1, <3>3
    <3> QED BY <2>2, <3>2, <3>4
  <2>3. ASSUME NEW c \in Clients, NEW state \in ClientStates,
               World([sunshine EXCEPT !.clients[c] = state])
        PROVE  Goal
    BY <1>1, <2>3 DEF WorldStates
  <2>4. ASSUME World([sunshine EXCEPT !.service = "Stopped"])
        PROVE  Goal
    BY <1>1, <2>4 DEF WorldStates
  <2>5. ASSUME sunshine.generation < MaxGeneration, World(Restarted(sunshine))
        PROVE  Goal
    <3>1. Restarted(sunshine) \in WorldStates
      BY <1>1, <2>5, RestartType
    <3>2. Restarted(sunshine).generation = sunshine.generation + 1
      BY <1>1 DEF Restarted, WorldStates
    <3>3. sunshine.generation <= Restarted(sunshine).generation
      BY <1>1, <3>2
    <3> QED BY <2>5, <3>1, <3>3
  <2> QED BY <2>1, <2>2, <2>3, <2>4, <2>5 DEF Edit
<1>3. /\ goal \subseteq goal' /\ UNCHANGED <<disk, told, posts, lane>>
      /\ AchievedIsRemembered' /\ SamplesArePast' /\ ReadingIsPast'
  BY <1>2, WorldWitness
<1>4. UNCHANGED <<flight, answer>>
  BY DEF Edit
<1>5. HeardIsWitnessed' /\ RecordsAreWitnessed'
  BY <1>3, <1>4 DEF Witnessed, HeardIsWitnessed, RecordsAreWitnessed, Evidence
<1>6. RequestsAreSingle'
  BY <1>3, <1>4 DEF Witnessed, RequestsAreSingle
<1> QED BY <1>3, <1>5, <1>6 DEF Witnessed

LEMMA StutterWitness == Inv /\ Witnessed /\ UNCHANGED vars => Witnessed'
<1> SUFFICES ASSUME Inv, Witnessed, UNCHANGED vars PROVE Witnessed'
  OBVIOUS
<1>1. UNCHANGED <<disk, told, sunshine, flight, answer, posts, goal, lane>>
  BY DEF vars, journalVars, worldVars, historyVars
<1>2. ReadingIsPast'
  BY <1>1 DEF Witnessed, ReadingIsPast, SampledBefore
<1> QED BY <1>1, <1>2, MoveWitness

LEMMA NextWitness == Inv /\ Witnessed /\ [Next]_vars => Witnessed'
<1> SUFFICES ASSUME Inv, Witnessed, [Next]_vars PROVE Witnessed'
  OBVIOUS
<1>1. CASE Step
  <2>1. CASE Guard("guard") \/ Guard("guardAgain")
    BY <2>1, GuardWitness
  <2> QED BY <1>1, <2>1, ReadingsWitness, IntendWitness, PostWitness, PostSkippedWitness,
             AwaitWitness, ReconcileWitness, ConcludeWitness DEF Step
<1>2. ASSUME NEW task \in Tasks, NEW mode \in {"Execute", "InspectOnly"},
             Deliver(task, mode)
      PROVE  Witnessed'
  BY <1>2, DeliverWitness
<1>3. ASSUME NEW task \in Tasks, NEW report \in Reports, NEW finalized \in BOOLEAN,
             Acknowledge(task, report, finalized)
      PROVE  Witnessed'
  BY <1>3, AcknowledgeWitness
<1>4. CASE Timeout \/ Expire
  BY <1>4, TimeoutWitness, ExpireWitness
<1>5. CASE Open \/ Crash
  BY <1>5, ProcessWitness
<1>6. ASSUME NEW request \in flight, Land(request) \/ Lose(request) PROVE Witnessed'
  BY <1>6, LandWitness, LoseWitness
<1>7. CASE Edit
  BY <1>7, EditWitness
<1>8. CASE UNCHANGED vars
  BY <1>8, StutterWitness
<1> QED BY <1>1, <1>2, <1>3, <1>4, <1>5, <1>6, <1>7, <1>8 DEF Next

LEMMA InitiallyWitnessed == Init => Witnessed
<1> SUFFICES ASSUME Init PROVE Witnessed
  OBVIOUS
<1>1. /\ disk = [id \in OpIds |-> None] /\ lane.step = "idle" /\ flight = {}
      /\ told = [t \in Tasks |-> {}] /\ answer = [t \in Tasks |-> "none"]
  BY DEF Init, J!JournalInit, Idle
<1> QED BY <1>1
        DEF Witnessed, HeardIsWitnessed, RecordsAreWitnessed, RequestsAreSingle,
            AchievedIsRemembered, SamplesArePast, ReadingIsPast

(* No success is ever claimed for an effect nobody saw, for any tasks and  *)
(* any number of requests, edits, restarts of Sunshine and crashes.        *)
THEOREM SuccessesAreTrue == Spec => []SuccessIsWitnessed
<1>1. Init => Inv /\ Witnessed
  BY InitiallyInv, InitiallyWitnessed
<1>2. (Inv /\ Witnessed) /\ [Next]_vars => (Inv /\ Witnessed)'
  BY Inductive, NextWitness
<1>3. Inv /\ Witnessed => SuccessIsWitnessed
  <2> SUFFICES ASSUME Witnessed, NEW t \in Tasks
               PROVE  /\ told[t] \intersect ReplySuccesses # {} => answer[t] = "ok"
                      /\ told[t] \intersect GoalSuccesses # {} => t \in goal
    BY DEF SuccessIsWitnessed, ReplySuccesses, GoalSuccesses
  <2> QED BY DEF Witnessed, HeardIsWitnessed, Evidence
<1> QED BY <1>1, <1>2, <1>3, PTL DEF Spec

-----------------------------------------------------------------------------
(* Every delivery ends *)

(* How many steps lie ahead of one, when restarts are not looked for again. *)
Ahead(step) ==
    CASE step = "start" -> 10
      [] step = "check" -> 9
      [] step = "recheck" -> 8
      [] step = "intend" -> 7
      [] step = "guard" -> 6
      [] step = "guardAgain" -> 5
      [] step = "post" -> 4
      [] step = "await" -> 3
      [] step = "reconcile" -> 2
      [] step = "conclude" -> 1
      [] OTHER -> 0

AttemptsLeft(attempt) ==
    IF attempt < RestartAttempts THEN RestartAttempts - attempt ELSE 0

(* A bound on the steps that a delivery may still take. *)
Rank(l) ==
    Ahead(l.step) + 2 * AttemptsLeft(l.attempt) + (IF l.deadline = "running" THEN 1 ELSE 0)

(* The holder of the mutex comes closer to its end with every move of the  *)
(* lane, whatever it meets.                                                *)
DeliveryAdvances == [][Busy /\ Busy' => Rank(lane') < Rank(lane)]_lane

(* Whatever it starts with, and however often it looks for a new process,  *)
(* a delivery has no more moves than this ahead of it.                     *)
DeliveryIsBounded == Rank(lane) <= 11 + 2 * RestartAttempts

LEMMA AheadOf ==
    /\ Ahead("start") = 10 /\ Ahead("check") = 9 /\ Ahead("recheck") = 8
    /\ Ahead("intend") = 7 /\ Ahead("guard") = 6 /\ Ahead("guardAgain") = 5
    /\ Ahead("post") = 4 /\ Ahead("await") = 3 /\ Ahead("reconcile") = 2
    /\ Ahead("conclude") = 1 /\ Ahead("idle") = 0
BY DEF Ahead

LEMMA AttemptsLeftBound ==
    ASSUME NEW attempt \in Nat
    PROVE  /\ AttemptsLeft(attempt) \in 0..RestartAttempts
           /\ attempt < RestartAttempts => AttemptsLeft(attempt + 1) = AttemptsLeft(attempt) - 1
BY ExecutorAssumption DEF AttemptsLeft

(* A move to a step that has fewer ahead, or another attempt. *)
LEMMA Closer ==
    ASSUME lane \in Lanes, NEW next,
           next.deadline = lane.deadline,
           \/ next.attempt = lane.attempt /\ Ahead(next.step) < Ahead(lane.step)
           \/ /\ lane.attempt < RestartAttempts /\ next.attempt = lane.attempt + 1
              /\ lane.step \in {"reconcile", "conclude"} /\ next.step = "reconcile"
    PROVE  Rank(next) < Rank(lane)
<1> DEFINE hurry == IF lane.deadline = "running" THEN 1 ELSE 0
<1>1. PICK n \in Int : n = Ahead(lane.step)
  BY AheadOf DEF Lanes, Steps
<1>2. PICK left \in Nat : left = AttemptsLeft(lane.attempt)
  BY AttemptsLeftBound, ExecutorAssumption DEF Lanes
<1>3. hurry \in Nat /\ hurry = IF next.deadline = "running" THEN 1 ELSE 0
  OBVIOUS
<1>4. Rank(lane) = n + 2 * left + hurry
  BY <1>1, <1>2 DEF Rank
<1> HIDE DEF hurry
<1>5. CASE next.attempt = lane.attempt /\ Ahead(next.step) < Ahead(lane.step)
  <2>1. Rank(next) = Ahead(next.step) + 2 * left + hurry
    BY <1>2, <1>3, <1>5 DEF Rank
  <2>2. Ahead(next.step) \in Int
    BY AheadOf DEF Ahead
  <2> QED BY <1>1, <1>2, <1>3, <1>4, <1>5, <2>1, <2>2
<1>6. CASE /\ lane.attempt < RestartAttempts /\ next.attempt = lane.attempt + 1
           /\ lane.step \in {"reconcile", "conclude"} /\ next.step = "reconcile"
  <2>1. AttemptsLeft(next.attempt) = left - 1
    BY <1>2, <1>6, AttemptsLeftBound DEF Lanes
  <2>2. Rank(next) = 2 + 2 * (left - 1) + hurry
    BY <1>3, <1>6, <2>1, AheadOf DEF Rank
  <2>3. n >= 1
    BY <1>1, <1>6, AheadOf
  <2> QED BY <1>1, <1>2, <1>3, <1>4, <2>2, <2>3
<1> QED BY <1>5, <1>6

LEMMA FinishEnds == ASSUME NEW report, Finish(report) PROVE ~Busy'
BY DEF Finish, Reply, Idle, Busy

LEMMA RefuseEnds == ASSUME NEW world, Refuse(world) PROVE ~Busy'
BY FinishEnds DEF Refuse

LEMMA AbandonAdvances ==
    ASSUME lane \in Lanes, Abandon, Ahead(lane.step) > 2
    PROVE  Busy' => Rank(lane') < Rank(lane)
<1>1. CASE lane.rec.effect.kind = "Unobservable"
  BY <1>1, FinishEnds DEF Abandon
<1>2. CASE lane.rec.effect.kind # "Unobservable"
  <2> DEFINE s == FirstReading(lane.rec.effect)
  <2>1. lane' = [lane EXCEPT !.step = s] /\ s \in {"reconcile", "conclude"}
    BY <1>2 DEF Abandon, GoTo, FirstReading
  <2> HIDE DEF s
  <2>2. lane'.step = s /\ lane'.attempt = lane.attempt /\ lane'.deadline = lane.deadline
    BY <2>1 DEF Lanes
  <2>3. Ahead(lane'.step) < Ahead(lane.step)
    BY <2>1, <2>2, AheadOf DEF Lanes, Steps
  <2> QED BY <2>2, <2>3, Closer
<1> QED BY <1>1, <1>2

LEMMA NotConfirmedAdvances ==
    ASSUME lane \in Lanes, NotConfirmed, lane.step \in {"reconcile", "conclude"}
    PROVE  Busy' => Rank(lane') < Rank(lane)
<1>1. CASE Retrying
  <2>1. lane' = [lane EXCEPT !.step = "reconcile", !.seen = None, !.attempt = @ + 1]
        /\ lane.attempt < RestartAttempts
    BY <1>1 DEF NotConfirmed, Retrying
  <2>2. /\ lane'.step = "reconcile" /\ lane'.attempt = lane.attempt + 1
        /\ lane'.deadline = lane.deadline
    BY <2>1 DEF Lanes
  <2> QED BY <2>1, <2>2, Closer
<1>2. CASE ~Retrying
  BY <1>2, FinishEnds DEF NotConfirmed
<1> QED BY <1>1, <1>2

LEMMA StepAdvances ==
    ASSUME lane \in Lanes, Step
    PROVE  Busy' => Rank(lane') < Rank(lane)
<1> SUFFICES ASSUME Busy' PROVE Rank(lane') < Rank(lane)
  OBVIOUS
<1>1. ASSUME NEW s, lane' = [lane EXCEPT !.step = s], Ahead(s) < Ahead(lane.step)
      PROVE  Rank(lane') < Rank(lane)
  <2>1. lane'.step = s /\ lane'.attempt = lane.attempt /\ lane'.deadline = lane.deadline
    BY <1>1 DEF Lanes
  <2> QED BY <1>1, <2>1, Closer
<1>2. CASE Begin
  <2>1. lane.step = "start"
        /\ \E s \in {"check", "intend"} : lane' = [lane EXCEPT !.step = s]
    BY <1>2, FinishEnds DEF Begin, At, GoTo
  <2> QED BY <1>1, <2>1, AheadOf
<1>3. CASE Check
  <2>1. lane.step = "check"
        /\ \E s \in {"recheck", "intend"} : \E seen :
              lane' = [lane EXCEPT !.step = s, !.seen = seen]
    BY <1>3, RefuseEnds DEF Check, At
  <2>2. PICK s \in {"recheck", "intend"} :
            \E seen : lane' = [lane EXCEPT !.step = s, !.seen = seen]
    BY <2>1
  <2>3. lane'.step = s /\ lane'.attempt = lane.attempt /\ lane'.deadline = lane.deadline
    BY <2>2 DEF Lanes
  <2>4. Ahead(lane'.step) < Ahead(lane.step)
    BY <2>1, <2>3, AheadOf
  <2> QED BY <2>3, <2>4, Closer
<1>4. CASE Recheck
  <2>1. lane.step = "recheck" /\ lane' = [lane EXCEPT !.step = "intend"]
    BY <1>4, RefuseEnds DEF Recheck, At, GoTo
  <2> QED BY <1>1, <2>1, AheadOf
<1>5. CASE Intend
  <2>1. lane.step = "intend"
    BY <1>5 DEF Intend, At
  <2>2. \E s \in {"guard", "post"} : \E rec : lane' = [lane EXCEPT !.rec = rec, !.step = s]
    <3>1. PICK effect : Remember(effect)
      BY <1>5, FinishEnds DEF Intend
    <3> DEFINE rec == [lane.rec EXCEPT !.effect = effect]
    <3>2. PICK outcome \in {"Ok", "Storage"} :
              IF Remembered(outcome)
              THEN lane' = [lane EXCEPT !.rec = rec, !.step = StepAfterIntent(lane.task)]
              ELSE PersistenceFailed(lane.task)
      BY <3>1 DEF Remember
    <3>3. ~PersistenceFailed(lane.task)
      BY DEF PersistenceFailed, Reply, Idle, Busy
    <3>4. lane' = [lane EXCEPT !.rec = rec, !.step = StepAfterIntent(lane.task)]
      BY <3>2, <3>3
    <3>5. PICK s \in {"guard", "post"} : s = StepAfterIntent(lane.task)
      BY DEF StepAfterIntent
    <3> HIDE DEF rec
    <3>6. lane' = [lane EXCEPT !.rec = rec, !.step = s]
      BY <3>4, <3>5
    <3> QED BY <3>6
  <2>3. PICK s \in {"guard", "post"} : \E rec : lane' = [lane EXCEPT !.rec = rec, !.step = s]
    BY <2>2
  <2>4. lane'.step = s /\ lane'.attempt = lane.attempt /\ lane'.deadline = lane.deadline
    BY <2>3 DEF Lanes
  <2>5. Ahead(lane'.step) < Ahead(lane.step)
    BY <2>1, <2>4, AheadOf
  <2> QED BY <2>4, <2>5, Closer
<1>6. ASSUME NEW at \in {"guard", "guardAgain"}, Guard(at)
      PROVE  Rank(lane') < Rank(lane)
  <2>1. lane.step = at
    BY <1>6 DEF Guard, At
  <2>2. Abandon \/ \E s, position :
            /\ lane' = [lane EXCEPT !.step = s, !.position = position]
            /\ s = "post" \/ (s = "guardAgain" /\ at = "guard")
    BY <1>6, FinishEnds DEF Guard
  <2>3. CASE Abandon
    BY <1>6, <2>1, <2>3, AheadOf, AbandonAdvances
  <2>4. ASSUME NEW s, NEW position,
               lane' = [lane EXCEPT !.step = s, !.position = position],
               s = "post" \/ (s = "guardAgain" /\ at = "guard")
        PROVE  Rank(lane') < Rank(lane)
    <3>1. lane'.step = s /\ lane'.attempt = lane.attempt /\ lane'.deadline = lane.deadline
      BY <2>4 DEF Lanes
    <3>2. Ahead(lane'.step) < Ahead(lane.step)
      BY <1>6, <2>1, <2>4, <3>1, AheadOf
    <3> QED BY <3>1, <3>2, Closer
  <2> QED BY <2>2, <2>3, <2>4
<1>7. CASE Post
  <2>1. lane.step = "post" /\ lane' = [lane EXCEPT !.step = "await"]
    BY <1>7 DEF Post, At, GoTo
  <2> QED BY <1>1, <2>1, AheadOf
<1>8. CASE PostSkipped
  <2>1. lane.step = "post" /\ Abandon
    BY <1>8 DEF PostSkipped, At
  <2> QED BY <2>1, AheadOf, AbandonAdvances
<1>9. CASE Await
  <2>1. lane.step = "await"
        /\ \E s \in {"reconcile", "conclude"} : lane' = [lane EXCEPT !.step = s]
    BY <1>9, FinishEnds DEF Await, At, GoTo, FirstReading
  <2> QED BY <1>1, <2>1, AheadOf
<1>10. CASE Reconcile
  <2>1. lane.step = "reconcile"
    BY <1>10 DEF Reconcile, At
  <2>2. CASE NotConfirmed
    BY <2>1, <2>2, NotConfirmedAdvances
  <2>3. CASE lane' = [lane EXCEPT !.step = "conclude", !.seen = sunshine]
    <3>1. lane'.step = "conclude" /\ lane'.attempt = lane.attempt
          /\ lane'.deadline = lane.deadline
      BY <2>3 DEF Lanes
    <3> QED BY <2>1, <3>1, AheadOf, Closer
  <2> QED BY <1>10, <2>2, <2>3 DEF Reconcile
<1>11. CASE Conclude
  <2>1. lane.step = "conclude" /\ NotConfirmed
    BY <1>11, FinishEnds DEF Conclude, At
  <2> QED BY <2>1, NotConfirmedAdvances
<1> QED BY <1>2, <1>3, <1>4, <1>5, <1>6, <1>7, <1>8, <1>9, <1>10, <1>11 DEF Step

(* A delivery comes closer to its end with every move of the lane: the     *)
(* checks, guards and readings of a command follow one another, and a      *)
(* restart is looked for a limited number of times.                        *)
THEOREM DeliveriesAdvance == Spec => DeliveryAdvances
<1>1. Inv /\ [Next]_vars => [Busy /\ Busy' => Rank(lane') < Rank(lane)]_lane
  <2> SUFFICES ASSUME Inv, [Next]_vars, lane' # lane, Busy, Busy'
               PROVE  Rank(lane') < Rank(lane)
    OBVIOUS
  <2>0. lane \in Lanes
    BY DEF Inv, Safe
  <2>1. CASE Step
    BY <2>0, <2>1, StepAdvances
  <2>2. CASE Expire
    <3>1. lane.deadline = "running" /\ lane' = [lane EXCEPT !.deadline = "expired"]
      BY <2>2 DEF Expire
    <3>2. /\ lane'.step = lane.step /\ lane'.attempt = lane.attempt
          /\ lane'.deadline = "expired"
      BY <2>0, <3>1 DEF Lanes
    <3>3. Ahead(lane.step) \in Int /\ AttemptsLeft(lane.attempt) \in Int
      <4>1. Ahead(lane.step) \in Int
        BY <2>0, AheadOf DEF Lanes, Steps
      <4>2. AttemptsLeft(lane.attempt) \in Int
        BY <2>0, AttemptsLeftBound, ExecutorAssumption DEF Lanes
      <4> QED BY <4>1, <4>2
    <3>4. PICK n \in Int, left \in Int :
              n = Ahead(lane.step) /\ left = AttemptsLeft(lane.attempt)
      BY <3>3
    <3>5. Rank(lane) = n + 2 * left + 1 /\ Rank(lane') = n + 2 * left + 0
      BY <3>1, <3>2, <3>4 DEF Rank
    <3> QED BY <3>5
  <2>3. CASE Timeout
    BY <2>3, FinishEnds DEF Timeout
  <2>4. CASE Crash
    BY <2>4 DEF Crash, Idle, Busy
  <2>5. ~(\E task \in Tasks, mode \in {"Execute", "InspectOnly"} : Deliver(task, mode))
    BY DEF Deliver
  <2>6. UNCHANGED vars \/ Open \/ Edit
        \/ (\E task \in Tasks, report \in Reports, finalized \in BOOLEAN :
               Acknowledge(task, report, finalized))
        \/ (\E request \in flight : Land(request) \/ Lose(request)) => lane' = lane
    BY DEF vars, Open, Edit, World, Acknowledge, Land, Lose
  <2> QED BY <2>1, <2>2, <2>3, <2>4, <2>5, <2>6 DEF Next
<1> QED BY <1>1, Invariance, PTL DEF Spec, DeliveryAdvances

(* And it has no more of them than this, from any state.                   *)
THEOREM DeliveriesAreBounded == Spec => []DeliveryIsBounded
<1>1. Inv => DeliveryIsBounded
  <2> SUFFICES ASSUME Inv PROVE DeliveryIsBounded
    OBVIOUS
  <2>1. lane \in Lanes
    BY DEF Inv, Safe
  <2>2. Ahead(lane.step) \in 0..10
    BY <2>1, AheadOf DEF Lanes, Steps
  <2>3. AttemptsLeft(lane.attempt) \in 0..RestartAttempts /\ RestartAttempts \in Nat
    BY <2>1, AttemptsLeftBound, ExecutorAssumption DEF Lanes
  <2> QED BY <2>2, <2>3 DEF DeliveryIsBounded, Rank
<1> QED BY <1>1, Invariance, PTL

-----------------------------------------------------------------------------
(* Applications are edited by position *)

AppCommands == {"SaveApplication", "DeleteApplication"}

AppIntent(task) == Intent(task, None, None)

Listed(apps) == {apps[i] : i \in DOMAIN apps}

(* What the Manager asked for, said of the set of applications: the target *)
(* is replaced or deleted, or a new one is added, and all others stay.     *)
AsAsked(task, before, after) ==
    /\ ~Ambiguous(after)
    /\ Listed(after) = (Listed(before) \ {task.target})
                       \union (IF task.command = "SaveApplication" THEN {task.value} ELSE {})

(* Counting tells whether an application is in an unambiguous list. *)
LEMMA UnambiguousCount ==
    ASSUME NEW apps \in Seq(AppRefs), ~Ambiguous(apps), NEW ref
    PROVE  Occurrences(apps, ref) = IF ref \in Listed(apps) THEN 1 ELSE 0
<1> DEFINE places == {i \in DOMAIN apps : apps[i] = ref}
<1>1. Occurrences(apps, ref) = Cardinality(places)
  BY DEF Occurrences
<1>2. CASE ref \in Listed(apps)
  <2>1. PICK i \in DOMAIN apps : apps[i] = ref
    BY <1>2 DEF Listed
  <2>2. places = {i}
    BY <2>1 DEF Ambiguous
  <2> QED BY <1>1, <1>2, <2>2, FS_Singleton
<1>3. CASE ref \notin Listed(apps)
  <2>1. places = {}
    BY <1>3 DEF Listed
  <2> QED BY <1>1, <1>3, <2>1, FS_EmptySet
<1> QED BY <1>2, <1>3

LEMMA FoundMeans ==
    ASSUME NEW apps \in Seq(AppRefs), ~Ambiguous(apps), NEW target \in AppRefs,
           TargetFound(apps, target)
    PROVE  LET p == CHOOSE i \in DOMAIN apps : apps[i] = target IN
           /\ p \in 1..Len(apps) /\ apps[p] = target
           /\ \A i \in DOMAIN apps : apps[i] = target => i = p
<1>1. Occurrences(apps, target) = 1
  BY TaskAssumption DEF TargetFound
<1>2. \E i \in DOMAIN apps : apps[i] = target
  BY <1>1, OccurrencesMeans
<1>3. DOMAIN apps = 1..Len(apps)
  BY LenProperties
<1> QED BY <1>2, <1>3 DEF Ambiguous

LEMMA AppendedList ==
    ASSUME NEW apps \in Seq(AppRefs), ~Ambiguous(apps), NEW ref \in AppRefs,
           ref \notin Listed(apps)
    PROVE  LET after == Append(apps, ref) IN
           /\ after \in Seq(AppRefs) /\ ~Ambiguous(after)
           /\ Listed(after) = Listed(apps) \union {ref}
<1> DEFINE after == Append(apps, ref)
           n == Len(apps)
<1>1. /\ after \in Seq(AppRefs) /\ n \in Nat
      /\ DOMAIN apps = 1..n /\ DOMAIN after = 1..(n + 1)
      /\ after[n + 1] = ref /\ \A i \in 1..n : after[i] = apps[i]
  BY AppendProperties, LenProperties
<1> HIDE DEF after, n
<1>2. \A i \in 1..(n + 1) : i \in 1..n \/ i = n + 1
  BY <1>1
<1>5. \A i \in 1..n : i \in 1..(n + 1) /\ n + 1 \in 1..(n + 1)
  BY <1>1
<1>6. n + 1 \in 1..(n + 1)
  BY <1>1
<1>3. Listed(after) = Listed(apps) \union {ref}
  <2>1. ASSUME NEW x \in Listed(after) PROVE x \in Listed(apps) \union {ref}
    BY <1>1, <1>2, <2>1 DEF Listed
  <2>2. ASSUME NEW x \in Listed(apps) PROVE x \in Listed(after)
    BY <1>1, <1>5, <2>2 DEF Listed
  <2>3. ref \in Listed(after)
    BY <1>1, <1>6 DEF Listed
  <2> QED BY <2>1, <2>2, <2>3
<1>4. ~Ambiguous(after)
  <2> SUFFICES ASSUME NEW i \in DOMAIN after, NEW j \in DOMAIN after, i # j,
                      after[i] = after[j]
               PROVE  FALSE
    BY DEF Ambiguous
  <2>1. \A k \in 1..n : apps[k] # ref
    BY <1>1 DEF Listed
  <2>2. i \in 1..n /\ j \in 1..n
    BY <1>1, <1>2, <2>1
  <2> QED BY <1>1, <2>2 DEF Ambiguous
<1> QED BY <1>1, <1>3, <1>4 DEF after

LEMMA ReplacedInList ==
    ASSUME NEW apps \in Seq(AppRefs), ~Ambiguous(apps), NEW ref \in AppRefs,
           NEW p \in 1..Len(apps), ref = apps[p] \/ ref \notin Listed(apps)
    PROVE  LET after == [apps EXCEPT ![p] = ref] IN
           /\ after \in Seq(AppRefs) /\ ~Ambiguous(after)
           /\ Listed(after) = (Listed(apps) \ {apps[p]}) \union {ref}
<1> DEFINE after == [apps EXCEPT ![p] = ref]
<1>1. /\ after \in Seq(AppRefs) /\ DOMAIN apps = 1..Len(apps) /\ DOMAIN after = 1..Len(apps)
      /\ after[p] = ref /\ \A i \in 1..Len(apps) : i # p => after[i] = apps[i]
  BY LenProperties, ExceptSeq
<1> HIDE DEF after
<1>2. \A i \in 1..Len(apps) : i # p => apps[i] # apps[p]
  BY <1>1 DEF Ambiguous
<1>3. \A i \in 1..Len(apps) : i # p => apps[i] # ref
  BY <1>1, <1>2 DEF Listed
<1>4. ~Ambiguous(after)
  <2> SUFFICES ASSUME NEW i \in 1..Len(apps), NEW j \in 1..Len(apps), i # j,
                      after[i] = after[j]
               PROVE  FALSE
    BY <1>1 DEF Ambiguous
  <2>1. i # p /\ j # p
    BY <1>1, <1>3
  <2> QED BY <1>1, <2>1 DEF Ambiguous
<1>5. Listed(after) = (Listed(apps) \ {apps[p]}) \union {ref}
  <2>1. ASSUME NEW x \in Listed(after) PROVE x \in (Listed(apps) \ {apps[p]}) \union {ref}
    BY <1>1, <1>2, <2>1 DEF Listed
  <2>2. ASSUME NEW x \in Listed(apps), x # apps[p] PROVE x \in Listed(after)
    BY <1>1, <2>2 DEF Listed
  <2>3. ref \in Listed(after)
    BY <1>1 DEF Listed
  <2> QED BY <2>1, <2>2, <2>3
<1> QED BY <1>1, <1>4, <1>5 DEF after

LEMMA RemovedFromList ==
    ASSUME NEW apps \in Seq(AppRefs), ~Ambiguous(apps), NEW p \in 1..Len(apps)
    PROVE  LET after == SubSeq(apps, 1, p - 1) \o SubSeq(apps, p + 1, Len(apps)) IN
           /\ after \in Seq(AppRefs) /\ ~Ambiguous(after)
           /\ Listed(after) = Listed(apps) \ {apps[p]}
<1> DEFINE front == SubSeq(apps, 1, p - 1)
           back == SubSeq(apps, p + 1, Len(apps))
           after == front \o back
           n == Len(apps)
<1>1. n \in Nat /\ DOMAIN apps = 1..n /\ p \in Nat /\ 1 <= p /\ p <= n
  BY LenProperties
<1>2. \A i \in 1..n : apps[i] \in AppRefs
  BY <1>1, ElementOfSeq
<1>3. /\ front \in Seq(AppRefs) /\ Len(front) = p - 1
      /\ \A i \in 1..(p - 1) : front[i] = apps[i]
  <2>1. /\ front \in Seq(AppRefs)
        /\ Len(front) = IF 1 <= p - 1 THEN (p - 1) - 1 + 1 ELSE 0
        /\ \A i \in 1..((p - 1) - 1 + 1) : front[i] = apps[1 + i - 1]
    BY <1>1, <1>2, SubSeqProperties
  <2> HIDE DEF front
  <2>2. Len(front) = p - 1 /\ (p - 1) - 1 + 1 = p - 1
    BY <1>1, <2>1
  <2>3. \A i \in 1..(p - 1) : 1 + i - 1 = i
    BY <1>1
  <2> QED BY <2>1, <2>2, <2>3
<1>4. /\ back \in Seq(AppRefs) /\ Len(back) = n - p
      /\ \A i \in 1..(n - p) : back[i] = apps[p + i]
  <2>1. /\ back \in Seq(AppRefs)
        /\ Len(back) = IF p + 1 <= n THEN n - (p + 1) + 1 ELSE 0
        /\ \A i \in 1..(n - (p + 1) + 1) : back[i] = apps[(p + 1) + i - 1]
    BY <1>1, <1>2, SubSeqProperties
  <2> HIDE DEF back, n
  <2>2. Len(back) = n - p /\ n - (p + 1) + 1 = n - p
    BY <1>1, <2>1
  <2>3. \A i \in 1..(n - p) : (p + 1) + i - 1 = p + i
    BY <1>1
  <2> QED BY <2>1, <2>2, <2>3
<1> HIDE DEF front, back, n
<1>5. /\ after \in Seq(AppRefs) /\ DOMAIN after = 1..(n - 1)
      /\ \A i \in 1..(n - 1) : after[i] = IF i <= p - 1 THEN front[i] ELSE back[i - (p - 1)]
  <2>1. /\ after \in Seq(AppRefs) /\ Len(after) = Len(front) + Len(back)
        /\ \A i \in 1..(Len(front) + Len(back)) :
              after[i] = IF i <= Len(front) THEN front[i] ELSE back[i - Len(front)]
    BY <1>3, <1>4, ConcatProperties
  <2>2. (p - 1) + (n - p) = n - 1
    BY <1>1
  <2>3. DOMAIN after = 1..Len(after)
    BY <2>1, LenProperties
  <2> QED BY <1>3, <1>4, <2>1, <2>2, <2>3
<1> HIDE DEF after
(* The places of the list without the p-th. *)
<1> DEFINE old(i) == IF i < p THEN i ELSE i + 1
<1>6. ASSUME NEW i \in 1..(n - 1) PROVE after[i] = apps[old(i)]
  <2>1. CASE i < p
    <3>1. i <= p - 1 /\ i \in 1..(p - 1)
      BY <1>1, <2>1
    <3> QED BY <1>3, <1>5, <2>1, <3>1
  <2>2. CASE ~(i < p)
    <3>1. ~(i <= p - 1) /\ i - (p - 1) \in 1..(n - p) /\ p + (i - (p - 1)) = i + 1
      BY <1>1, <2>2
    <3> QED BY <1>4, <1>5, <2>2, <3>1
  <2> QED BY <2>1, <2>2
<1>7. \A i \in 1..(n - 1) : old(i) \in 1..n /\ old(i) # p
  BY <1>1
<1>8. \A i, j \in 1..(n - 1) : old(i) = old(j) => i = j
  BY <1>1
<1>9. ASSUME NEW k \in 1..n, k # p PROVE \E i \in 1..(n - 1) : old(i) = k
  <2>1. CASE k < p
    BY <1>1, <2>1
  <2>2. CASE k > p
    <3>1. k - 1 \in 1..(n - 1) /\ old(k - 1) = k
      BY <1>1, <2>2
    <3> QED BY <3>1
  <2> QED BY <1>1, <1>9, <2>1, <2>2
<1> HIDE DEF old
<1>10. ~Ambiguous(after)
  <2> SUFFICES ASSUME NEW i \in 1..(n - 1), NEW j \in 1..(n - 1), i # j,
                      after[i] = after[j]
               PROVE  FALSE
    BY <1>5 DEF Ambiguous
  <2>1. old(i) \in DOMAIN apps /\ old(j) \in DOMAIN apps /\ old(i) # old(j)
    BY <1>1, <1>7, <1>8
  <2> QED BY <1>6, <2>1 DEF Ambiguous
<1>11. Listed(after) = Listed(apps) \ {apps[p]}
  <2>1. \A k \in 1..n : k # p => apps[k] # apps[p]
    BY <1>1 DEF Ambiguous
  <2>2. ASSUME NEW i \in 1..(n - 1) PROVE after[i] \in Listed(apps) \ {apps[p]}
    BY <1>1, <1>6, <1>7, <2>1 DEF Listed
  <2>3. ASSUME NEW k \in 1..n, k # p PROVE apps[k] \in Listed(after)
    <3>1. PICK i \in 1..(n - 1) : old(i) = k
      BY <1>9, <2>3
    <3>2. after[i] = apps[k]
      BY <1>6, <3>1
    <3> QED BY <1>5, <3>2 DEF Listed
  <2>4. ASSUME NEW x \in Listed(apps) \ {apps[p]} PROVE x \in Listed(after)
    <3>1. PICK k \in 1..n : x = apps[k]
      BY <1>1 DEF Listed
    <3> QED BY <2>3, <2>4, <3>1
  <2>5. ASSUME NEW x \in Listed(after) PROVE x \in Listed(apps) \ {apps[p]}
    <3>1. PICK i \in 1..(n - 1) : x = after[i]
      BY <1>5 DEF Listed
    <3> QED BY <2>2, <3>1
  <2> QED BY <2>4, <2>5
<1> QED BY <1>5, <1>10, <1>11 DEF after, front, back, n

(* A request that reaches the list it was aimed at does what was asked,    *)
(* and the readback accepts it.                                            *)
LEMMA UndisturbedEdit ==
    ASSUME NEW task \in Tasks, task.command \in AppCommands,
           NEW world \in WorldStates, GuardHolds(task, world)
    PROVE  LET after == Apply(AppIntent(task), Position(task, world), world) IN
           /\ AsAsked(task, world.apps, after.apps)
           /\ Confirmed(AppIntent(task), after, after, None)
<1> DEFINE apps == world.apps
           effect == AppIntent(task)
           after == Apply(effect, Position(task, world), world)
           p == CHOOSE i \in DOMAIN apps : apps[i] = task.target
<1>1. /\ apps \in Seq(AppRefs) /\ ~Ambiguous(apps) /\ TargetFound(apps, task.target)
      /\ world = [world EXCEPT !.apps = apps]
      /\ task.command = "SaveApplication" => ~SaveConflicts(apps, task.target, task.value)
  BY DEF GuardHolds, AppCommands, WorldStates
<1>2. WellFormed(task) /\ None \notin AppRefs
  BY TaskAssumption
<1>3. CASE task.command = "SaveApplication" /\ task.target = None
  <2>1. task.value \in AppRefs /\ task.value # task.target
    BY <1>2, <1>3 DEF WellFormed
  <2>2. ~(Occurrences(apps, task.value) > 0)
    BY <1>1, <1>3, <2>1 DEF SaveConflicts
  <2>3. task.value \notin Listed(apps)
    BY <1>1, <2>2, UnambiguousCount
  <2>4. effect = Effect("SaveApplication", task.value, None)
    BY <1>3 DEF AppIntent, Intent
  <2>5. Position(task, world) = 0
    BY <1>3 DEF Position
  <2>6. after.apps = Append(apps, task.value)
    BY <2>4, <2>5 DEF Apply, Effect, WorldStates
  <2> HIDE DEF apps, effect, after
  <2>7. /\ after.apps \in Seq(AppRefs) /\ ~Ambiguous(after.apps)
        /\ Listed(after.apps) = Listed(apps) \union {task.value}
    BY <1>1, <2>1, <2>3, <2>6, AppendedList
  <2>8. Occurrences(after.apps, task.value) = 1
    BY <2>7, UnambiguousCount
  <2>9. Confirmed(effect, after, after, None)
    BY <2>4, <2>7, <2>8 DEF Confirmed, Effect
  <2>10. task.target \notin Listed(apps)
    <3>1. DOMAIN apps = 1..Len(apps) /\ \A i \in 1..Len(apps) : apps[i] \in AppRefs
      BY <1>1, LenProperties, ElementOfSeq
    <3> QED BY <1>2, <1>3, <3>1 DEF Listed
  <2> QED BY <1>3, <2>7, <2>9, <2>10 DEF AsAsked, apps, after, effect
<1>4. CASE task.command = "SaveApplication" /\ task.target # None
  <2>1. task.value \in AppRefs /\ task.target \in AppRefs
    BY <1>2, <1>4 DEF WellFormed
  <2>2. /\ p \in 1..Len(apps) /\ apps[p] = task.target
    BY <1>1, <2>1, FoundMeans
  <2>3. task.value = task.target \/ task.value \notin Listed(apps)
    <3>1. task.value = task.target \/ ~(Occurrences(apps, task.value) > 0)
      BY <1>1, <1>4 DEF SaveConflicts
    <3> QED BY <1>1, <3>1, UnambiguousCount
  <2>4. effect = Effect("SaveApplication", task.value, task.target)
    BY <1>4 DEF AppIntent, Intent
  <2>5. Position(task, world) = p
    BY <1>4 DEF Position, Guarded
  <2>6. after.apps = [apps EXCEPT ![p] = task.value]
    <3> HIDE DEF p
    <3>1. p # 0 /\ p \in DOMAIN world.apps
      <4>1. DOMAIN apps = 1..Len(apps) /\ Len(apps) \in Nat
        BY <1>1, LenProperties
      <4> QED BY <2>2, <4>1
    <3>2. after = [world EXCEPT !.apps[p] = task.value]
      BY <2>4, <2>5, <3>1 DEF Apply, Effect
    <3> QED BY <3>2 DEF WorldStates
  <2> HIDE DEF apps, effect, after, p
  <2>7. /\ after.apps \in Seq(AppRefs) /\ ~Ambiguous(after.apps)
        /\ Listed(after.apps) = (Listed(apps) \ {task.target}) \union {task.value}
    <3>1. task.value = apps[p] \/ task.value \notin Listed(apps)
      BY <2>2, <2>3
    <3> DEFINE list == [apps EXCEPT ![p] = task.value]
    <3>2. /\ list \in Seq(AppRefs) /\ ~Ambiguous(list)
          /\ Listed(list) = (Listed(apps) \ {apps[p]}) \union {task.value}
      BY <1>1, <2>1, <2>2, <3>1, ReplacedInList
    <3> HIDE DEF list
    <3> QED BY <2>2, <2>6, <3>2 DEF list
  <2>8. Occurrences(after.apps, task.value) = 1
    BY <2>7, UnambiguousCount
  <2>9. task.target = task.value \/ Occurrences(after.apps, task.target) = 0
    BY <2>7, UnambiguousCount
  <2>10. Confirmed(effect, after, after, None)
    BY <2>4, <2>7, <2>8, <2>9 DEF Confirmed, Effect
  <2> QED BY <1>4, <2>7, <2>10 DEF AsAsked, apps, after, effect
<1>5. CASE task.command = "DeleteApplication"
  <2>1. task.target \in AppRefs
    BY <1>2, <1>5 DEF WellFormed
  <2>2. p \in 1..Len(apps) /\ apps[p] = task.target
    BY <1>1, <2>1, FoundMeans
  <2>3. effect = Effect("DeleteApplication", task.target, None)
    BY <1>5 DEF AppIntent, Intent
  <2>4. Position(task, world) = p
    BY <1>2, <1>5, <2>1 DEF Position, Guarded
  <2>5. after.apps = SubSeq(apps, 1, p - 1) \o SubSeq(apps, p + 1, Len(apps))
    <3>1. p \in DOMAIN world.apps
      BY <1>1, <2>2, LenProperties
    <3> HIDE DEF p
    <3>2. after = [world EXCEPT !.apps =
                      SubSeq(@, 1, p - 1) \o SubSeq(@, p + 1, Len(@))]
      BY <2>3, <2>4, <3>1 DEF Apply, Effect
    <3> QED BY <3>2 DEF WorldStates
  <2> HIDE DEF apps, effect, after, p
  <2>6. /\ after.apps \in Seq(AppRefs) /\ ~Ambiguous(after.apps)
        /\ Listed(after.apps) = Listed(apps) \ {task.target}
    BY <1>1, <2>2, <2>5, RemovedFromList
  <2>7. Occurrences(after.apps, task.target) = 0
    BY <2>6, UnambiguousCount
  <2>8. Confirmed(effect, after, after, None)
    BY <2>3, <2>6, <2>7 DEF Confirmed, Effect
  <2> QED BY <1>5, <2>6, <2>8 DEF AsAsked, apps, after, effect
<1> QED BY <1>3, <1>4, <1>5 DEF AppCommands

(* Every request about applications goes out with the intent of its task,  *)
(* and was aimed at a list that the task expects.                          *)
OnTarget(task, position) ==
    \E world \in WorldStates : GuardHolds(task, world) /\ position = Position(task, world)

Aimed ==
    /\ lane.step \in {"guard", "guardAgain", "post"} =>
          (lane.task.command \in AppCommands => lane.rec.effect = AppIntent(lane.task))
    /\ lane.step = "post" =>
          (lane.task.command \in AppCommands => OnTarget(lane.task, lane.position))
    /\ \A r \in flight :
          r.task.command \in AppCommands =>
              r.effect = AppIntent(r.task) /\ OnTarget(r.task, r.position)

(* What lands on the list it was aimed at replaces, deletes or adds the    *)
(* one application it is about, and would be recognised at once.           *)
EditsAreExact ==
    [][\A r \in flight :
          Land(r) /\ r.task.command \in AppCommands /\ sunshine.apps = r.task.expected =>
              /\ AsAsked(r.task, sunshine.apps, sunshine'.apps)
              /\ Confirmed(r.effect, sunshine', sunshine', None)]_vars

LEMMA ElsewhereAimed ==
    ASSUME Aimed, flight' \subseteq flight,
           \/ lane' = lane
           \/ lane'.step \notin {"guard", "guardAgain", "post"}
    PROVE  Aimed'
BY DEF Aimed

LEMMA FinishAimed ==
    ASSUME Aimed, UNCHANGED flight, NEW report, Finish(report)
    PROVE  Aimed'
<1>1. lane'.step = "idle"
  BY FinishEnds DEF Busy
<1> QED BY <1>1, ElsewhereAimed

LEMMA AbandonAimed ==
    ASSUME Inv, Aimed, UNCHANGED flight, Abandon
    PROVE  Aimed'
<1>1. CASE lane.rec.effect.kind = "Unobservable"
  BY <1>1, FinishAimed DEF Abandon
<1>2. CASE lane.rec.effect.kind # "Unobservable"
  <2>1. lane' = [lane EXCEPT !.step = FirstReading(lane.rec.effect)] /\ lane \in Lanes
    BY <1>2 DEF Abandon, GoTo, Inv, Safe
  <2>2. lane'.step \in {"reconcile", "conclude"}
    BY <2>1 DEF Lanes, FirstReading
  <2> QED BY <2>2, ElsewhereAimed
<1> QED BY <1>1, <1>2

LEMMA NotConfirmedAimed ==
    ASSUME Inv, Aimed, UNCHANGED flight, NotConfirmed
    PROVE  Aimed'
<1>1. CASE Retrying
  <2>1. lane'.step = "reconcile"
    BY <1>1 DEF NotConfirmed, Inv, Safe, Lanes
  <2> QED BY <2>1, ElsewhereAimed
<1>2. CASE ~Retrying
  BY <1>2, FinishAimed DEF NotConfirmed
<1> QED BY <1>1, <1>2

LEMMA EarlyAimed == Inv /\ Aimed /\ (Begin \/ Check \/ Recheck) => Aimed'
<1> SUFFICES ASSUME Inv, Aimed, Begin \/ Check \/ Recheck PROVE Aimed'
  OBVIOUS
<1>1. flight' = flight /\ lane \in Lanes
  BY DEF Begin, Check, Recheck, worldVars, Inv, Safe
<1>2. ~Busy' \/ lane'.step \in {"check", "recheck", "intend"}
  BY <1>1, FinishEnds, RefuseEnds DEF Begin, Check, Recheck, GoTo, Lanes
<1> QED BY <1>1, <1>2, ElsewhereAimed DEF Busy

LEMMA IntendAimed == Inv /\ Aimed /\ Intend => Aimed'
<1> SUFFICES ASSUME Inv, Aimed, Intend PROVE Aimed'
  OBVIOUS
<1>1. flight' = flight /\ lane \in Lanes
  BY DEF Intend, worldVars, Inv, Safe
<1>2. CASE ~Busy'
  BY <1>1, <1>2, ElsewhereAimed DEF Busy
<1>3. CASE Busy'
  <2>1. PICK generation : Remember(Intent(lane.task, lane.seen, generation))
    BY <1>3, FinishEnds DEF Intend
  <2> DEFINE rec == [lane.rec EXCEPT !.effect = Intent(lane.task, lane.seen, generation)]
  <2>2. PICK outcome \in {"Ok", "Storage"} :
            IF Remembered(outcome)
            THEN lane' = [lane EXCEPT !.rec = rec, !.step = StepAfterIntent(lane.task)]
            ELSE PersistenceFailed(lane.task)
    BY <2>1 DEF Remember
  <2>3. ~PersistenceFailed(lane.task)
    BY <1>3 DEF PersistenceFailed, Reply, Idle, Busy
  <2>4. lane' = [lane EXCEPT !.rec = rec, !.step = StepAfterIntent(lane.task)]
    BY <2>2, <2>3
  <2>5. /\ lane'.rec = rec /\ lane'.step = StepAfterIntent(lane.task)
        /\ lane'.task = lane.task
    BY <1>1, <2>4 DEF Lanes
  <2>6. lane.rec \in TaskRecord
    BY DEF Inv, Safe, LaneSafe, Intend, At
  <2>7. rec.effect = Intent(lane.task, lane.seen, generation)
    BY <2>6 DEF TaskRecord, Record
  <2>8. ASSUME lane.task.command \in AppCommands
        PROVE  rec.effect = AppIntent(lane.task) /\ lane'.step = "guard"
    BY <2>5, <2>7, <2>8 DEF AppCommands, AppIntent, Intent, StepAfterIntent, Guarded
  <2> QED BY <1>1, <2>5, <2>8 DEF Aimed
<1> QED BY <1>2, <1>3

LEMMA GuardAimed ==
    ASSUME Inv, Aimed, NEW step \in {"guard", "guardAgain"}, Guard(step)
    PROVE  Aimed'
<1>1. flight' = flight /\ lane.step = step /\ lane \in Lanes
  BY DEF Guard, At, worldVars, Inv, Safe
<1>2. CASE /\ GuardPasses(lane.task, sunshine)
           /\ lane' = [lane EXCEPT
                 !.step = IF step = "guard" /\ GuardedTwice(lane.task)
                          THEN "guardAgain" ELSE "post",
                 !.position = Position(lane.task, sunshine)]
  <2>1. /\ lane'.task = lane.task /\ lane'.rec = lane.rec
        /\ lane'.position = Position(lane.task, sunshine)
    BY <1>1, <1>2 DEF Lanes
  <2>2. OnTarget(lane.task, lane'.position)
    BY <1>2, <2>1 DEF OnTarget, GuardPasses, Inv, Worldly
  <2> QED BY <1>1, <2>1, <2>2 DEF Aimed
<1>3. CASE Finish("Rejected.ResourceConflict")
  BY <1>1, <1>3, FinishAimed
<1>4. CASE Abandon
  BY <1>1, <1>4, AbandonAimed
<1> QED BY <1>2, <1>3, <1>4 DEF Guard

LEMMA PostAimed == Inv /\ Aimed /\ Post => Aimed'
<1> SUFFICES ASSUME Inv, Aimed, Post PROVE Aimed'
  OBVIOUS
<1> DEFINE request ==
        [task |-> lane.task, effect |-> lane.rec.effect, position |-> lane.position]
<1>1. /\ lane.step = "post" /\ lane' = [lane EXCEPT !.step = "await"]
      /\ flight' = flight \union {request} /\ lane \in Lanes
  BY DEF Post, At, GoTo, Inv, Safe
<1>2. lane'.step = "await"
  BY <1>1 DEF Lanes
<1>3. request.task.command \in AppCommands =>
          request.effect = AppIntent(request.task) /\ OnTarget(request.task, request.position)
  BY <1>1 DEF Aimed
<1> HIDE DEF request
<1>4. \A r \in flight' : r \in flight \/ r = request
  BY <1>1
<1> QED BY <1>2, <1>3, <1>4 DEF Aimed

LEMMA LateAimed == Inv /\ Aimed /\ (PostSkipped \/ Await \/ Reconcile \/ Conclude) => Aimed'
<1> SUFFICES ASSUME Inv, Aimed, PostSkipped \/ Await \/ Reconcile \/ Conclude PROVE Aimed'
  OBVIOUS
<1>1. flight' = flight /\ lane \in Lanes
  BY DEF PostSkipped, Await, Reconcile, Conclude, worldVars, Inv, Safe
<1>2. CASE PostSkipped
  BY <1>1, <1>2, AbandonAimed DEF PostSkipped
<1>3. CASE Await
  <2>1. ~Busy' \/ lane'.step \in {"reconcile", "conclude"}
    BY <1>1, <1>3, FinishEnds DEF Await, GoTo, FirstReading, Lanes
  <2> QED BY <1>1, <2>1, ElsewhereAimed DEF Busy
<1>4. CASE Reconcile
  <2>1. NotConfirmed \/ lane'.step = "conclude"
    BY <1>1, <1>4 DEF Reconcile, Lanes
  <2> QED BY <1>1, <2>1, ElsewhereAimed, NotConfirmedAimed
<1>5. CASE Conclude
  <2>1. NotConfirmed \/ ~Busy'
    BY <1>5, FinishEnds DEF Conclude
  <2> QED BY <1>1, <2>1, ElsewhereAimed, NotConfirmedAimed DEF Busy
<1> QED BY <1>2, <1>3, <1>4, <1>5

LEMMA NextAimed == Inv /\ Aimed /\ [Next]_vars => Aimed'
<1> SUFFICES ASSUME Inv, Aimed, [Next]_vars PROVE Aimed'
  OBVIOUS
<1>1. CASE Step
  BY <1>1, EarlyAimed, IntendAimed, GuardAimed, PostAimed, LateAimed DEF Step
<1>2. ASSUME NEW task \in Tasks, NEW mode \in {"Execute", "InspectOnly"},
             Deliver(task, mode)
      PROVE  Aimed'
  <2>1. flight' = flight
    BY <1>2 DEF Deliver, worldVars
  <2>2. lane'.step \in {"idle", "start", "reconcile", "conclude"}
    <3>1. \A report : Reply(task, report) => lane'.step = "idle"
      BY DEF Reply, Idle
    <3>2. \A record, step, bounded, volatile, deadline :
              Start(task, record, step, bounded, volatile, deadline) => lane'.step = step
      BY DEF Start, Idle
    <3>3. \A effect : FirstReading(effect) \in {"reconcile", "conclude"}
      BY DEF FirstReading
    <3>4. ASSUME NEW deadline, DeliverKnown(task, mode, deadline)
          PROVE  lane'.step \in {"idle", "start", "reconcile", "conclude"}
      BY <3>1, <3>2, <3>3, <3>4 DEF DeliverKnown
    <3>5. ASSUME NEW deadline, DeliverNew(task, mode, deadline)
          PROVE  lane'.step \in {"idle", "start", "reconcile", "conclude"}
      BY <3>1, <3>2, <3>5 DEF DeliverNew, PersistenceFailed
    <3> QED BY <1>2, <3>1, <3>4, <3>5 DEF Deliver, PersistenceFailed
  <2> QED BY <2>1, <2>2, ElsewhereAimed
<1>3. CASE Timeout
  BY <1>3, FinishAimed DEF Timeout, worldVars
<1>4. CASE Expire
  <2>1. /\ lane'.step = lane.step /\ lane'.task = lane.task /\ lane'.rec = lane.rec
        /\ lane'.position = lane.position /\ flight' = flight
    BY <1>4 DEF Expire, worldVars, Inv, Safe, Lanes
  <2> QED BY <2>1 DEF Aimed
<1>5. CASE Crash
  <2>1. lane'.step = "idle" /\ flight' = flight
    BY <1>5 DEF Crash, Idle, worldVars
  <2> QED BY <2>1, ElsewhereAimed
<1>6. ASSUME \/ Open \/ Edit \/ UNCHANGED vars
             \/ \E task \in Tasks, report \in Reports, finalized \in BOOLEAN :
                   Acknowledge(task, report, finalized)
             \/ \E request \in flight : Land(request) \/ Lose(request)
      PROVE  Aimed'
  <2>1. lane' = lane /\ flight' \subseteq flight
    BY <1>6 DEF Open, Edit, World, Acknowledge, Land, Lose, vars, worldVars
  <2> QED BY <2>1, ElsewhereAimed
<1> QED BY <1>1, <1>2, <1>3, <1>4, <1>5, <1>6 DEF Next

(* An edit of the application list does what was asked and nothing else,   *)
(* and is recognised: the position that was sent is still the right one,   *)
(* no other application goes, and none becomes ambiguous.  For any lists   *)
(* and any other requests, edits and crashes before it.                    *)
THEOREM EditsStayExact == Spec => EditsAreExact
<1>1. Init => Inv /\ Aimed
  BY InitiallyInv DEF Init, Idle, Aimed
<1>2. (Inv /\ Aimed) /\ [Next]_vars => (Inv /\ Aimed)'
  BY Inductive, NextAimed
<1>3. Inv /\ Aimed =>
          [\A r \in flight :
              Land(r) /\ r.task.command \in AppCommands /\ sunshine.apps = r.task.expected =>
                  /\ AsAsked(r.task, sunshine.apps, sunshine'.apps)
                  /\ Confirmed(r.effect, sunshine', sunshine', None)]_vars
  <2> SUFFICES ASSUME Inv, Aimed, NEW r \in flight, Land(r),
                      r.task.command \in AppCommands, sunshine.apps = r.task.expected
               PROVE  /\ AsAsked(r.task, sunshine.apps, sunshine'.apps)
                      /\ Confirmed(r.effect, sunshine', sunshine', None)
    OBVIOUS
  <2>1. r.effect = AppIntent(r.task) /\ OnTarget(r.task, r.position) /\ r.task \in Tasks
    BY DEF Aimed, Inv, Worldly, Requests
  <2>2. sunshine' = Apply(r.effect, r.position, sunshine)
    BY DEF Land, World, AppCommands
  <2>3. PICK world \in WorldStates :
            GuardHolds(r.task, world) /\ r.position = Position(r.task, world)
    BY <2>1 DEF OnTarget
  <2>4. world.apps = sunshine.apps
    BY <2>3 DEF GuardHolds, AppCommands
  <2>5. sunshine \in WorldStates /\ GuardHolds(r.task, sunshine)
    BY <2>3, <2>4 DEF GuardHolds, AppCommands, Inv, Worldly
  <2>6. r.position = Position(r.task, sunshine)
    BY <2>3, <2>4 DEF Position
  <2> QED BY <2>1, <2>2, <2>5, <2>6, UndisturbedEdit
<1> QED BY <1>1, <1>2, <1>3, PTL DEF Spec, EditsAreExact
=============================================================================
