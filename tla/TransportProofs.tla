-------------------------- MODULE TransportProofs --------------------------
(***************************************************************************)
(* Proofs about Transport: what is never lost and never contradicted holds *)
(* for any set of operations and every value of the bounds, and the whole  *)
(* session implements the ledger of EffectLedger.                          *)
(***************************************************************************)
EXTENDS TransportRefinement, FiniteSetTheorems, SequenceTheorems, TLAPS

(***************************************************************************)
(* The inductive invariant                                                 *)
(***************************************************************************)

(* What Finish writes to the journal; the gate's answers are never there.  *)
Saved == {"Conflict", "ConfigSaved", "Unknown.EffectNotConfirmed", "Unknown.ResultTooLarge"}

ReceiptRecord ==
    [id : OpIds, report : Reports, finalized : BOOLEAN,
     phase : {"waiting", "saved", "failed"}]

ResultMessage == [type : {"Result"}, id : OpIds, report : Reports]

ManagerMessage == [type : {"Hello"}, id : OpIds \union {None}] \union ResultMessage

ClientMessage ==
    [type : {"Task"}, id : OpIds, mode : Modes]
    \union [type : {"ResultAccepted"}, id : OpIds, report : Reports, finalized : BOOLEAN]
    \union [type : {"Revoked"}]

TransportTypeOK ==
    /\ disk \in [OpIds -> Record(OpIds, {"intent"}, Saved) \union {None}]
    /\ {poisoned, faulted} \subseteq BOOLEAN
    /\ begun \subseteq OpIds
    /\ run \in {"off", "down", "up", "stopping", "ended"}
    /\ active \in DeliveryRecord \union {None}
    /\ completed \in [OpIds -> Reports \union {None}]
    /\ acknowledging \in Seq(ReceiptRecord)
    /\ toManager \in Seq(ManagerMessage)
    /\ toClient \in Seq(ClientMessage)
    /\ known \in [OpIds -> Reports \union {None, "Resolved"}]
    /\ busy \in OpIds \union {None}
    /\ deliveries \in [OpIds -> Nat]
    /\ starts \in Nat /\ sessions \in Nat

(* A tombstone has no report, and only a closed record has a receipt for a *)
(* final one.                                                              *)
RecordsAreSound ==
    \A id \in OpIds : disk[id] # None =>
        /\ ValidRecord(disk[id])
        /\ ~disk[id].acknowledged => ~Final(disk[id].accepted)

(* A session has messages on the way, a process that runs has a delivery   *)
(* and receipts, and only a process that ended has a cause.                *)
RunIsSound ==
    /\ run # "up" => toManager = <<>> /\ toClient = <<>>
    /\ run \in {"off", "ended"} => active = None /\ acknowledging = <<>>
    /\ cause # None => run = "ended"
    /\ poisoned => faulted

(* A delivery that executes has an open record without a final report; one *)
(* that is done has a report; and while there is one, no older report of   *)
(* the operation is offered.                                               *)
DeliveryIsSound ==
    active # None =>
        /\ completed[active.id] = None
        /\ active.phase = "holding" =>
              /\ disk[active.id] # None
              /\ ~disk[active.id].acknowledged
              /\ ~Final(disk[active.id].report)
        /\ active.phase = "done" =>
              /\ active.report \in Reports
              /\ ~faulted /\ Unsettled(active.id) => active.report = disk[active.id].report

(* A receipt, or the message that brings one, that closes the operation.   *)
ClosingReceipt(id) ==
    \E i \in DOMAIN acknowledging : acknowledging[i].id = id /\ Closes(acknowledging[i])

ClosingMessage(message, id) ==
    message.type = "ResultAccepted" /\ message.id = id /\ Closes(message)

TaskMessage(message, id) == message.type = "Task" /\ message.id = id

TaskOnTheWay(id) == \E i \in DOMAIN toClient : TaskMessage(toClient[i], id)

Running(id) == active # None /\ active.id = id

(* An operation is closed after the Manager has closed it, and by then no  *)
(* task of it is running or on the way: what was sent before the Manager   *)
(* closed it was read before the receipt that says so.                     *)
ClosedIsOver ==
    \A id \in OpIds : Closed(id) \/ ClosingReceipt(id) =>
        Final(known[id]) /\ ~Running(id) /\ ~TaskOnTheWay(id)

ReceiptsComeLast ==
    \A id \in OpIds : \A i \in DOMAIN toClient : ClosingMessage(toClient[i], id) =>
        /\ Final(known[id])
        /\ \A j \in DOMAIN toClient : j > i => ~TaskMessage(toClient[j], id)

(* A receipt that was saved for a final report leaves none to be offered.  *)
SavedReceiptsSettle ==
    \A i \in DOMAIN acknowledging :
        /\ acknowledging[i].phase = "saved"
        /\ Final(acknowledging[i].report)
        /\ disk[acknowledging[i].id] # None
        => disk[acknowledging[i].id].acknowledged

(* What the client tells the Manager of an operation, or is about to.      *)
Sent(id, report) ==
    \E i \in DOMAIN toManager :
        toManager[i].type = "Result" /\ toManager[i].id = id /\ toManager[i].report = report

Told(id, report) ==
    \/ completed[id] = report
    \/ Sent(id, report)
    \/ Running(id) /\ active.phase = "done" /\ active.report = report

Recorded(id, report) == disk[id] # None /\ disk[id].report = report

(* A final report is the one in the journal, or the refusal of an operation*)
(* that is not there, or the Manager has it.                               *)
FinalIsWitnessed ==
    \A id \in OpIds, report \in Reports : Final(report) /\ Told(id, report) =>
        /\ report # "Rejected.OperationAlreadyCompleted"
        /\ \/ Recorded(id, report)
           \/ report = "Rejected.JournalFull" /\ disk[id] = None
           \/ known[id] \in {report, "Resolved"}

(* What the Manager knows for good stands in the journal until it is       *)
(* closed, or is the refusal of an operation that is not there.            *)
KnownIsRecorded ==
    \A id \in OpIds : Final(known[id]) =>
        \/ known[id] = "Resolved"
        \/ Recorded(id, known[id])
        \/ Closed(id)
        \/ known[id] = "Rejected.JournalFull" /\ disk[id] = None

(* An operation that was refused for a full journal is not tried again.    *)
RefusedStaysRefused ==
    \A id \in OpIds :
        /\ known[id] = "Rejected.JournalFull" =>
              /\ ~Running(id)
              /\ TaskOnTheWay(id) => completed[id] = "Rejected.JournalFull"
        /\ Sent(id, "Rejected.JournalFull") =>
              \/ completed[id] = "Rejected.JournalFull"
              \/ known[id] \in {"Rejected.JournalFull", "Resolved"}

(* What has begun is still running, or has a report or a tombstone.        *)
Reported(id) == Closed(id) \/ (disk[id] # None /\ disk[id].report # None)

BegunIsReported ==
    ~faulted =>
        /\ run \in {"down", "up", "stopping"} =>
              \A id \in begun :
                  Reported(id) \/ (Running(id) /\ active.phase = "holding")
        /\ cause = "Ok" => \A id \in begun : Reported(id)

Inv ==
    /\ TransportTypeOK
    /\ RecordsAreSound
    /\ RunIsSound
    /\ DeliveryIsSound
    /\ ClosedIsOver
    /\ ReceiptsComeLast
    /\ SavedReceiptsSettle
    /\ FinalIsWitnessed
    /\ KnownIsRecorded
    /\ RefusedStaysRefused
    /\ FinalResultsAreHeld
    /\ BegunIsReported

(***************************************************************************)
(* Facts about sequences and messages                                      *)
(***************************************************************************)

(* A message put at the end is the last one.                               *)
LEMMA Appended ==
    ASSUME NEW S, NEW s \in Seq(S), NEW e \in S
    PROVE  /\ Append(s, e) \in Seq(S)
           /\ \A i \in DOMAIN s : i \in DOMAIN Append(s, e) /\ Append(s, e)[i] = s[i]
           /\ \A i \in DOMAIN Append(s, e) :
                 \/ i \in DOMAIN s /\ Append(s, e)[i] = s[i]
                 \/ Append(s, e)[i] = e /\ \A j \in DOMAIN Append(s, e) : j <= i
  <1>1. /\ Append(s, e) \in Seq(S)
        /\ Len(Append(s, e)) = Len(s) + 1
        /\ \A i \in 1..Len(s) : Append(s, e)[i] = s[i]
        /\ Append(s, e)[Len(s) + 1] = e
    BY AppendProperties
  <1>2. DOMAIN s = 1..Len(s) /\ DOMAIN Append(s, e) = 1..(Len(s) + 1) /\ Len(s) \in Nat
    BY <1>1, LenProperties
  <1> QED
    BY <1>1, <1>2

(* Without its first message a queue is what comes after it.               *)
LEMMA Behead ==
    ASSUME NEW S, NEW s \in Seq(S), s # <<>>
    PROVE  /\ Tail(s) \in Seq(S)
           /\ 1 \in DOMAIN s /\ Head(s) = s[1] /\ Head(s) \in S
           /\ \A i \in DOMAIN Tail(s) :
                 i \in Nat /\ i >= 1 /\ i + 1 \in DOMAIN s /\ Tail(s)[i] = s[i + 1]
  <1>1. /\ Head(s) \in S /\ Tail(s) \in Seq(S)
        /\ Len(Tail(s)) = Len(s) - 1
        /\ \A i \in 1..Len(Tail(s)) : Tail(s)[i] = s[i + 1]
    BY HeadTailProperties
  <1>2. /\ DOMAIN s = 1..Len(s) /\ Len(s) \in Nat
        /\ DOMAIN Tail(s) = 1..Len(Tail(s)) /\ Len(Tail(s)) \in Nat
    BY <1>1, LenProperties
  <1>3. Len(s) # 0
    BY EmptySeq
  <1>4. 1 \in DOMAIN s /\ Head(s) = s[1]
    BY <1>2, <1>3
  <1> QED
    BY <1>1, <1>2, <1>4

(* A queue after another one has the messages of both.                     *)
LEMMA Joined ==
    ASSUME NEW S, NEW s \in Seq(S), NEW t \in Seq(S)
    PROVE  /\ s \o t \in Seq(S)
           /\ \A i \in DOMAIN (s \o t) :
                 \/ i \in DOMAIN s /\ (s \o t)[i] = s[i]
                 \/ \E j \in DOMAIN t : (s \o t)[i] = t[j]
  <1>1. /\ s \o t \in Seq(S)
        /\ Len(s \o t) = Len(s) + Len(t)
        /\ \A i \in 1..(Len(s) + Len(t)) :
              (s \o t)[i] = IF i <= Len(s) THEN s[i] ELSE t[i - Len(s)]
    BY ConcatProperties
  <1> DEFINE both == s \o t
  <1>2. /\ DOMAIN s = 1..Len(s) /\ Len(s) \in Nat
        /\ DOMAIN t = 1..Len(t) /\ Len(t) \in Nat
        /\ DOMAIN both = 1..(Len(s) + Len(t))
    BY <1>1, LenProperties
  <1>3. \A i \in 1..(Len(s) + Len(t)) :
           both[i] = IF i <= Len(s) THEN s[i] ELSE t[i - Len(s)]
    BY <1>1
  <1> HIDE DEF both
  <1>4. ASSUME NEW i \in DOMAIN both
        PROVE  \/ i \in DOMAIN s /\ both[i] = s[i]
               \/ \E j \in DOMAIN t : both[i] = t[j]
    <2>1. CASE i <= Len(s)
      BY <1>2, <1>3, <2>1
    <2>2. CASE ~(i <= Len(s))
      <3>1. i - Len(s) \in DOMAIN t /\ both[i] = t[i - Len(s)]
        BY <1>2, <1>3, <2>2
      <3> QED
        BY <3>1
    <2> QED
      BY <2>1, <2>2
  <1>5. both \in Seq(S)
    BY <1>1 DEF both
  <1> QED
    BY <1>4, <1>5 DEF both

(* Taking one element out of a sequence leaves the others in their order.  *)
LEMMA Removed ==
    ASSUME NEW S, NEW s \in Seq(S), NEW i \in DOMAIN s
    PROVE  /\ RemoveAt(s, i) \in Seq(S)
           /\ \A k \in DOMAIN RemoveAt(s, i) :
                 LET from == IF k < i THEN k ELSE k + 1 IN
                 from \in DOMAIN s /\ from # i /\ RemoveAt(s, i)[k] = s[from]
  <1> DEFINE before == SubSeq(s, 1, i - 1)
             after == SubSeq(s, i + 1, Len(s))
  <1>1. i \in 1..Len(s) /\ Len(s) \in Nat
    BY LenProperties
  <1>2. /\ before \in Seq(S) /\ Len(before) = i - 1
        /\ \A k \in 1..(i - 1) : before[k] = s[k]
    BY <1>1, SubSeqProperties
  <1>3. /\ after \in Seq(S) /\ Len(after) = Len(s) - i
        /\ \A k \in 1..(Len(s) - i) : after[k] = s[i + k]
    BY <1>1, SubSeqProperties
  <1>4. RemoveAt(s, i) = before \o after
    BY DEF RemoveAt
  <1> HIDE DEF before, after
  <1>5. /\ before \o after \in Seq(S)
        /\ Len(before \o after) = Len(before) + Len(after)
        /\ \A k \in 1..(Len(before) + Len(after)) :
              (before \o after)[k] =
                  IF k <= Len(before) THEN before[k] ELSE after[k - Len(before)]
    BY <1>2, <1>3, ConcatProperties
  <1> DEFINE rest == before \o after
  <1>6. rest \in Seq(S) /\ DOMAIN rest = 1..Len(rest) /\ DOMAIN s = 1..Len(s)
    BY <1>5, LenProperties
  <1> HIDE DEF rest
  <1>7. /\ Len(rest) = Len(s) - 1
        /\ \A k \in 1..(Len(s) - 1) :
              rest[k] = IF k < i THEN s[k] ELSE s[k + 1]
    <2>1. Len(rest) = Len(s) - 1
      BY <1>1, <1>2, <1>3, <1>5 DEF rest
    <2>2. ASSUME NEW k \in 1..(Len(s) - 1), k < i
          PROVE  rest[k] = s[k]
      <3>1. k \in 1..(Len(before) + Len(after)) /\ k <= Len(before) /\ k \in 1..(i - 1)
        BY <1>1, <1>2, <1>3, <2>2
      <3>2. rest[k] = before[k]
        BY <1>5, <3>1 DEF rest
      <3> QED
        BY <1>2, <3>1, <3>2
    <2>3. ASSUME NEW k \in 1..(Len(s) - 1), ~(k < i)
          PROVE  rest[k] = s[k + 1]
      <3>1. rest[k] = after[k - (i - 1)]
        <4>1. k \in 1..(Len(before) + Len(after)) /\ ~(k <= Len(before))
          BY <1>1, <1>2, <1>3, <2>3
        <4>2. rest[k] = after[k - Len(before)]
          BY <1>5, <4>1 DEF rest
        <4> QED
          BY <1>2, <4>2
      <3>2. k - (i - 1) \in 1..(Len(s) - i) /\ i + (k - (i - 1)) = k + 1
        BY <1>1, <2>3
      <3> QED
        BY <1>3, <3>1, <3>2
    <2> QED
      BY <2>1, <2>2, <2>3
  <1>8. RemoveAt(s, i) = rest
    BY <1>4 DEF rest
  <1>9. ASSUME NEW k \in DOMAIN rest
        PROVE  LET from == IF k < i THEN k ELSE k + 1 IN
               from \in DOMAIN s /\ from # i /\ rest[k] = s[from]
    BY <1>1, <1>6, <1>7
  <1> QED
    BY <1>6, <1>8, <1>9

(* The results sent at the start of a session and with a heartbeat are     *)
(* those of the reports, one each.                                         *)
LEMMA Results ==
    ASSUME NEW ids \in SUBSET OpIds, NEW reports \in [ids -> Reports]
    PROVE  /\ ResultsOf(reports) \in Seq(ManagerMessage)
           /\ \A i \in DOMAIN ResultsOf(reports) :
                 \E id \in ids : ResultsOf(reports)[i] = Result(id, reports[id])
  <1> DEFINE order == SetToSeq(ids)
             n == Cardinality(ids)
  <1>1. IsFiniteSet(ids)
    BY TransportAssumption, FS_Subset
  <1>2. /\ n \in Nat
        /\ \E f : f \in [1..n -> ids] /\ IsInjective(f)
    <2>1. n \in Nat
      BY <1>1, FS_CardinalityType
    <2>2. ExistsBijection(1..n, ids)
      BY <1>1, FS_CardinalityType
    <2>3. PICK f : f \in Bijection(1..n, ids)
      BY <2>2, Zenon DEF ExistsBijection
    <2>4. f \in [1..n -> ids] /\ IsInjective(f)
      BY <2>3 DEF Bijection, Injection, IsInjective
    <2> QED
      BY <2>1, <2>4
  <1>3. order \in [1..n -> ids]
    BY <1>2 DEF SetToSeq
  <1>4. DOMAIN reports = ids
    OBVIOUS
  <1>5. ResultsOf(reports) = [i \in DOMAIN order |-> Result(order[i], reports[order[i]])]
    BY <1>4, Zenon DEF ResultsOf
  <1> HIDE DEF order, n
  <1>6. \A i \in 1..n : order[i] \in ids /\ reports[order[i]] \in Reports
    BY <1>3
  <1>7. \A i \in 1..n : Result(order[i], reports[order[i]]) \in ManagerMessage
    BY <1>6 DEF Result, ManagerMessage, ResultMessage
  <1>8. DOMAIN order = 1..n
    BY <1>3
  <1>9. ResultsOf(reports) \in [1..n -> ManagerMessage]
    BY <1>5, <1>7, <1>8
  <1>10. ResultsOf(reports) \in Seq(ManagerMessage)
    BY <1>2, <1>9, SeqDef
  <1> QED
    BY <1>5, <1>6, <1>8, <1>10

(* What the messages, the receipts and the delivery are made of.           *)
LEMMA Parts ==
    /\ \A m \in ManagerMessage :
          /\ m.type \in {"Hello", "Result"}
          /\ m.type = "Hello" => m.id \in OpIds \union {None}
          /\ m.type = "Result" => m.id \in OpIds /\ m.report \in Reports
    /\ \A m \in ClientMessage :
          /\ m.type \in {"Task", "ResultAccepted", "Revoked"}
          /\ m.type = "Task" => m.id \in OpIds /\ m.mode \in Modes
          /\ m.type = "ResultAccepted" =>
                m.id \in OpIds /\ m.report \in Reports /\ m.finalized \in BOOLEAN
    /\ \A receipt \in ReceiptRecord :
          /\ receipt.id \in OpIds /\ receipt.report \in Reports
          /\ receipt.finalized \in BOOLEAN
          /\ receipt.phase \in {"waiting", "saved", "failed"}
    /\ \A delivery \in DeliveryRecord :
          /\ delivery # None
          /\ delivery.id \in OpIds /\ delivery.mode \in Modes
          /\ delivery.phase \in {"waiting", "holding", "done"}
          /\ delivery.report \in Reports \union {None}
    /\ \A record \in Record(OpIds, {"intent"}, Saved) :
          /\ record # None
          /\ record.fingerprint \in OpIds
          /\ record.effect \in {"intent", None}
          /\ record.report \in Saved \union {None}
          /\ record.acknowledged \in BOOLEAN
          /\ record.accepted \in Saved \union {None}
  <1>1. \A m \in ManagerMessage :
          /\ m.type \in {"Hello", "Result"}
          /\ m.type = "Hello" => m.id \in OpIds \union {None}
          /\ m.type = "Result" => m.id \in OpIds /\ m.report \in Reports
    BY DEF ManagerMessage, ResultMessage
  <1>2. \A m \in ClientMessage :
          /\ m.type \in {"Task", "ResultAccepted", "Revoked"}
          /\ m.type = "Task" => m.id \in OpIds /\ m.mode \in Modes
          /\ m.type = "ResultAccepted" =>
                m.id \in OpIds /\ m.report \in Reports /\ m.finalized \in BOOLEAN
    BY DEF ClientMessage
  <1>3. Saved \subseteq Reports
    BY DEF Saved, Reports, Uncertainties, Refusals, Successes
  <1>4. Record(OpIds, {"intent"}, Saved) \subseteq Record(OpIds, {"intent"}, Reports)
    BY <1>3 DEF Record
  <1> QED
    BY <1>1, <1>2, <1>4, NoRecordAssumption DEF ReceiptRecord, DeliveryRecord, Record

(* Which reports are final.                                                *)
LEMMA Kinds ==
    /\ Saved \subseteq Reports /\ None \notin Reports
    /\ None \notin {"Resolved", "Ok", "intent"}
    /\ ~Final(None)
    /\ Final("Resolved") /\ "Resolved" \notin Reports
    /\ Final("Rejected.JournalFull")
    /\ \A report \in Reports : Final(report) <=> ~Uncertain(report)
    /\ "Rejected.JournalFull" \notin Saved
    /\ "Rejected.OperationAlreadyCompleted" \notin Saved
    /\ Uncertain("Unknown.PersistenceFailure") /\ Uncertain("Unknown.NoExecutionRecord")
    /\ {"Unknown.PersistenceFailure", "Unknown.NoExecutionRecord",
        "Rejected.JournalFull", "Rejected.OperationAlreadyCompleted"} \subseteq Reports
    /\ \A record : Outcomes(record) \subseteq Saved
BY TransportAssumption
   DEF Saved, Reports, Uncertainties, Refusals, GateRefusals, Successes, Final,
       Uncertain, Outcomes

(***************************************************************************)
(* What the steps of the engine do                                         *)
(***************************************************************************)

Disks == [OpIds -> Record(OpIds, {"intent"}, Saved) \union {None}]

(* A record is saved, or the journal has failed.                           *)
LEMMA Saving ==
    ASSUME NEW id \in OpIds, NEW record \in Record(OpIds, {"intent"}, Saved),
           NEW outcome, disk \in Disks, Save(id, record, outcome)
    PROVE  /\ disk' \in Disks
           /\ \A x \in OpIds : x # id => disk'[x] = disk[x]
           /\ \/ /\ outcome = "Ok" /\ disk'[id] = record
                 /\ UNCHANGED <<poisoned, faulted>>
              \/ /\ outcome = "Storage" /\ poisoned' = TRUE /\ faulted' = TRUE
                 /\ disk' = disk \/ disk'[id] = record
  <1> DEFINE saved == [disk EXCEPT ![id] = record]
  <1>1. saved \in Disks /\ saved[id] = record /\ \A x \in OpIds : x # id => saved[x] = disk[x]
    BY DEF Disks
  <1>2. \/ outcome = "Ok" /\ disk' = saved /\ UNCHANGED <<poisoned, faulted>>
        \/ /\ outcome = "Storage" /\ disk' \in {disk, saved}
           /\ poisoned' = TRUE /\ faulted' = TRUE
    BY DEF Save, Fault
  <1> HIDE DEF saved
  <1> QED
    BY <1>1, <1>2

(* The delivery is done with a report.                                     *)
LEMMA Answered ==
    ASSUME active \in DeliveryRecord, NEW report \in Reports, Answer(report)
    PROVE  /\ active' \in DeliveryRecord
           /\ active'.id = active.id /\ active'.phase = "done" /\ active'.report = report
BY DEF Answer, DeliveryRecord

(* The record of the operation changes, if it does, from one that is not   *)
(* there or has no final report to an open one; a delivery that goes on    *)
(* has such a record, and one that is done answers with what is recorded.  *)
OpenAndUndecided(record) ==
    record # None /\ ~record.acknowledged /\ ~Final(record.report)

Works ==
    LET id == active.id
        record == disk'[id] IN
    /\ active # None /\ active.phase # "done"
    /\ active' \in DeliveryRecord /\ active'.id = id
    /\ disk' \in Disks
    /\ \A x \in OpIds : x # id => disk'[x] = disk[x]
    /\ \/ disk' = disk
       \/ /\ ~Unsettled(id)
          /\ record # None /\ ~record.acknowledged /\ ~Final(record.accepted)
    /\ active'.phase # "waiting"
    /\ active'.phase = "holding" => OpenAndUndecided(record)
    /\ active'.phase = "done" =>
          /\ active'.report \in Reports \ {"Rejected.OperationAlreadyCompleted"}
          /\ Final(active'.report) =>
                \/ record # None /\ record.report = active'.report
                \/ active'.report = "Rejected.JournalFull" /\ disk' = disk /\ record = None
          /\ ~faulted' /\ record # None /\ Final(record.report) =>
                active'.report = record.report
    /\ {poisoned', faulted'} \subseteq BOOLEAN
    /\ poisoned' => faulted'
    /\ faulted => faulted'
    /\ begun' \subseteq OpIds
    /\ ~faulted' => \A x \in begun' :
          \/ x = id /\ active'.phase = "holding"
          \/ x = id /\ record # None /\ record.report # None
          \/ x \in begun /\ disk'[x] = disk[x] /\ ~(x = id /\ active.phase = "holding")
    /\ EngineUnchanged

(* The types of what an engine step reads.                                 *)
LEMMA Running0 ==
    ASSUME Inv, active # None
    PROVE  /\ active \in DeliveryRecord /\ active.id \in OpIds
           /\ disk \in Disks
           /\ disk[active.id] # None => disk[active.id] \in Record(OpIds, {"intent"}, Saved)
           /\ ~Closed(active.id)
           /\ {poisoned, faulted} \subseteq BOOLEAN /\ begun \subseteq OpIds
           /\ poisoned => faulted
BY Parts DEF Inv, TransportTypeOK, Disks, ClosedIsOver, Running, RunIsSound

(* deliver_before answers or goes on with the operation.                   *)
LEMMA LockWorks == Inv /\ Lock => Works
  <1> SUFFICES ASSUME Inv, Lock PROVE Works
    OBVIOUS
  <1> DEFINE id == active.id
             record == disk[id]
             hold == [active EXCEPT !.phase = "holding"]
  <1>1. active # None /\ active.phase = "waiting" /\ EngineUnchanged
    BY DEF Lock
  <1>2. /\ active \in DeliveryRecord /\ id \in OpIds
        /\ disk \in Disks
        /\ record # None => record \in Record(OpIds, {"intent"}, Saved)
        /\ ~Closed(id)
        /\ {poisoned, faulted} \subseteq BOOLEAN /\ begun \subseteq OpIds
        /\ poisoned => faulted
    BY <1>1, Running0
  <1>3. hold \in DeliveryRecord /\ hold.id = id /\ hold.phase = "holding"
    BY <1>2 DEF DeliveryRecord
  <1>4. record # None => ~record.acknowledged /\ record.report \in Saved \union {None}
    BY <1>2, Parts DEF Closed
  <1>5. FreshRecord(id) \in Record(OpIds, {"intent"}, Saved)
        /\ FreshRecord(id).report = None /\ FreshRecord(id).accepted = None
        /\ FreshRecord(id).acknowledged = FALSE
        /\ FreshRecord(id) # None
    BY <1>2, Parts DEF FreshRecord, Record
  <1>6. CASE /\ Answer("Unknown.PersistenceFailure")
             /\ Faulty
             /\ UNCHANGED <<disk, poisoned, begun>>
    <2>1. active' \in DeliveryRecord /\ active'.id = id /\ active'.phase = "done"
          /\ active'.report = "Unknown.PersistenceFailure"
      BY <1>2, <1>6, Answered, Kinds
    <2>2. faulted' = TRUE
      BY <1>2, <1>6 DEF Faulty, Fault
    <2> QED
      BY <1>1, <1>2, <1>6, <2>1, <2>2, Kinds DEF Works
  <1>7. CASE /\ ~poisoned
             /\ record # None
             /\ IF record.acknowledged THEN Answer("Rejected.OperationAlreadyCompleted")
                ELSE IF Final(record.report) THEN Answer(record.report)
                ELSE IF record.effect = None /\ record.report # None THEN Answer(record.report)
                ELSE IF record.effect = None /\ active.mode = "InspectOnly"
                THEN Answer("Unknown.NoExecutionRecord")
                ELSE active' = hold
             /\ begun' = IF active'.phase = "holding" THEN begun \union {id} ELSE begun
             /\ UNCHANGED <<disk, poisoned, faulted>>
    <2>1. CASE active' = hold /\ ~Final(record.report)
      BY <1>1, <1>2, <1>3, <1>4, <1>7, <2>1 DEF Works, OpenAndUndecided
    <2>2. ASSUME NEW report \in Reports, Answer(report),
                 \/ report = record.report
                 \/ report = "Unknown.NoExecutionRecord" /\ ~Final(record.report)
          PROVE  Works
      <3>1. active' \in DeliveryRecord /\ active'.id = id /\ active'.phase = "done"
            /\ active'.report = report
        BY <1>2, <2>2, Answered
      <3>2. report # "Rejected.OperationAlreadyCompleted"
        BY <1>4, <1>7, <2>2, Kinds
      <3>3. Final(report) => report = record.report
        BY <2>2, Kinds
      <3>4. begun' = begun
        BY <1>7, <3>1
      <3> QED
        BY <1>1, <1>2, <1>4, <1>7, <2>2, <3>1, <3>2, <3>3, <3>4, Kinds DEF Works
    <2>3. record.report \in Reports \/ record.report = None
      BY <1>4, <1>7, Kinds
    <2> QED
      BY <1>4, <1>7, <2>1, <2>2, <2>3, Kinds
  <1>8. CASE /\ ~poisoned
             /\ record = None
             /\ \/ Answer("Unknown.NoExecutionRecord") /\ UNCHANGED journalVars
                \/ Answer("Rejected.JournalFull") /\ UNCHANGED journalVars
    <2>1. PICK report \in {"Unknown.NoExecutionRecord", "Rejected.JournalFull"} : Answer(report)
      BY <1>8
    <2>2. active' \in DeliveryRecord /\ active'.id = id /\ active'.phase = "done"
          /\ active'.report = report
      BY <1>2, <2>1, Answered, Kinds
    <2> QED
      BY <1>1, <1>2, <1>8, <2>1, <2>2, Kinds DEF Works, journalVars
  <1>9. ASSUME NEW outcome \in {"Ok", "Storage"},
               ~poisoned, record = None,
               Save(id, FreshRecord(id), outcome),
               begun' = begun \union {id},
               IF outcome = "Ok" THEN active' = hold ELSE Answer("Unknown.PersistenceFailure")
        PROVE  Works
    <2>1. /\ disk' \in Disks
          /\ \A x \in OpIds : x # id => disk'[x] = disk[x]
          /\ \/ /\ outcome = "Ok" /\ disk'[id] = FreshRecord(id)
                /\ UNCHANGED <<poisoned, faulted>>
             \/ /\ outcome = "Storage" /\ poisoned' = TRUE /\ faulted' = TRUE
                /\ disk' = disk \/ disk'[id] = FreshRecord(id)
      BY <1>2, <1>5, <1>9, Saving
    <2>2. ~Unsettled(id)
      BY <1>9 DEF Unsettled
    <2>3. CASE outcome = "Ok"
      <3>1. active' \in DeliveryRecord /\ active'.id = id /\ active'.phase = "holding"
        BY <1>3, <1>9, <2>3
      <3>2. OpenAndUndecided(disk'[id]) /\ ~Final(disk'[id].accepted)
        BY <1>5, <2>1, <2>3, Kinds DEF OpenAndUndecided
      <3>3. begun' \subseteq OpIds /\ \A x \in begun' : x = id \/ (x \in begun /\ disk'[x] = disk[x])
        BY <1>2, <1>9, <2>1
      <3> QED
        BY <1>1, <1>2, <2>1, <2>2, <2>3, <3>1, <3>2, <3>3 DEF Works, OpenAndUndecided
    <2>4. CASE outcome = "Storage"
      <3>1. active' \in DeliveryRecord /\ active'.id = id /\ active'.phase = "done"
            /\ active'.report = "Unknown.PersistenceFailure"
        BY <1>2, <1>9, <2>4, Answered, Kinds
      <3> QED
        BY <1>1, <1>2, <1>5, <1>9, <2>1, <2>2, <2>4, <3>1, Kinds DEF Works
    <2> QED
      BY <2>3, <2>4
  <1> QED
    BY <1>6, <1>7, <1>8, <1>9 DEF Lock

(* Remember saves the intent, Finish the report, or the delivery ends with *)
(* a failure of the journal.                                               *)
LEMMA CommitWorks == Inv /\ (Remember \/ Finish) => Works
  <1> SUFFICES ASSUME Inv, Remember \/ Finish PROVE Works
    OBVIOUS
  <1> DEFINE id == active.id
             record == disk[id]
  <1>1. active # None /\ active.phase = "holding" /\ EngineUnchanged /\ begun' = begun
    BY DEF Remember, Finish, Holding, Commit
  <1>2. /\ active \in DeliveryRecord /\ id \in OpIds
        /\ disk \in Disks
        /\ record # None => record \in Record(OpIds, {"intent"}, Saved)
        /\ {poisoned, faulted} \subseteq BOOLEAN /\ begun \subseteq OpIds
        /\ poisoned => faulted
    BY <1>1, Running0
  <1>3. record # None /\ ~record.acknowledged /\ ~Final(record.report) /\ ~Final(record.accepted)
    BY <1>1, <1>2 DEF Inv, DeliveryIsSound, RecordsAreSound
  <1>4. ~Unsettled(id)
    BY <1>3 DEF Unsettled
  <1>5. ASSUME NEW next \in Record(OpIds, {"intent"}, Saved), NEW outcome \in {"Ok", "Storage"},
               Save(id, next, outcome),
               ~next.acknowledged, ~Final(next.accepted),
               \/ /\ outcome = "Ok" /\ UNCHANGED active
                  /\ ~Final(next.report)
               \/ /\ outcome = "Ok" /\ next.report \in Saved
                  /\ Answer(next.report)
               \/ outcome = "Storage" /\ Answer("Unknown.PersistenceFailure")
        PROVE  Works
    <2>1. /\ disk' \in Disks
          /\ \A x \in OpIds : x # id => disk'[x] = disk[x]
          /\ \/ /\ outcome = "Ok" /\ disk'[id] = next
                /\ UNCHANGED <<poisoned, faulted>>
             \/ /\ outcome = "Storage" /\ poisoned' = TRUE /\ faulted' = TRUE
                /\ disk' = disk \/ disk'[id] = next
      BY <1>2, <1>5, Saving
    <2>2. next # None
      BY Parts
    <2>3. CASE outcome = "Ok" /\ UNCHANGED active /\ ~Final(next.report)
      BY <1>1, <1>2, <1>4, <1>5, <2>1, <2>2, <2>3 DEF Works, OpenAndUndecided
    <2>4. CASE outcome = "Ok" /\ next.report \in Saved /\ Answer(next.report)
      <3>1. active' \in DeliveryRecord /\ active'.id = id /\ active'.phase = "done"
            /\ active'.report = next.report
        BY <1>2, <2>4, Answered, Kinds
      <3> QED
        BY <1>1, <1>2, <1>4, <1>5, <2>1, <2>2, <2>4, <3>1, Kinds DEF Works
    <2>5. CASE outcome = "Storage" /\ Answer("Unknown.PersistenceFailure")
      <3>1. active' \in DeliveryRecord /\ active'.id = id /\ active'.phase = "done"
            /\ active'.report = "Unknown.PersistenceFailure"
        BY <1>2, <2>5, Answered, Kinds
      <3> QED
        BY <1>1, <1>2, <1>4, <1>5, <2>1, <2>2, <2>5, <3>1, Kinds DEF Works
    <2> QED
      BY <1>5, <2>3, <2>4, <2>5
  <1>6. CASE Remember
    <2> DEFINE next == [record EXCEPT !.effect = "intent"]
    <2>1. next \in Record(OpIds, {"intent"}, Saved) /\ next.report = record.report
          /\ next.acknowledged = record.acknowledged /\ next.accepted = record.accepted
      BY <1>2, <1>3 DEF Record
    <2>2. PICK outcome \in {"Ok", "Storage"} :
             /\ Save(id, next, outcome)
             /\ IF outcome = "Ok" THEN UNCHANGED active ELSE Answer("Unknown.PersistenceFailure")
      BY <1>6 DEF Remember, Commit
    <2> HIDE DEF next
    <2> QED
      BY <1>3, <1>5, <2>1, <2>2
  <1>7. CASE Finish
    <2>1. PICK report \in Outcomes(record) :
             Commit([record EXCEPT !.report = report], Answer(report))
      BY <1>7 DEF Finish
    <2> DEFINE next == [record EXCEPT !.report = report]
    <2>2. report \in Saved
      BY <2>1, Kinds
    <2>3. next \in Record(OpIds, {"intent"}, Saved) /\ next.report = report
          /\ next.acknowledged = record.acknowledged /\ next.accepted = record.accepted
      BY <1>2, <1>3, <2>2 DEF Record
    <2>4. PICK outcome \in {"Ok", "Storage"} :
             /\ Save(id, next, outcome)
             /\ IF outcome = "Ok" THEN Answer(report) ELSE Answer("Unknown.PersistenceFailure")
      BY <2>1 DEF Commit
    <2> HIDE DEF next
    <2> QED
      BY <1>3, <1>5, <2>2, <2>3, <2>4
  <1> QED
    BY <1>6, <1>7

(***************************************************************************)
(* What the other steps do                                                 *)
(***************************************************************************)

ReportTable == [OpIds -> Reports \union {None}]

(* A receipt is saved or fails.  A record that it changes is the one whose *)
(* report it confirms.                                                     *)
SavesReceipt(i) ==
    LET receipt == acknowledging[i]
        id == receipt.id IN
    /\ i \in DOMAIN acknowledging /\ receipt \in ReceiptRecord
    /\ ~Holding
    /\ acknowledging' \in Seq(ReceiptRecord)
    /\ DOMAIN acknowledging' = DOMAIN acknowledging
    /\ \A j \in DOMAIN acknowledging :
          /\ acknowledging'[j].id = acknowledging[j].id
          /\ acknowledging'[j].report = acknowledging[j].report
          /\ acknowledging'[j].finalized = acknowledging[j].finalized
          /\ j # i => acknowledging'[j].phase = acknowledging[j].phase
    /\ disk' \in Disks
    /\ \A x \in OpIds : x # id => disk'[x] = disk[x]
    /\ \/ disk'[id] = disk[id]
       \/ /\ disk[id] # None /\ ~disk[id].acknowledged
          /\ disk[id].report = receipt.report
          /\ disk'[id] # None
          /\ disk'[id].acknowledged <=> Closes(receipt)
          /\ IF Closes(receipt)
             THEN disk'[id].effect = None /\ disk'[id].report = None
             ELSE disk'[id].report = disk[id].report /\ ~Final(disk'[id].accepted)
    /\ acknowledging'[i].phase = "saved" /\ Final(receipt.report) /\ disk'[id] # None =>
          disk'[id].acknowledged
    /\ {poisoned', faulted'} \subseteq BOOLEAN
    /\ poisoned' => faulted'
    /\ faulted => faulted'
    /\ UNCHANGED <<begun, run, cause, active, completed, channelVars, managerVars,
                   starts, sessions>>

LEMMA SaveReceiptEffect ==
    ASSUME Inv, NEW i \in DOMAIN acknowledging, SaveReceipt(i)
    PROVE  SavesReceipt(i)
  <1> DEFINE receipt == acknowledging[i]
             id == receipt.id
             record == disk[id]
             Ended(phase) == [acknowledging EXCEPT ![i].phase = phase]
             next == [record EXCEPT !.acknowledged = Closes(receipt),
                                    !.report = IF Closes(receipt) THEN None ELSE @,
                                    !.effect = IF Closes(receipt) THEN None ELSE @,
                                    !.accepted = receipt.report]
  <1>1. /\ acknowledging \in Seq(ReceiptRecord) /\ disk \in Disks
        /\ {poisoned, faulted} \subseteq BOOLEAN
        /\ poisoned => faulted
    BY DEF Inv, TransportTypeOK, Disks, RunIsSound
  <1>2. receipt \in ReceiptRecord /\ id \in OpIds /\ receipt.report \in Reports
        /\ DOMAIN acknowledging = 1..Len(acknowledging) /\ Len(acknowledging) \in Nat
        /\ \A j \in DOMAIN acknowledging : acknowledging[j] \in ReceiptRecord
    BY <1>1, Parts, LenProperties, ElementOfSeq
  <1>3. record # None => record \in Record(OpIds, {"intent"}, Saved)
    BY <1>1, <1>2 DEF Disks
  <1>4. receipt.phase = "waiting" /\ ~Holding
        /\ UNCHANGED <<begun, run, cause, active, completed, channelVars, managerVars,
                       starts, sessions>>
    BY DEF SaveReceipt
  <1>5. ASSUME NEW phase \in {"saved", "failed"}
        PROVE  /\ Ended(phase) \in Seq(ReceiptRecord)
               /\ DOMAIN Ended(phase) = DOMAIN acknowledging
               /\ \A j \in DOMAIN acknowledging :
                     /\ Ended(phase)[j].id = acknowledging[j].id
                     /\ Ended(phase)[j].report = acknowledging[j].report
                     /\ Ended(phase)[j].finalized = acknowledging[j].finalized
                     /\ j # i => Ended(phase)[j].phase = acknowledging[j].phase
               /\ Ended(phase)[i].phase = phase
    <2>1. [receipt EXCEPT !.phase = phase] \in ReceiptRecord
      BY <1>2 DEF ReceiptRecord
    <2>2. Ended(phase) \in Seq(ReceiptRecord)
      BY <1>1, <2>1, ExceptSeq
    <2>3. DOMAIN Ended(phase) = DOMAIN acknowledging
      OBVIOUS
    <2>4. \A j \in DOMAIN acknowledging : j # i => Ended(phase)[j] = acknowledging[j]
      OBVIOUS
    <2>5. Ended(phase)[i] = [receipt EXCEPT !.phase = phase]
      OBVIOUS
    <2>6. /\ Ended(phase)[i].id = receipt.id /\ Ended(phase)[i].report = receipt.report
          /\ Ended(phase)[i].finalized = receipt.finalized /\ Ended(phase)[i].phase = phase
      BY <1>2, <2>5 DEF ReceiptRecord
    <2> QED
      BY <2>2, <2>3, <2>4, <2>6
  <1> HIDE DEF Ended
  <1>6. ASSUME NEW phase \in {"saved", "failed"}, acknowledging' = Ended(phase),
               disk' = disk,
               phase = "saved" /\ Final(receipt.report) /\ record # None => record.acknowledged,
               {poisoned', faulted'} \subseteq BOOLEAN,
               poisoned' => faulted', faulted => faulted'
        PROVE  SavesReceipt(i)
    BY <1>1, <1>2, <1>4, <1>5, <1>6 DEF SavesReceipt
  <1>7. CASE /\ acknowledging' = Ended("failed")
             /\ Faulty
             /\ UNCHANGED <<disk, poisoned>>
    BY <1>1, <1>6, <1>7 DEF Faulty, Fault
  <1>8. CASE /\ ~poisoned
             /\ record # None => record.acknowledged
             /\ acknowledging' = Ended("saved")
             /\ UNCHANGED <<disk, poisoned, faulted>>
    BY <1>1, <1>6, <1>8
  <1>9. CASE /\ ~poisoned
             /\ record # None /\ ~record.acknowledged
             /\ record.report # receipt.report
             /\ acknowledging' = Ended(IF OlderReceipt(record, receipt.report) THEN "saved" ELSE "failed")
             /\ UNCHANGED <<disk, poisoned, faulted>>
    <2>1. ~Final(record.accepted)
      BY <1>2, <1>9 DEF Inv, RecordsAreSound
    <2>2. OlderReceipt(record, receipt.report) => ~Final(receipt.report)
      BY <2>1 DEF OlderReceipt
    <2> QED
      BY <1>1, <1>6, <1>9, <2>2
  <1>10. ASSUME NEW outcome \in {"Ok", "Storage"},
                ~poisoned, record # None, ~record.acknowledged,
                record.report = receipt.report,
                Save(id, next, outcome),
                acknowledging' = Ended(IF outcome = "Ok" THEN "saved" ELSE "failed")
         PROVE  SavesReceipt(i)
    <2>1. /\ next \in Record(OpIds, {"intent"}, Saved)
          /\ next.acknowledged = Closes(receipt)
          /\ Closes(receipt) => next.report = None /\ next.effect = None
          /\ ~Closes(receipt) => next.report = record.report
          /\ next.accepted = receipt.report
      <3>1. Closes(receipt) \in BOOLEAN
        BY <1>2, Parts DEF Closes, Final, Uncertain
      <3>2. record.report \in Saved \union {None} /\ record.report # None
        BY <1>2, <1>3, <1>10, Parts, Kinds
      <3> QED
        BY <1>3, <1>10, <3>1, <3>2 DEF Record
    <2> HIDE DEF next
    <2>2. /\ disk' \in Disks
          /\ \A x \in OpIds : x # id => disk'[x] = disk[x]
          /\ \/ /\ outcome = "Ok" /\ disk'[id] = next
                /\ UNCHANGED <<poisoned, faulted>>
             \/ /\ outcome = "Storage" /\ poisoned' = TRUE /\ faulted' = TRUE
                /\ disk' = disk \/ disk'[id] = next
      BY <1>1, <1>2, <1>10, <2>1, Saving
    <2>3. next # None
      BY <2>1, Parts
    <2>4. ~Closes(receipt) => ~Final(receipt.report)
      BY DEF Closes
    <2>5. \/ disk'[id] = disk[id]
          \/ /\ disk'[id] # None
             /\ disk'[id].acknowledged <=> Closes(receipt)
             /\ IF Closes(receipt)
                THEN disk'[id].effect = None /\ disk'[id].report = None
                ELSE disk'[id].report = disk[id].report /\ ~Final(disk'[id].accepted)
      BY <2>1, <2>2, <2>3, <2>4
    <2>6. CASE outcome = "Ok"
      <3>1. acknowledging' = Ended("saved") /\ disk'[id] = next
        BY <1>10, <2>2, <2>6
      <3>2. Final(receipt.report) => next.acknowledged
        BY <2>1 DEF Closes
      <3> QED
        BY <1>1, <1>2, <1>4, <1>5, <1>10, <2>2, <2>5, <2>6, <3>1, <3>2 DEF SavesReceipt
    <2>7. CASE outcome = "Storage"
      <3>1. acknowledging' = Ended("failed")
        BY <1>10, <2>7
      <3> QED
        BY <1>1, <1>2, <1>4, <1>5, <1>10, <2>2, <2>5, <2>7, <3>1 DEF SavesReceipt
    <2> QED
      BY <2>6, <2>7
  <1> QED
    BY <1>7, <1>8, <1>9, <1>10 DEF SaveReceipt, Ended

(* run() ends: everything but the journal and the reports is dropped.      *)
Ends ==
    /\ run' = "ended"
    /\ cause' = "Ok" => run = "stopping" /\ Drained
    /\ active' = None /\ acknowledging' = <<>>
    /\ toManager' = <<>> /\ toClient' = <<>>
    /\ faulted' \in BOOLEAN
    /\ faulted => faulted'
    /\ UNCHANGED <<completed, disk, poisoned, begun, managerVars, starts, sessions>>

(* A saved receipt is taken out with the report that it confirms.          *)
Settles(i) ==
    LET receipt == acknowledging[i] IN
    /\ i \in DOMAIN acknowledging /\ receipt \in ReceiptRecord
    /\ run = "up" /\ receipt.phase = "saved"
    /\ acknowledging' \in Seq(ReceiptRecord)
    /\ \A k \in DOMAIN acknowledging' :
          \E j \in DOMAIN acknowledging : acknowledging'[k] = acknowledging[j]
    /\ completed' \in ReportTable
    /\ \A x \in OpIds :
          \/ completed'[x] = completed[x]
          \/ x = receipt.id /\ completed[x] = receipt.report /\ completed'[x] = None
    /\ UNCHANGED <<journalVars, managerVars, channelVars, run, cause, active, starts, sessions>>

LEMMA ReceiptSavedEffect ==
    ASSUME Inv, NEW i \in DOMAIN acknowledging, OnReceiptSaved(i)
    PROVE  Ends \/ Settles(i)
  <1> DEFINE receipt == acknowledging[i]
             rest == RemoveAt(acknowledging, i)
  <1>1. acknowledging \in Seq(ReceiptRecord) /\ completed \in ReportTable /\ faulted \in BOOLEAN
    BY DEF Inv, TransportTypeOK, ReportTable
  <1>2. receipt \in ReceiptRecord /\ receipt.id \in OpIds
    BY <1>1, Parts, LenProperties, ElementOfSeq
  <1>3. CASE receipt.phase = "failed" /\ EndRun("Configuration")
             /\ UNCHANGED <<journalVars, managerVars, starts, sessions>>
    BY <1>1, <1>3 DEF Ends, EndRun, journalVars
  <1>4. CASE /\ receipt.phase = "saved" /\ run = "up"
             /\ acknowledging' = rest
             /\ completed' = IF Confirmed(receipt)
                             THEN [completed EXCEPT ![receipt.id] = None] ELSE completed
             /\ UNCHANGED <<run, cause, active, channelVars>>
             /\ UNCHANGED <<journalVars, managerVars, starts, sessions>>
    <2>1. rest \in Seq(ReceiptRecord)
          /\ \A k \in DOMAIN rest : \E j \in DOMAIN acknowledging : rest[k] = acknowledging[j]
      BY <1>1, Removed
    <2>2. completed' \in ReportTable
          /\ \A x \in OpIds :
                \/ completed'[x] = completed[x]
                \/ x = receipt.id /\ completed[x] = receipt.report /\ completed'[x] = None
      BY <1>1, <1>2, <1>4 DEF Confirmed, ReportTable
    <2> HIDE DEF rest
    <2> QED
      BY <1>2, <1>4, <2>1, <2>2 DEF Settles
  <1> QED
    BY <1>3, <1>4 DEF OnReceiptSaved

LEMMA DrainEffect == Inv /\ (DrainedInTime \/ NotDrained) => Ends
BY DEF Inv, TransportTypeOK, DrainedInTime, NotDrained, EndRun, Ends, journalVars

(* The session reads the next message.                                     *)
Reads ==
    /\ run = "up" /\ toClient # <<>>
    /\ toClient' \in Seq(ClientMessage)
    /\ \A id \in OpIds : TaskOnTheWay(id)' => TaskOnTheWay(id)
    /\ ReceiptsComeLast'
    /\ UNCHANGED <<run, cause, journalVars, managerVars, starts, sessions>>

(* A delivery begins, and the report it may replace is given up.           *)
Begins ==
    \E id \in OpIds :
        /\ Reads /\ TaskOnTheWay(id)
        /\ active = None
        /\ completed[id] = None \/ Uncertain(completed[id])
        /\ active' \in DeliveryRecord /\ active'.id = id /\ active'.phase = "waiting"
        /\ completed' \in ReportTable /\ completed'[id] = None
        /\ \A x \in OpIds : x # id => completed'[x] = completed[x]
        /\ UNCHANGED <<acknowledging, toManager>>

(* A report that was computed before is sent again.                        *)
Repeats ==
    /\ Reads
    /\ toManager' \in Seq(ManagerMessage)
    /\ \A x \in OpIds, report \in Reports :
          Sent(x, report)' => Sent(x, report) \/ completed[x] = report
    /\ UNCHANGED <<active, completed, acknowledging>>

(* A receipt is to be saved.                                               *)
Notes ==
    \E receipt \in ReceiptRecord :
        /\ Reads
        /\ receipt.phase = "waiting"
        /\ completed[receipt.id] = receipt.report
        /\ Closes(receipt) => Final(known[receipt.id]) /\ ~TaskOnTheWay(receipt.id)'
        /\ acknowledging' \in Seq(ReceiptRecord)
        /\ \A k \in DOMAIN acknowledging' :
              \/ \E j \in DOMAIN acknowledging : acknowledging'[k] = acknowledging[j]
              \/ acknowledging'[k] = receipt
        /\ UNCHANGED <<active, completed, toManager>>

Ignores == Reads /\ UNCHANGED <<active, completed, acknowledging, toManager>>

(* What is read was the first message, and nothing moves past another one. *)
LEMMA Reading ==
    ASSUME Inv, run = "up", toClient # <<>>, toClient' = Tail(toClient),
           UNCHANGED <<run, cause, journalVars, managerVars, starts, sessions>>
    PROVE  /\ Reads
           /\ Head(toClient) \in ClientMessage
           /\ \A id \in OpIds : TaskMessage(Head(toClient), id) => TaskOnTheWay(id)
           /\ \A id \in OpIds : ClosingMessage(Head(toClient), id) =>
                 Final(known[id]) /\ ~TaskOnTheWay(id)'
  <1>1. toClient \in Seq(ClientMessage) /\ ReceiptsComeLast
    BY DEF Inv, TransportTypeOK
  <1> DEFINE rest == Tail(toClient)
  <1>2. /\ rest \in Seq(ClientMessage)
        /\ 1 \in DOMAIN toClient /\ Head(toClient) = toClient[1]
        /\ Head(toClient) \in ClientMessage
        /\ \A i \in DOMAIN rest :
              i \in Nat /\ i >= 1 /\ i + 1 \in DOMAIN toClient /\ rest[i] = toClient[i + 1]
    BY <1>1, Behead
  <1>3. toClient' = rest /\ known' = known
    BY DEF managerVars
  <1> HIDE DEF rest
  <1>4. ReceiptsComeLast'
    <2>1. ASSUME NEW id \in OpIds, NEW i \in DOMAIN rest, ClosingMessage(rest[i], id)
          PROVE  Final(known[id]) /\ \A j \in DOMAIN rest : j > i => ~TaskMessage(rest[j], id)
      <3>1. i + 1 \in DOMAIN toClient /\ ClosingMessage(toClient[i + 1], id)
        BY <1>2, <2>1
      <3>2. /\ Final(known[id])
            /\ \A j \in DOMAIN toClient : j > i + 1 => ~TaskMessage(toClient[j], id)
        BY <1>1, <3>1 DEF ReceiptsComeLast
      <3>3. ASSUME NEW j \in DOMAIN rest, j > i
            PROVE  ~TaskMessage(rest[j], id)
        <4>1. j + 1 \in DOMAIN toClient /\ j + 1 > i + 1 /\ rest[j] = toClient[j + 1]
          BY <1>2, <3>3
        <4> QED
          BY <3>2, <4>1
      <3> QED
        BY <3>2, <3>3
    <2> QED
      BY <1>3, <2>1 DEF ReceiptsComeLast, ClosingMessage, TaskMessage, Closes
  <1>5. \A id \in OpIds : TaskOnTheWay(id)' => TaskOnTheWay(id)
    <2>1. ASSUME NEW id \in OpIds, NEW i \in DOMAIN rest, TaskMessage(rest[i], id)
          PROVE  TaskOnTheWay(id)
      BY <1>2, <2>1 DEF TaskOnTheWay
    <2> QED
      BY <1>3, <2>1 DEF TaskOnTheWay, TaskMessage
  <1>6. Reads
    BY <1>2, <1>3, <1>4, <1>5 DEF Reads
  <1>7. ASSUME NEW id \in OpIds, ClosingMessage(Head(toClient), id)
        PROVE  Final(known[id]) /\ ~TaskOnTheWay(id)'
    <2>1. /\ Final(known[id])
          /\ \A j \in DOMAIN toClient : j > 1 => ~TaskMessage(toClient[j], id)
      BY <1>1, <1>2, <1>7 DEF ReceiptsComeLast
    <2>2. ASSUME NEW j \in DOMAIN rest
          PROVE  ~TaskMessage(rest[j], id)
      <3>1. j + 1 \in DOMAIN toClient /\ j + 1 > 1 /\ rest[j] = toClient[j + 1]
        BY <1>2
      <3> QED
        BY <2>1, <3>1
    <2> QED
      BY <1>3, <2>1, <2>2 DEF TaskOnTheWay, TaskMessage
  <1>8. \A id \in OpIds : TaskMessage(Head(toClient), id) => TaskOnTheWay(id)
    BY <1>2 DEF TaskOnTheWay
  <1> QED
    BY <1>2, <1>6, <1>7, <1>8

(* A result put at the end of the queue is the only new one.               *)
LEMMA Sending ==
    ASSUME Inv, NEW id \in OpIds, NEW report \in Reports,
           toManager' = Append(toManager, Result(id, report))
    PROVE  /\ toManager' \in Seq(ManagerMessage)
           /\ \A x \in OpIds, r \in Reports :
                 Sent(x, r)' => Sent(x, r) \/ (x = id /\ r = report)
  <1>1. toManager \in Seq(ManagerMessage)
    BY DEF Inv, TransportTypeOK
  <1>2. Result(id, report) \in ManagerMessage
        /\ Result(id, report).id = id /\ Result(id, report).report = report
    BY DEF Result, ManagerMessage, ResultMessage
  <1>3. /\ Append(toManager, Result(id, report)) \in Seq(ManagerMessage)
        /\ \A i \in DOMAIN Append(toManager, Result(id, report)) :
              \/ i \in DOMAIN toManager /\ Append(toManager, Result(id, report))[i] = toManager[i]
              \/ Append(toManager, Result(id, report))[i] = Result(id, report)
    BY <1>1, <1>2, Appended
  <1> HIDE DEF Result
  <1>4. /\ toManager' \in Seq(ManagerMessage)
        /\ \A i \in DOMAIN toManager' :
              \/ i \in DOMAIN toManager /\ toManager'[i] = toManager[i]
              \/ toManager'[i] = Result(id, report)
    BY <1>3
  <1> QED
    BY <1>2, <1>4 DEF Sent

(* on_message: a task, a receipt or the revocation of the device.          *)
LEMMA MessageEffect == Inv /\ OnMessage => Ends \/ Begins \/ Repeats \/ Notes \/ Ignores
  <1> SUFFICES ASSUME Inv, OnMessage
               PROVE  Ends \/ Begins \/ Repeats \/ Notes \/ Ignores
    OBVIOUS
  <1> DEFINE m == Head(toClient)
  <1>1. /\ run = "up" /\ toClient # <<>>
        /\ UNCHANGED <<journalVars, managerVars, starts, sessions>>
        /\ CASE m.type = "Task" -> OnTask(m)
             [] m.type = "ResultAccepted" -> OnResultAccepted(m)
             [] m.type = "Revoked" -> EndRun("Revoked")
    BY DEF OnMessage
  <1>2. /\ completed \in ReportTable /\ faulted \in BOOLEAN
        /\ acknowledging \in Seq(ReceiptRecord) /\ toClient \in Seq(ClientMessage)
        /\ active \in DeliveryRecord \union {None}
    BY DEF Inv, TransportTypeOK, ReportTable
  <1>3. m \in ClientMessage
    BY <1>1, <1>2, Behead
  <1> HIDE DEF m
  <1>4. ASSUME NEW error \in {"Protocol", "Revoked"}, EndRun(error)
        PROVE  Ends
    BY <1>1, <1>2, <1>4 DEF EndRun, Ends, journalVars
  <1>5. ASSUME toClient' = Tail(toClient), UNCHANGED <<run, cause>>
        PROVE  /\ Reads
               /\ \A id \in OpIds : TaskMessage(m, id) => TaskOnTheWay(id)
               /\ \A id \in OpIds : ClosingMessage(m, id) =>
                     Final(known[id]) /\ ~TaskOnTheWay(id)'
    BY <1>1, <1>5, Reading DEF m
  <1>6. CASE m.type = "Task"
    <2>1. OnTask(m) /\ m.id \in OpIds /\ m.mode \in Modes
      BY <1>1, <1>3, <1>6, Parts
    <2>2. CASE active # None
      BY <1>4, <1>5, <2>1, <2>2 DEF OnTask, Ignores
    <2>3. CASE active = None /\ NeedsExecution(m.id, m.mode)
      <3>1. /\ toClient' = Tail(toClient) /\ UNCHANGED <<run, cause, acknowledging, toManager>>
            /\ active' = Delivery(m.id, m.mode)
            /\ completed' = [completed EXCEPT ![m.id] = None]
        BY <2>1, <2>3 DEF OnTask
      <3>2. Reads /\ TaskOnTheWay(m.id)
        BY <1>5, <1>6, <2>1, <3>1 DEF TaskMessage
      <3>3. completed[m.id] = None \/ Uncertain(completed[m.id])
        BY <2>3 DEF NeedsExecution
      <3>4. active' \in DeliveryRecord /\ active'.id = m.id /\ active'.phase = "waiting"
        BY <2>1, <3>1 DEF Delivery, DeliveryRecord
      <3>5. completed' \in ReportTable /\ completed'[m.id] = None
            /\ \A x \in OpIds : x # m.id => completed'[x] = completed[x]
        BY <1>2, <2>1, <3>1 DEF ReportTable
      <3> QED
        BY <2>1, <2>3, <3>1, <3>2, <3>3, <3>4, <3>5 DEF Begins
    <2>4. CASE active = None /\ ~NeedsExecution(m.id, m.mode)
      <3>1. /\ toClient' = Tail(toClient)
            /\ UNCHANGED <<run, cause, acknowledging, active, completed>>
            /\ toManager' = Append(toManager, Result(m.id, completed[m.id]))
        BY <2>1, <2>4 DEF OnTask
      <3>2. completed[m.id] \in Reports
        BY <1>2, <2>1, <2>4 DEF NeedsExecution, ReportTable
      <3>3. /\ toManager' \in Seq(ManagerMessage)
            /\ \A x \in OpIds, r \in Reports :
                  Sent(x, r)' => Sent(x, r) \/ (x = m.id /\ r = completed[m.id])
        BY <2>1, <3>1, <3>2, Sending
      <3> QED
        BY <1>5, <3>1, <3>3 DEF Repeats
    <2> QED
      BY <2>2, <2>3, <2>4
  <1>7. CASE m.type = "ResultAccepted"
    <2>1. OnResultAccepted(m)
          /\ m.id \in OpIds /\ m.report \in Reports /\ m.finalized \in BOOLEAN
      BY <1>1, <1>3, <1>7, Parts
    <2>2. CASE completed[m.id] = None
      BY <1>5, <2>1, <2>2 DEF OnResultAccepted, Ignores
    <2>3. CASE completed[m.id] # None /\ completed[m.id] # m.report
      BY <1>4, <2>1, <2>3 DEF OnResultAccepted
    <2>4. CASE completed[m.id] # None /\ completed[m.id] = m.report
      <3>1. PICK receipt \in ReceiptRecord :
               /\ receipt = Receipt(m.id, m.report, m.finalized)
               /\ receipt.phase = "waiting" /\ receipt.id = m.id
               /\ receipt.report = m.report /\ receipt.finalized = m.finalized
        <4>1. Receipt(m.id, m.report, m.finalized) \in ReceiptRecord
          BY <2>1 DEF Receipt, ReceiptRecord
        <4>2. /\ Receipt(m.id, m.report, m.finalized).id = m.id
              /\ Receipt(m.id, m.report, m.finalized).report = m.report
              /\ Receipt(m.id, m.report, m.finalized).finalized = m.finalized
              /\ Receipt(m.id, m.report, m.finalized).phase = "waiting"
          BY DEF Receipt
        <4> QED
          BY <4>1, <4>2
      <3>2. /\ acknowledging' = Append(acknowledging, receipt)
            /\ toClient' = Tail(toClient)
            /\ UNCHANGED <<run, cause, active, completed, toManager>>
        BY <2>1, <2>4, <3>1 DEF OnResultAccepted
      <3>3. Closes(receipt) => ClosingMessage(m, receipt.id)
        BY <1>7, <3>1 DEF ClosingMessage, Closes
      <3>4. Reads /\ (Closes(receipt) => Final(known[receipt.id]) /\ ~TaskOnTheWay(receipt.id)')
        BY <1>5, <2>1, <3>1, <3>2, <3>3
      <3>5. /\ Append(acknowledging, receipt) \in Seq(ReceiptRecord)
            /\ \A k \in DOMAIN Append(acknowledging, receipt) :
                  \/ /\ k \in DOMAIN acknowledging
                     /\ Append(acknowledging, receipt)[k] = acknowledging[k]
                  \/ Append(acknowledging, receipt)[k] = receipt
        BY <1>2, Appended
      <3>6. /\ acknowledging' \in Seq(ReceiptRecord)
            /\ \A k \in DOMAIN acknowledging' :
                  \/ \E j \in DOMAIN acknowledging : acknowledging'[k] = acknowledging[j]
                  \/ acknowledging'[k] = receipt
        BY <3>2, <3>5
      <3>7. completed[receipt.id] = receipt.report
        BY <2>4, <3>1
      <3> QED
        BY <3>1, <3>2, <3>4, <3>6, <3>7 DEF Notes
    <2> QED
      BY <2>2, <2>3, <2>4
  <1>8. CASE m.type = "Revoked"
    BY <1>1, <1>4, <1>8
  <1> QED
    BY <1>3, <1>6, <1>7, <1>8, Parts

(* The report of the delivery is the one to be confirmed, and is sent.     *)
Returns ==
    /\ run = "up"
    /\ active # None /\ active.phase = "done" /\ active' = None
    /\ completed' \in ReportTable /\ completed'[active.id] = active.report
    /\ \A x \in OpIds : x # active.id => completed'[x] = completed[x]
    /\ toManager' \in Seq(ManagerMessage)
    /\ \A x \in OpIds, report \in Reports :
          Sent(x, report)' => Sent(x, report) \/ (x = active.id /\ report = active.report)
    /\ UNCHANGED <<run, cause, acknowledging, toClient, journalVars, managerVars,
                   starts, sessions>>

LEMMA ExecutedEffect == Inv /\ OnExecuted => Returns
  <1> SUFFICES ASSUME Inv, OnExecuted PROVE Returns
    OBVIOUS
  <1>1. /\ active # None /\ active.phase = "done"
        /\ active.id \in OpIds /\ active.report \in Reports
        /\ completed \in ReportTable
    BY Parts DEF OnExecuted, Inv, TransportTypeOK, DeliveryIsSound, ReportTable
  <1>2. completed' = [completed EXCEPT ![active.id] = active.report]
        /\ toManager' = Append(toManager, Result(active.id, active.report))
    BY DEF OnExecuted
  <1>3. completed' \in ReportTable /\ completed'[active.id] = active.report
        /\ \A x \in OpIds : x # active.id => completed'[x] = completed[x]
    BY <1>1, <1>2 DEF ReportTable
  <1>4. /\ toManager' \in Seq(ManagerMessage)
        /\ \A x \in OpIds, report \in Reports :
              Sent(x, report)' => Sent(x, report) \/ (x = active.id /\ report = active.report)
    BY <1>1, <1>2, Sending
  <1> QED
    BY <1>1, <1>3, <1>4 DEF OnExecuted, Returns

(* What is still owed is in the journal.                                   *)
LEMMA PendingIsRecorded ==
    ASSUME Inv
    PROVE  \A id \in Pending : /\ id \in OpIds /\ disk[id] # None
                               /\ disk[id].report \in Reports
                               /\ ~disk[id].acknowledged
BY Parts, Kinds DEF Inv, TransportTypeOK, Pending, ResultOwed

(* The heartbeat offers what is owed.                                      *)
Offers ==
    /\ run = "up" /\ active = None
    /\ completed' \in ReportTable
    /\ \A x \in OpIds :
          \/ completed'[x] = completed[x]
          \/ completed[x] = None /\ x \in Pending /\ completed'[x] = disk[x].report
    /\ toManager' \in Seq(ManagerMessage)
    /\ \A x \in OpIds, report \in Reports :
          Sent(x, report)' => Sent(x, report) \/ Recorded(x, report)
    /\ \A x \in OpIds : Sent(x, "Rejected.JournalFull")' => Sent(x, "Rejected.JournalFull")
    /\ UNCHANGED <<run, cause, active, acknowledging, toClient, journalVars, managerVars,
                   starts, sessions>>

LEMMA TickEffect == Inv /\ OnTick => Ends \/ Offers
  <1> SUFFICES ASSUME Inv, OnTick PROVE Ends \/ Offers
    OBVIOUS
  <1>1. /\ run = "up" /\ active = None
        /\ UNCHANGED <<disk, poisoned, begun, managerVars, starts, sessions>>
    BY DEF OnTick
  <1>2. /\ completed \in ReportTable /\ faulted \in BOOLEAN
        /\ toManager \in Seq(ManagerMessage) /\ disk \in Disks
    BY DEF Inv, TransportTypeOK, ReportTable, Disks
  <1>3. CASE Faulty /\ EndRun("Configuration")
    BY <1>1, <1>2, <1>3 DEF Faulty, Fault, EndRun, Ends
  <1>4. CASE /\ completed' = [id \in OpIds |->
                   IF id \in Offered /\ completed[id] = None THEN disk[id].report
                   ELSE completed[id]]
             /\ toManager' = toManager \o ResultsOf([id \in Offered |-> disk[id].report])
             /\ UNCHANGED <<run, cause, active, acknowledging, toClient, faulted>>
    <2> DEFINE owed == [id \in Pending |-> disk[id].report]
    <2>1. Pending \in SUBSET OpIds /\ owed \in [Pending -> Reports]
      BY PendingIsRecorded DEF Pending
    <2>2. /\ completed' \in ReportTable
          /\ \A x \in OpIds :
                \/ completed'[x] = completed[x]
                \/ completed[x] = None /\ x \in Pending /\ completed'[x] = disk[x].report
      BY <1>2, <1>4, PendingIsRecorded DEF Offered, ReportTable
    <2>3. /\ ResultsOf(owed) \in Seq(ManagerMessage)
          /\ \A i \in DOMAIN ResultsOf(owed) :
                \E id \in Pending : ResultsOf(owed)[i] = Result(id, owed[id])
      BY <2>1, Results
    <2>4. \A id \in Pending : owed[id] = disk[id].report
      OBVIOUS
    <2>5. toManager' = toManager \o ResultsOf(owed)
      BY <1>4 DEF Offered
    <2> HIDE DEF owed
    <2>6. /\ toManager \o ResultsOf(owed) \in Seq(ManagerMessage)
          /\ \A i \in DOMAIN (toManager \o ResultsOf(owed)) :
                \/ i \in DOMAIN toManager /\ (toManager \o ResultsOf(owed))[i] = toManager[i]
                \/ \E j \in DOMAIN ResultsOf(owed) :
                      (toManager \o ResultsOf(owed))[i] = ResultsOf(owed)[j]
      BY <1>2, <2>3, Joined
    <2>7. /\ toManager' \in Seq(ManagerMessage)
          /\ \A i \in DOMAIN toManager' :
                \/ i \in DOMAIN toManager /\ toManager'[i] = toManager[i]
                \/ \E id \in Pending : toManager'[i] = Result(id, disk[id].report)
      BY <2>3, <2>4, <2>5, <2>6
    <2>8. ASSUME NEW x \in OpIds, NEW report \in Reports, Sent(x, report)'
          PROVE  Sent(x, report) \/ Recorded(x, report)
      <3>1. PICK i \in DOMAIN toManager' :
               /\ toManager'[i].type = "Result" /\ toManager'[i].id = x
               /\ toManager'[i].report = report
        BY <2>8 DEF Sent
      <3>2. CASE i \in DOMAIN toManager /\ toManager'[i] = toManager[i]
        BY <3>1, <3>2 DEF Sent
      <3>3. CASE \E id \in Pending : toManager'[i] = Result(id, disk[id].report)
        <4>1. PICK id \in Pending : toManager'[i] = Result(id, disk[id].report)
          BY <3>3
        <4>2. x = id /\ report = disk[id].report
          BY <3>1, <4>1 DEF Result
        <4> QED
          BY <4>1, <4>2, PendingIsRecorded DEF Recorded
      <3> QED
        BY <2>7, <3>2, <3>3
    <2>9. \A x \in OpIds : ~Recorded(x, "Rejected.JournalFull")
      BY <1>2, Parts, Kinds DEF Recorded, Disks
    <2>10. \A x \in OpIds : Sent(x, "Rejected.JournalFull")' => Sent(x, "Rejected.JournalFull")
      BY <2>8, <2>9, Kinds
    <2> QED
      BY <1>1, <1>4, <2>2, <2>7, <2>8, <2>10 DEF Offers, journalVars
  <1> QED
    BY <1>3, <1>4 DEF OnTick

(* A session begins with what is not confirmed.                            *)
Connects ==
    /\ run = "down" /\ run' = "up"
    /\ toManager' \in Seq(ManagerMessage)
    /\ \A x \in OpIds, report \in Reports : Sent(x, report)' => completed[x] = report
    /\ sessions' \in Nat
    /\ UNCHANGED <<cause, active, completed, acknowledging, toClient, journalVars,
                   managerVars, starts>>

LEMMA ConnectEffect == Inv /\ Connect => Connects
  <1> SUFFICES ASSUME Inv, Connect PROVE Connects
    OBVIOUS
  <1> DEFINE hello == [type |-> "Hello", id |-> IF active = None THEN None ELSE active.id]
             reports == [id \in Unconfirmed |-> completed[id]]
  <1>1. /\ completed \in ReportTable /\ sessions \in Nat
        /\ active \in DeliveryRecord \union {None}
    BY DEF Inv, TransportTypeOK, ReportTable
  <1>2. /\ Unconfirmed \in SUBSET OpIds
        /\ reports \in [Unconfirmed -> Reports]
        /\ \A id \in Unconfirmed : reports[id] = completed[id]
    BY <1>1 DEF Unconfirmed, ReportTable
  <1>3. hello \in ManagerMessage /\ hello.type = "Hello"
    BY <1>1, Parts DEF ManagerMessage
  <1>4. toManager' = <<hello>> \o ResultsOf(reports)
    BY DEF Connect
  <1>5. /\ ResultsOf(reports) \in Seq(ManagerMessage)
        /\ \A i \in DOMAIN ResultsOf(reports) :
              \E id \in Unconfirmed : ResultsOf(reports)[i] = Result(id, reports[id])
    BY <1>2, Results
  <1> HIDE DEF hello, reports
  <1>6. <<hello>> \in Seq(ManagerMessage) /\ \A i \in DOMAIN <<hello>> : <<hello>>[i] = hello
    BY <1>3
  <1>7. /\ <<hello>> \o ResultsOf(reports) \in Seq(ManagerMessage)
        /\ \A i \in DOMAIN (<<hello>> \o ResultsOf(reports)) :
              \/ /\ i \in DOMAIN <<hello>>
                 /\ (<<hello>> \o ResultsOf(reports))[i] = <<hello>>[i]
              \/ \E j \in DOMAIN ResultsOf(reports) :
                    (<<hello>> \o ResultsOf(reports))[i] = ResultsOf(reports)[j]
    BY <1>5, <1>6, Joined
  <1>8. /\ toManager' \in Seq(ManagerMessage)
        /\ \A i \in DOMAIN toManager' :
              \/ toManager'[i].type = "Hello"
              \/ \E id \in Unconfirmed : toManager'[i] = Result(id, completed[id])
    BY ZenonT(40), <1>2, <1>3, <1>4, <1>5, <1>6, <1>7
  <1>9. \A x \in OpIds, report \in Reports : Sent(x, report)' => completed[x] = report
    BY <1>8 DEF Sent, Result
  <1> QED
    BY <1>1, <1>8, <1>9 DEF Connect, Connects

(* The session is gone with what was on the way; the process goes on.      *)
Leaves ==
    /\ run' \in {"down", "stopping"}
    /\ run \in {"down", "up"}
    /\ toManager' = <<>> /\ toClient' = <<>>
    /\ UNCHANGED <<cause, active, completed, acknowledging, journalVars, managerVars,
                   starts, sessions>>

LEMMA LeaveEffect == Disconnect \/ Stop => Leaves
BY DEF Disconnect, Stop, Leaves

(* The Manager reads a message: what it has for good stays, and what it    *)
(* learns was sent.                                                        *)
Hears ==
    /\ run = "up"
    /\ toManager' \in Seq(ManagerMessage)
    /\ \A x \in OpIds, report \in Reports : Sent(x, report)' => Sent(x, report)
    /\ toClient' \in Seq(ClientMessage)
    /\ \A x \in OpIds : TaskOnTheWay(x)' => TaskOnTheWay(x)
    /\ ReceiptsComeLast'
    /\ known' \in [OpIds -> Reports \union {None, "Resolved"}]
    /\ \A x \in OpIds :
          \/ known'[x] = known[x]
          \/ ~Final(known[x]) /\ known'[x] \in Reports /\ Sent(x, known'[x])
    /\ busy' \in OpIds \union {None}
    /\ UNCHANGED <<deliveries, journalVars, runVars, starts, sessions>>

(* A message for the client that is no task and, if it is a receipt that   *)
(* closes an operation, follows the Manager's decision, goes behind the    *)
(* others.                                                                 *)
LEMMA Posting ==
    ASSUME Inv, NEW m \in ClientMessage, toClient' = Append(toClient, m),
           \A x \in OpIds : Final(known[x]) => Final(known'[x]),
           \A x \in OpIds : ClosingMessage(m, x) => Final(known'[x]),
           \A x \in OpIds : TaskMessage(m, x) => ~Final(known[x])
    PROVE  /\ toClient' \in Seq(ClientMessage)
           /\ \A x \in OpIds : TaskOnTheWay(x)' => TaskOnTheWay(x) \/ TaskMessage(m, x)
           /\ ReceiptsComeLast'
  <1> DEFINE longer == Append(toClient, m)
  <1>1. toClient \in Seq(ClientMessage) /\ ReceiptsComeLast
    BY DEF Inv, TransportTypeOK
  <1>2. /\ longer \in Seq(ClientMessage)
        /\ \A i \in DOMAIN longer :
              \/ i \in DOMAIN toClient /\ longer[i] = toClient[i]
              \/ longer[i] = m /\ \A j \in DOMAIN longer : j <= i
    BY <1>1, Appended
  <1>3. toClient' = longer /\ DOMAIN longer \subseteq Nat
    BY <1>2, LenProperties
  <1> HIDE DEF longer
  <1>4. \A x \in OpIds : TaskOnTheWay(x)' => TaskOnTheWay(x) \/ TaskMessage(m, x)
    BY <1>2, <1>3 DEF TaskOnTheWay, TaskMessage
  <1>5. ASSUME NEW x \in OpIds, NEW i \in DOMAIN longer, ClosingMessage(longer[i], x)
        PROVE  Final(known'[x]) /\ \A j \in DOMAIN longer : j > i => ~TaskMessage(longer[j], x)
    <2>1. CASE i \in DOMAIN toClient /\ longer[i] = toClient[i]
      <3>1. /\ Final(known[x])
            /\ \A j \in DOMAIN toClient : j > i => ~TaskMessage(toClient[j], x)
        BY <1>1, <1>5, <2>1 DEF ReceiptsComeLast
      <3> QED
        BY <1>2, <3>1
    <2>2. CASE longer[i] = m /\ \A j \in DOMAIN longer : j <= i
      BY <1>3, <1>5, <2>2
    <2> QED
      BY <1>2, <2>1, <2>2
  <1>6. ReceiptsComeLast'
    BY <1>3, <1>5 DEF ReceiptsComeLast, ClosingMessage, TaskMessage, Closes
  <1> QED
    BY <1>2, <1>3, <1>4, <1>6

(* While the Manager's decisions stand, receipts on the way are in order.  *)
LEMMA StillLast ==
    ASSUME Inv, UNCHANGED toClient, \A x \in OpIds : Final(known[x]) => Final(known'[x])
    PROVE  ReceiptsComeLast'
BY DEF Inv, ReceiptsComeLast, ClosingMessage, TaskMessage, Closes

LEMMA HearEffect == Inv /\ ManagerReceives => Hears
  <1> SUFFICES ASSUME Inv, ManagerReceives PROVE Hears
    OBVIOUS
  <1> DEFINE m == Head(toManager)
             rest == Tail(toManager)
             id == m.id
             reply == Accepted(id, m.report, Final(known[id]) \/ Final(m.report))
  <1>1. /\ toManager \in Seq(ManagerMessage) /\ toClient \in Seq(ClientMessage)
        /\ known \in [OpIds -> Reports \union {None, "Resolved"}]
        /\ busy \in OpIds \union {None}
        /\ toManager # <<>> => run = "up"
    BY DEF Inv, TransportTypeOK, RunIsSound
  <1>2. /\ toManager # <<>> /\ toManager' = rest
        /\ UNCHANGED <<deliveries, journalVars, runVars, starts, sessions>>
    BY DEF ManagerReceives, ManagerUnchanged
  <1>3. /\ rest \in Seq(ManagerMessage) /\ m \in ManagerMessage
        /\ 1 \in DOMAIN toManager /\ m = toManager[1]
        /\ \A i \in DOMAIN rest : i + 1 \in DOMAIN toManager /\ rest[i] = toManager[i + 1]
    BY <1>1, <1>2, Behead
  <1> HIDE DEF m, rest
  <1>4. \A x \in OpIds, report \in Reports : Sent(x, report)' => Sent(x, report)
    BY <1>2, <1>3 DEF Sent
  <1>5. CASE m.type = "Hello" /\ busy' = m.id /\ UNCHANGED <<known, toClient>>
    <2>1. ReceiptsComeLast'
      BY <1>5, StillLast
    <2>2. \A x \in OpIds : TaskOnTheWay(x)' => TaskOnTheWay(x)
      BY <1>5 DEF TaskOnTheWay, TaskMessage
    <2>3. busy' \in OpIds \union {None}
      BY <1>3, <1>5, Parts
    <2> QED
      BY <1>1, <1>2, <1>3, <1>4, <1>5, <2>1, <2>2, <2>3 DEF Hears
  <1>6. CASE /\ m.type = "Result"
             /\ busy' = IF busy = id THEN None ELSE busy
             /\ known' = [known EXCEPT ![id] = IF Final(@) THEN @ ELSE m.report]
             /\ toClient' = Append(toClient, reply)
    <2>1. id \in OpIds /\ m.report \in Reports /\ Sent(id, m.report)
      BY <1>3, <1>6, Parts DEF Sent
    <2>2. /\ known' \in [OpIds -> Reports \union {None, "Resolved"}]
          /\ known'[id] = IF Final(known[id]) THEN known[id] ELSE m.report
          /\ \A x \in OpIds : x # id => known'[x] = known[x]
      BY <1>1, <1>6, <2>1
    <2>3. \A x \in OpIds :
             \/ known'[x] = known[x]
             \/ ~Final(known[x]) /\ known'[x] \in Reports /\ Sent(x, known'[x])
      BY <2>1, <2>2
    <2>4. PICK answer \in ClientMessage :
             /\ answer = reply /\ answer.type = "ResultAccepted"
             /\ answer.id = id /\ answer.report = m.report
             /\ answer.finalized = (Final(known[id]) \/ Final(m.report))
      <3>1. (Final(known[id]) \/ Final(m.report)) \in BOOLEAN
        BY DEF Final, Uncertain
      <3>2. reply \in ClientMessage
        BY <2>1, <3>1 DEF Accepted, ClientMessage
      <3>3. /\ reply.type = "ResultAccepted" /\ reply.id = id /\ reply.report = m.report
            /\ reply.finalized = (Final(known[id]) \/ Final(m.report))
        BY DEF Accepted
      <3> QED
        BY <3>2, <3>3
    <2>5. \A x \in OpIds : ClosingMessage(answer, x) => Final(known'[x])
      BY <2>1, <2>2, <2>4 DEF ClosingMessage, Closes
    <2>6. \A x \in OpIds : Final(known[x]) => Final(known'[x])
      BY <2>3
    <2>7. \A x \in OpIds : ~TaskMessage(answer, x)
      BY <2>4 DEF TaskMessage
    <2>8. toClient' = Append(toClient, answer)
      BY <1>6, <2>4
    <2>9. /\ toClient' \in Seq(ClientMessage)
          /\ \A x \in OpIds : TaskOnTheWay(x)' => TaskOnTheWay(x) \/ TaskMessage(answer, x)
          /\ ReceiptsComeLast'
      BY <2>5, <2>6, <2>7, <2>8, Posting
    <2> QED
      BY <1>1, <1>2, <1>3, <1>4, <1>6, <2>2, <2>3, <2>7, <2>9 DEF Hears
  <1> QED
    BY <1>2, <1>5, <1>6 DEF ManagerReceives, ToClient, m, rest

(* A task is sent for an operation that the Manager has not closed.        *)
Sends ==
    \E id \in OpIds :
        /\ run = "up" /\ ~Final(known[id])
        /\ toClient' \in Seq(ClientMessage)
        /\ \A x \in OpIds : TaskOnTheWay(x)' => TaskOnTheWay(x) \/ x = id
        /\ ReceiptsComeLast'
        /\ busy' \in OpIds \union {None}
        /\ deliveries' \in [OpIds -> Nat]
        /\ UNCHANGED <<known, toManager, journalVars, runVars, starts, sessions>>

LEMMA SendEffect == Inv /\ ManagerSends => Sends
  <1> SUFFICES ASSUME Inv, ManagerSends PROVE Sends
    OBVIOUS
  <1>1. PICK id \in OpIds, mode \in Modes :
           /\ run = "up" /\ ~Final(known[id])
           /\ deliveries' = [deliveries EXCEPT ![id] = @ + 1]
           /\ busy' = id
           /\ toClient' = Append(toClient, [type |-> "Task", id |-> id, mode |-> mode])
           /\ UNCHANGED <<known, toManager, journalVars, runVars, starts, sessions>>
    BY DEF ManagerSends, ToClient, ManagerUnchanged
  <1>2. PICK m \in ClientMessage :
           m = [type |-> "Task", id |-> id, mode |-> mode]
    BY DEF ClientMessage
  <1>3. \A x \in OpIds : /\ ~ClosingMessage(m, x)
                         /\ TaskMessage(m, x) => x = id
    BY <1>2 DEF ClosingMessage, TaskMessage
  <1>4. toClient' = Append(toClient, m)
    BY <1>1, <1>2
  <1>5. /\ toClient' \in Seq(ClientMessage)
        /\ \A x \in OpIds : TaskOnTheWay(x)' => TaskOnTheWay(x) \/ TaskMessage(m, x)
        /\ ReceiptsComeLast'
    BY <1>1, <1>3, <1>4, Posting
  <1>6. deliveries' \in [OpIds -> Nat]
    BY <1>1 DEF Inv, TransportTypeOK
  <1> QED
    BY <1>1, <1>3, <1>5, <1>6 DEF Sends

(* Someone settles an uncertain operation, or the device is revoked.       *)
Decides ==
    /\ known' \in [OpIds -> Reports \union {None, "Resolved"}]
    /\ \A x \in OpIds :
          known'[x] = known[x] \/ (~Final(known[x]) /\ known'[x] = "Resolved")
    /\ toClient' \in Seq(ClientMessage)
    /\ \A x \in OpIds : TaskOnTheWay(x)' => TaskOnTheWay(x)
    /\ ReceiptsComeLast'
    /\ toClient' # <<>> => run = "up"
    /\ UNCHANGED <<busy, deliveries, toManager, journalVars, runVars, starts, sessions>>

LEMMA DecideEffect == Inv /\ (ManagerResolves \/ ManagerRevokes) => Decides
  <1> SUFFICES ASSUME Inv, ManagerResolves \/ ManagerRevokes PROVE Decides
    OBVIOUS
  <1>1. /\ known \in [OpIds -> Reports \union {None, "Resolved"}]
        /\ toClient \in Seq(ClientMessage)
        /\ toClient # <<>> => run = "up"
    BY DEF Inv, TransportTypeOK, RunIsSound
  <1>2. CASE ManagerResolves
    <2>1. PICK id \in OpIds :
             /\ Uncertain(known[id]) /\ known' = [known EXCEPT ![id] = "Resolved"]
             /\ UNCHANGED <<busy, deliveries, channelVars, journalVars, runVars, starts, sessions>>
      BY <1>2 DEF ManagerResolves, ManagerUnchanged
    <2>2. /\ known' \in [OpIds -> Reports \union {None, "Resolved"}]
          /\ \A x \in OpIds :
                known'[x] = known[x] \/ (~Final(known[x]) /\ known'[x] = "Resolved")
      BY <1>1, <2>1 DEF Final
    <2>3. ReceiptsComeLast'
      BY <2>1, <2>2, Kinds, StillLast DEF channelVars
    <2>4. \A x \in OpIds : TaskOnTheWay(x)' => TaskOnTheWay(x)
      BY <2>1 DEF TaskOnTheWay, TaskMessage, channelVars
    <2> QED
      BY <1>1, <2>1, <2>2, <2>3, <2>4 DEF Decides, channelVars
  <1>3. CASE ManagerRevokes
    <2>1. PICK m \in ClientMessage : m = [type |-> "Revoked"]
      BY DEF ClientMessage
    <2>2. /\ run = "up" /\ toClient' = Append(toClient, m)
          /\ UNCHANGED <<toManager, managerVars, journalVars, runVars, starts, sessions>>
      BY <1>3, <2>1 DEF ManagerRevokes, ManagerUnchanged, ToClient
    <2>3. \A x \in OpIds : ~ClosingMessage(m, x) /\ ~TaskMessage(m, x)
      BY <2>1 DEF ClosingMessage, TaskMessage
    <2>4. /\ toClient' \in Seq(ClientMessage)
          /\ \A x \in OpIds : TaskOnTheWay(x)' => TaskOnTheWay(x) \/ TaskMessage(m, x)
          /\ ReceiptsComeLast'
      BY <2>2, <2>3, Posting DEF managerVars
    <2> QED
      BY <1>1, <2>2, <2>3, <2>4 DEF Decides, managerVars
  <1> QED
    BY <1>2, <1>3

(* A process starts with what is owed, and one that dies leaves the        *)
(* journal only.                                                           *)
Starts ==
    /\ run = "off" /\ run' = "down"
    /\ active = None /\ acknowledging = <<>> /\ toManager = <<>> /\ toClient = <<>>
    /\ cause = None
    /\ poisoned' = FALSE /\ faulted' = FALSE /\ begun' = {}
    /\ completed' \in ReportTable
    /\ \A x \in OpIds : completed'[x] = IF x \in Pending THEN disk[x].report ELSE None
    /\ starts' \in Nat /\ sessions' \in Nat
    /\ UNCHANGED <<disk, cause, active, acknowledging, channelVars, managerVars>>

Dies ==
    /\ run' = "off" /\ cause' = None
    /\ active' = None /\ acknowledging' = <<>>
    /\ toManager' = <<>> /\ toClient' = <<>>
    /\ completed' \in ReportTable
    /\ \A x \in OpIds : completed'[x] = None
    /\ UNCHANGED <<journalVars, managerVars, starts, sessions>>

LEMMA StartEffect == Inv /\ Start => Starts
  <1> SUFFICES ASSUME Inv, Start PROVE Starts
    OBVIOUS
  <1>1. /\ active = None /\ acknowledging = <<>> /\ toManager = <<>> /\ toClient = <<>>
        /\ cause = None /\ starts \in Nat
    BY DEF Inv, RunIsSound, TransportTypeOK, Start
  <1>2. completed' \in ReportTable
        /\ \A x \in OpIds : completed'[x] = IF x \in Pending THEN disk[x].report ELSE None
    BY PendingIsRecorded DEF Start, ReportTable
  <1> QED
    BY <1>1, <1>2 DEF Start, Starts

LEMMA CrashEffect == Crash => Dies
BY DEF Crash, Dies, ReportTable

(* One of these happens at every step.                                     *)
Step ==
    \/ Works
    \/ \E i \in DOMAIN acknowledging : SavesReceipt(i) \/ Settles(i)
    \/ Ends
    \/ Begins
    \/ Repeats
    \/ Notes
    \/ Ignores
    \/ Returns
    \/ Offers
    \/ Connects
    \/ Leaves
    \/ Hears
    \/ Sends
    \/ Decides
    \/ Starts
    \/ Dies
    \/ UNCHANGED vars

LEMMA EveryStep == Inv /\ [Next]_vars => Step
  <1> SUFFICES ASSUME Inv, [Next]_vars PROVE Step
    OBVIOUS
  <1>1. CASE Lock \/ Remember \/ Finish
    BY <1>1, LockWorks, CommitWorks DEF Step
  <1>2. CASE \E i \in DOMAIN acknowledging : SaveReceipt(i) \/ OnReceiptSaved(i)
    BY <1>2, SaveReceiptEffect, ReceiptSavedEffect DEF Step
  <1>3. CASE Start \/ Crash \/ Connect \/ Disconnect \/ Stop
    BY <1>3, StartEffect, CrashEffect, ConnectEffect, LeaveEffect DEF Step
  <1>4. CASE OnMessage \/ OnExecuted \/ OnTick \/ DrainedInTime \/ NotDrained
    BY <1>4, MessageEffect, ExecutedEffect, TickEffect, DrainEffect DEF Step
  <1>5. CASE ManagerReceives \/ ManagerSends \/ ManagerResolves \/ ManagerRevokes
    BY <1>5, HearEffect, SendEffect, DecideEffect DEF Step
  <1>6. CASE UNCHANGED vars
    BY <1>6 DEF Step
  <1> QED
    BY <1>1, <1>2, <1>3, <1>4, <1>5, <1>6 DEF Next

(***************************************************************************)
(* Every conjunct of the invariant is kept                                 *)
(***************************************************************************)

LEMMA TypeStep == Inv /\ Step => TransportTypeOK'
  <1> SUFFICES ASSUME Inv, Step PROVE TransportTypeOK'
    OBVIOUS
  <1>1. TransportTypeOK
    BY DEF Inv
  <1>2. <<>> \in Seq(ReceiptRecord) /\ <<>> \in Seq(ManagerMessage) /\ <<>> \in Seq(ClientMessage)
    BY EmptySeq
  <1>3. CASE Works
    BY <1>1, <1>3 DEF TransportTypeOK, Works, Disks, EngineUnchanged, channelVars, managerVars
  <1>4. ASSUME NEW i \in DOMAIN acknowledging, SavesReceipt(i)
        PROVE  TransportTypeOK'
    BY <1>1, <1>4 DEF TransportTypeOK, SavesReceipt, Disks, channelVars, managerVars
  <1>5. ASSUME NEW i \in DOMAIN acknowledging, Settles(i)
        PROVE  TransportTypeOK'
    BY <1>1, <1>5 DEF TransportTypeOK, Settles, ReportTable, channelVars, managerVars, journalVars
  <1>6. CASE Ends \/ Leaves
    BY <1>1, <1>2, <1>6 DEF TransportTypeOK, Ends, Leaves, managerVars, journalVars
  <1>7. CASE Begins \/ Repeats \/ Notes \/ Ignores
    BY <1>1, <1>7 DEF TransportTypeOK, Begins, Repeats, Notes, Ignores, Reads, ReportTable,
                      managerVars, journalVars
  <1>8. CASE Returns \/ Offers \/ Connects
    BY <1>1, <1>8 DEF TransportTypeOK, Returns, Offers, Connects, ReportTable,
                      managerVars, journalVars
  <1>9. CASE Hears \/ Sends \/ Decides
    BY <1>1, <1>9 DEF TransportTypeOK, Hears, Sends, Decides, runVars, journalVars
  <1>10. CASE Starts \/ Dies
    BY <1>1, <1>2, <1>10 DEF TransportTypeOK, Starts, Dies, ReportTable,
                             channelVars, managerVars, journalVars
  <1>11. CASE UNCHANGED vars
    BY <1>1, <1>11 DEF TransportTypeOK, vars, runVars, channelVars, managerVars, journalVars
  <1> QED
    BY <1>3, <1>4, <1>5, <1>6, <1>7, <1>8, <1>9, <1>10, <1>11 DEF Step

(* Steps that leave the journal's files as they are.                       *)
LEMMA DiskUnchanged ==
    ASSUME Step, ~Works, \A i \in DOMAIN acknowledging : ~SavesReceipt(i)
    PROVE  disk' = disk
  <1>1. CASE \E i \in DOMAIN acknowledging : Settles(i)
    BY <1>1 DEF Settles, journalVars
  <1>2. CASE Ends \/ Leaves \/ Begins \/ Repeats \/ Notes \/ Ignores
    BY <1>2 DEF Ends, Leaves, Begins, Repeats, Notes, Ignores, Reads, journalVars
  <1>3. CASE Returns \/ Offers \/ Connects \/ Hears \/ Sends \/ Decides
    BY <1>3 DEF Returns, Offers, Connects, Hears, Sends, Decides, journalVars
  <1>4. CASE Starts \/ Dies \/ UNCHANGED vars
    BY <1>4 DEF Starts, Dies, vars, journalVars
  <1> QED
    BY <1>1, <1>2, <1>3, <1>4 DEF Step

LEMMA RecordsStep == Inv /\ Step => RecordsAreSound'
  <1> SUFFICES ASSUME Inv, Step PROVE RecordsAreSound'
    OBVIOUS
  <1>1. RecordsAreSound
    BY DEF Inv
  <1>2. CASE Works
    BY <1>1, <1>2 DEF RecordsAreSound, Works, ValidRecord
  <1>3. ASSUME NEW i \in DOMAIN acknowledging, SavesReceipt(i)
        PROVE  RecordsAreSound'
    <2> DEFINE id == acknowledging[i].id
    <2>1. \A x \in OpIds : x # id => disk'[x] = disk[x]
      BY <1>3 DEF SavesReceipt
    <2>2. disk'[id] = disk[id] \/ (ValidRecord(disk'[id])
             /\ (~disk'[id].acknowledged => ~Final(disk'[id].accepted)))
      BY <1>3 DEF SavesReceipt, ValidRecord
    <2> QED
      BY <1>1, <2>1, <2>2 DEF RecordsAreSound, ValidRecord
  <1>4. CASE disk' = disk
    BY <1>1, <1>4 DEF RecordsAreSound
  <1> QED
    BY <1>2, <1>3, <1>4, DiskUnchanged

LEMMA RunStep == Inv /\ Step => RunIsSound'
  <1> SUFFICES ASSUME Inv, Step PROVE RunIsSound'
    OBVIOUS
  <1>1. RunIsSound /\ poisoned \in BOOLEAN /\ faulted \in BOOLEAN
    BY DEF Inv, TransportTypeOK
  <1>2. CASE Works
    BY <1>1, <1>2 DEF RunIsSound, Works, EngineUnchanged, channelVars
  <1>3. ASSUME NEW i \in DOMAIN acknowledging, SavesReceipt(i)
        PROVE  RunIsSound'
    <2>1. run \notin {"off", "ended"}
      BY <1>1, <1>3 DEF RunIsSound, SavesReceipt
    <2> QED
      BY <1>1, <1>3, <2>1 DEF RunIsSound, SavesReceipt, channelVars
  <1>4. ASSUME NEW i \in DOMAIN acknowledging, Settles(i)
        PROVE  RunIsSound'
    BY <1>1, <1>4 DEF RunIsSound, Settles, channelVars, journalVars
  <1>5. CASE Ends \/ Leaves
    BY <1>1, <1>5 DEF RunIsSound, Ends, Leaves, journalVars
  <1>6. CASE Begins \/ Repeats \/ Notes \/ Ignores
    BY <1>1, <1>6 DEF RunIsSound, Begins, Repeats, Notes, Ignores, Reads, journalVars
  <1>7. CASE Returns \/ Offers \/ Connects
    BY <1>1, <1>7 DEF RunIsSound, Returns, Offers, Connects, journalVars
  <1>8. CASE Hears \/ Sends \/ Decides
    BY <1>1, <1>8 DEF RunIsSound, Hears, Sends, Decides, runVars, journalVars
  <1>9. CASE Starts \/ Dies
    BY <1>1, <1>9 DEF RunIsSound, Starts, Dies, channelVars, journalVars
  <1>10. CASE UNCHANGED vars
    BY <1>1, <1>10 DEF RunIsSound, vars, runVars, channelVars, journalVars
  <1> QED
    BY <1>2, <1>3, <1>4, <1>5, <1>6, <1>7, <1>8, <1>9, <1>10 DEF Step

LEMMA LastStep == Inv /\ Step => ReceiptsComeLast'
  <1> SUFFICES ASSUME Inv, Step PROVE ReceiptsComeLast'
    OBVIOUS
  <1>1. CASE UNCHANGED <<toClient, known>>
    BY <1>1, StillLast
  <1>2. CASE toClient' = <<>>
    BY <1>2 DEF ReceiptsComeLast
  <1>3. CASE Begins \/ Repeats \/ Notes \/ Ignores
    BY <1>3 DEF Begins, Repeats, Notes, Ignores, Reads
  <1>4. CASE Hears \/ Sends \/ Decides
    BY <1>4 DEF Hears, Sends, Decides
  <1>5. Works \/ (\E i \in DOMAIN acknowledging : SavesReceipt(i) \/ Settles(i)) =>
           UNCHANGED <<toClient, known>>
    BY DEF Works, EngineUnchanged, SavesReceipt, Settles, channelVars, managerVars
  <1>6. Returns \/ Offers \/ Connects \/ Starts \/ UNCHANGED vars => UNCHANGED <<toClient, known>>
    BY DEF Returns, Offers, Connects, Starts, vars, channelVars, managerVars
  <1>7. Ends \/ Leaves \/ Dies => toClient' = <<>>
    BY DEF Ends, Leaves, Dies
  <1> QED
    BY <1>1, <1>2, <1>3, <1>4, <1>5, <1>6, <1>7 DEF Step

LEMMA DeliveryStep == Inv /\ Step => DeliveryIsSound'
  <1> SUFFICES ASSUME Inv, Step PROVE DeliveryIsSound'
    OBVIOUS
  <1>1. /\ DeliveryIsSound
        /\ active \in DeliveryRecord \union {None}
        /\ active # None => active.id \in OpIds
        /\ faulted \in BOOLEAN
        /\ None \notin Reports
        /\ completed \in ReportTable
    BY Parts, Kinds DEF Inv, TransportTypeOK, ReportTable
  <1>2. CASE active' = None
    BY <1>2 DEF DeliveryIsSound
  <1>3. CASE Works
    BY <1>1, <1>3 DEF DeliveryIsSound, Works, OpenAndUndecided, EngineUnchanged, Unsettled
  <1>4. ASSUME NEW i \in DOMAIN acknowledging, SavesReceipt(i)
        PROVE  DeliveryIsSound'
    <2>1. active' = active /\ completed' = completed /\ ~Holding /\ (faulted => faulted')
      BY <1>4 DEF SavesReceipt
    <2>2. \A x \in OpIds : Unsettled(x)' => Unsettled(x) /\ disk'[x].report = disk[x].report
      BY <1>4, Kinds DEF SavesReceipt, Unsettled
    <2> QED
      BY <1>1, <1>4, <2>1, <2>2 DEF DeliveryIsSound, Holding, Unsettled, SavesReceipt
  <1>5. CASE UNCHANGED <<active, completed, disk, faulted>>
    BY <1>1, <1>5 DEF DeliveryIsSound, Unsettled
  <1>6. ASSUME NEW i \in DOMAIN acknowledging, Settles(i)
        PROVE  DeliveryIsSound'
    <2>1. UNCHANGED <<active, disk, faulted>>
      BY <1>6 DEF Settles, journalVars
    <2>2. active # None => completed'[active.id] = None
      BY <1>1, <1>6 DEF Settles, DeliveryIsSound
    <2> QED
      BY <1>1, <2>1, <2>2 DEF DeliveryIsSound, Unsettled
  <1>7. CASE Begins
    BY <1>7 DEF DeliveryIsSound, Begins
  <1>8. Repeats \/ Notes \/ Ignores \/ Connects \/ Leaves \/ Hears \/ Sends \/ Decides
           \/ UNCHANGED vars
           => UNCHANGED <<active, completed, disk, faulted>>
    BY DEF Repeats, Notes, Ignores, Reads, Connects, Leaves, Hears, Sends, Decides, vars,
           runVars, journalVars
  <1>9. Ends \/ Returns \/ Offers \/ Starts \/ Dies => active' = None
    BY DEF Ends, Returns, Offers, Starts, Dies
  <1> QED
    BY <1>2, <1>3, <1>4, <1>5, <1>6, <1>7, <1>8, <1>9 DEF Step

(* What can make a receipt for an operation appear, its record closed, its *)
(* task run or be on the way, and what cannot.                             *)
LEMMA ClosedStep == Inv /\ Step => ClosedIsOver'
  <1> SUFFICES ASSUME Inv, Step PROVE ClosedIsOver'
    OBVIOUS
  <1>1. /\ ClosedIsOver /\ DeliveryIsSound
        /\ acknowledging \in Seq(ReceiptRecord)
        /\ None \notin Reports
    BY Kinds DEF Inv, TransportTypeOK
  <1>2. ASSUME \A x \in OpIds : Closed(x)' => Closed(x) \/ ClosingReceipt(x),
               \A x \in OpIds : ClosingReceipt(x)' => ClosingReceipt(x),
               \A x \in OpIds : Final(known[x]) => Final(known'[x]),
               \A x \in OpIds : Running(x)' => Running(x) \/ TaskOnTheWay(x),
               \A x \in OpIds : TaskOnTheWay(x)' => TaskOnTheWay(x) \/ ~Final(known[x])
        PROVE  ClosedIsOver'
    BY <1>1, <1>2 DEF ClosedIsOver
  <1>3. CASE Works
    <2>1. \A x \in OpIds : Closed(x)' => Closed(x)
      BY <1>3 DEF Closed, Works
    <2>2. active # None /\ active' # None /\ active'.id = active.id
      BY <1>3, Parts DEF Works
    <2>3. UNCHANGED <<acknowledging, known, toClient>>
      BY <1>3 DEF Works, EngineUnchanged, channelVars, managerVars
    <2> QED
      BY <1>2, <2>1, <2>2, <2>3 DEF Running, ClosingReceipt, TaskOnTheWay, TaskMessage, Closes
  <1>4. ASSUME NEW i \in DOMAIN acknowledging, SavesReceipt(i)
        PROVE  ClosedIsOver'
    <2>1. \A x \in OpIds : Closed(x)' => Closed(x) \/ ClosingReceipt(x)
      BY <1>4 DEF Closed, SavesReceipt, ClosingReceipt
    <2>2. \A x \in OpIds : ClosingReceipt(x)' => ClosingReceipt(x)
      BY <1>4 DEF SavesReceipt, ClosingReceipt, Closes
    <2>3. UNCHANGED <<active, known, toClient>>
      BY <1>4 DEF SavesReceipt, channelVars, managerVars
    <2> QED
      BY <1>2, <2>1, <2>2, <2>3 DEF Running, TaskOnTheWay, TaskMessage
  <1>5. ASSUME NEW i \in DOMAIN acknowledging, Settles(i)
        PROVE  ClosedIsOver'
    <2>1. \A x \in OpIds : ClosingReceipt(x)' => ClosingReceipt(x)
      BY <1>5 DEF Settles, ClosingReceipt, Closes
    <2>2. UNCHANGED <<disk, active, known, toClient>>
      BY <1>5 DEF Settles, channelVars, managerVars, journalVars
    <2> QED
      BY <1>2, <2>1, <2>2 DEF Running, TaskOnTheWay, TaskMessage, Closed
  <1>6. CASE disk' = disk /\ known' = known /\ active' = None /\ acknowledging' = <<>> /\ toClient' = <<>>
    BY <1>1, <1>6 DEF ClosedIsOver, Closed, ClosingReceipt, TaskOnTheWay, Running
  <1>7. CASE Begins
    <2>1. /\ UNCHANGED <<disk, known, acknowledging>>
          /\ \A x \in OpIds : TaskOnTheWay(x)' => TaskOnTheWay(x)
      BY <1>7 DEF Begins, Reads, managerVars, journalVars
    <2>2. \A x \in OpIds : Running(x)' => TaskOnTheWay(x)
      BY <1>7 DEF Begins, Running
    <2> QED
      BY <1>2, <2>1, <2>2 DEF Closed, ClosingReceipt, Closes
  <1>8. CASE Repeats \/ Ignores
    <2>1. /\ UNCHANGED <<disk, known, acknowledging, active>>
          /\ \A x \in OpIds : TaskOnTheWay(x)' => TaskOnTheWay(x)
      BY <1>8 DEF Repeats, Ignores, Reads, managerVars, journalVars
    <2> QED
      BY <1>2, <2>1 DEF Closed, ClosingReceipt, Closes, Running
  <1>9. CASE Notes
    <2>1. PICK receipt \in ReceiptRecord :
             /\ Reads
             /\ completed[receipt.id] = receipt.report
             /\ Closes(receipt) => Final(known[receipt.id]) /\ ~TaskOnTheWay(receipt.id)'
             /\ \A k \in DOMAIN acknowledging' :
                   \/ \E j \in DOMAIN acknowledging : acknowledging'[k] = acknowledging[j]
                   \/ acknowledging'[k] = receipt
             /\ UNCHANGED <<active, completed, toManager>>
      BY <1>9 DEF Notes
    <2>2. /\ UNCHANGED <<disk, known, active>>
          /\ \A x \in OpIds : TaskOnTheWay(x)' => TaskOnTheWay(x)
      BY <2>1 DEF Reads, managerVars, journalVars
    <2>3. \A x \in OpIds : ClosingReceipt(x)' =>
             ClosingReceipt(x) \/ (x = receipt.id /\ Closes(receipt))
      BY <2>1 DEF ClosingReceipt, Closes
    <2>4. ~Running(receipt.id)
      BY <1>1, <2>1, Parts DEF DeliveryIsSound, Running
    <2> QED
      BY <1>1, <2>1, <2>2, <2>3, <2>4 DEF ClosedIsOver, Closed, Running
  <1>10. CASE Returns \/ Offers \/ Connects
    <2>1. /\ UNCHANGED <<disk, known, acknowledging, toClient>>
          /\ active' = active \/ active' = None
      BY <1>10 DEF Returns, Offers, Connects, managerVars, journalVars
    <2> QED
      BY <1>2, <2>1 DEF Closed, ClosingReceipt, Closes, Running, TaskOnTheWay, TaskMessage
  <1>11. CASE Leaves
    <2>1. UNCHANGED <<disk, known, acknowledging, active>> /\ toClient' = <<>>
      BY <1>11 DEF Leaves, managerVars, journalVars
    <2> QED
      BY <1>2, <2>1 DEF Closed, ClosingReceipt, Closes, Running, TaskOnTheWay
  <1>12. CASE Hears \/ Sends \/ Decides
    <2>1. UNCHANGED <<disk, acknowledging, active>>
      BY <1>12 DEF Hears, Sends, Decides, runVars, journalVars
    <2>2. \A x \in OpIds : Final(known[x]) => Final(known'[x])
      BY <1>12 DEF Hears, Sends, Decides
    <2>3. \A x \in OpIds : TaskOnTheWay(x)' => TaskOnTheWay(x) \/ ~Final(known[x])
      BY <1>12 DEF Hears, Sends, Decides
    <2> QED
      BY <1>2, <2>1, <2>2, <2>3 DEF Closed, ClosingReceipt, Closes, Running
  <1>13. CASE UNCHANGED vars
    BY <1>1, <1>13 DEF ClosedIsOver, vars, runVars, channelVars, managerVars, journalVars,
                       Closed, ClosingReceipt, Closes, Running, TaskOnTheWay, TaskMessage
  <1>14. Ends \/ Dies \/ Starts =>
            disk' = disk /\ known' = known /\ active' = None /\ acknowledging' = <<>> /\ toClient' = <<>>
    BY DEF Ends, Dies, Starts, channelVars, managerVars, journalVars
  <1> QED
    BY <1>3, <1>4, <1>5, <1>6, <1>7, <1>8, <1>9, <1>10, <1>11, <1>12, <1>13, <1>14 DEF Step

LEMMA SettleStep == Inv /\ Step => SavedReceiptsSettle'
  <1> SUFFICES ASSUME Inv, Step PROVE SavedReceiptsSettle'
    OBVIOUS
  <1>1. /\ SavedReceiptsSettle /\ ClosedIsOver
        /\ acknowledging \in Seq(ReceiptRecord)
    BY DEF Inv, TransportTypeOK
  <1>2. \A j \in DOMAIN acknowledging : acknowledging[j].id \in OpIds
    BY <1>1, Parts, LenProperties, ElementOfSeq
  <1>3. CASE Works
    <2>1. acknowledging' = acknowledging
      BY <1>3 DEF Works, EngineUnchanged
    <2>2. ASSUME NEW j \in DOMAIN acknowledging, Final(acknowledging[j].report)
          PROVE  disk'[acknowledging[j].id] = disk[acknowledging[j].id]
      <3>1. ClosingReceipt(acknowledging[j].id)
        BY <2>2 DEF ClosingReceipt, Closes
      <3>2. ~Running(acknowledging[j].id)
        BY <1>1, <1>2, <3>1 DEF ClosedIsOver
      <3> QED
        BY <1>2, <1>3, <3>2 DEF Works, Running
    <2> QED
      BY <1>1, <2>1, <2>2 DEF SavedReceiptsSettle
  <1>4. ASSUME NEW i \in DOMAIN acknowledging, SavesReceipt(i)
        PROVE  SavedReceiptsSettle'
    <2>1. ASSUME NEW j \in DOMAIN acknowledging,
                 acknowledging'[j].phase = "saved", Final(acknowledging'[j].report),
                 disk'[acknowledging'[j].id] # None
          PROVE  disk'[acknowledging'[j].id].acknowledged
      <3>1. CASE j = i
        BY <1>4, <2>1, <3>1 DEF SavesReceipt
      <3>2. CASE j # i
        <4> DEFINE id == acknowledging[j].id
        <4>1. acknowledging[j].phase = "saved" /\ Final(acknowledging[j].report)
              /\ acknowledging'[j].id = id
          BY <1>4, <2>1, <3>2 DEF SavesReceipt
        <4>2. disk[id] # None => disk[id].acknowledged
          BY <1>1, <4>1 DEF SavedReceiptsSettle
        <4>3. disk'[id] = disk[id] \/ (disk[id] # None /\ ~disk[id].acknowledged)
          BY <1>2, <1>4 DEF SavesReceipt
        <4> QED
          BY <2>1, <4>1, <4>2, <4>3
      <3> QED
        BY <3>1, <3>2
    <2>2. DOMAIN acknowledging' = DOMAIN acknowledging
      BY <1>4 DEF SavesReceipt
    <2> QED
      BY <2>1, <2>2 DEF SavedReceiptsSettle
  <1>5. ASSUME NEW i \in DOMAIN acknowledging, Settles(i)
        PROVE  SavedReceiptsSettle'
    BY <1>1, <1>5 DEF SavedReceiptsSettle, Settles, journalVars
  <1>6. CASE acknowledging' = <<>>
    BY <1>6 DEF SavedReceiptsSettle
  <1>7. CASE UNCHANGED <<acknowledging, disk>>
    BY <1>1, <1>7 DEF SavedReceiptsSettle
  <1>8. CASE Notes
    <2>1. PICK receipt \in ReceiptRecord :
             /\ Reads
             /\ receipt.phase = "waiting"
             /\ \A k \in DOMAIN acknowledging' :
                   \/ \E j \in DOMAIN acknowledging : acknowledging'[k] = acknowledging[j]
                   \/ acknowledging'[k] = receipt
      BY <1>8 DEF Notes
    <2>2. disk' = disk
      BY <2>1 DEF Reads, journalVars
    <2> QED
      BY <1>1, <2>1, <2>2 DEF SavedReceiptsSettle
  <1>9. Begins \/ Repeats \/ Ignores \/ Returns \/ Offers \/ Connects \/ Leaves
           \/ Hears \/ Sends \/ Decides \/ UNCHANGED vars
           => UNCHANGED <<acknowledging, disk>>
    BY DEF Begins, Repeats, Ignores, Reads, Returns, Offers, Connects, Leaves, Hears, Sends,
           Decides, vars, runVars, journalVars
  <1>10. Ends \/ Starts \/ Dies => acknowledging' = <<>>
    BY DEF Ends, Starts, Dies
  <1> QED
    BY <1>3, <1>4, <1>5, <1>6, <1>7, <1>8, <1>9, <1>10 DEF Step

(* A final report that stands, whatever is told.                           *)
Stands(id, report) ==
    \/ Recorded(id, report)
    \/ report = "Rejected.JournalFull" /\ disk[id] = None
    \/ known[id] \in {report, "Resolved"}

(* The record of an operation does not say that it is closed already.      *)
LEMMA RecordedAnswers ==
    ASSUME Inv, NEW id \in OpIds, NEW report, Recorded(id, report)
    PROVE  /\ report # "Rejected.OperationAlreadyCompleted"
           /\ report # "Rejected.JournalFull"
           /\ report \in Saved \union {None}
BY Parts, Kinds DEF Inv, TransportTypeOK, Recorded

LEMMA WitnessStep == Inv /\ Step => FinalIsWitnessed'
  <1> SUFFICES ASSUME Inv, Step PROVE FinalIsWitnessed'
    OBVIOUS
  <1>1. /\ FinalIsWitnessed /\ KnownIsRecorded /\ RefusedStaysRefused /\ ClosedIsOver
        /\ DeliveryIsSound /\ RecordsAreSound
        /\ acknowledging \in Seq(ReceiptRecord)
        /\ disk \in Disks
        /\ active # None => active.id \in OpIds
    BY Parts DEF Inv, TransportTypeOK, Disks
  <1>2. \A id \in OpIds, report \in Reports : Final(report) /\ Told(id, report) =>
           report # "Rejected.OperationAlreadyCompleted" /\ Stands(id, report)
    BY <1>1 DEF FinalIsWitnessed, Stands
  <1>3. ASSUME \A id \in OpIds, report \in Reports : Final(report) /\ Told(id, report)' =>
                  Told(id, report) \/ Recorded(id, report),
               disk' = disk,
               \A id \in OpIds : Final(known[id]) => known'[id] = known[id]
        PROVE  FinalIsWitnessed'
    <2>1. \A id \in OpIds, report \in Reports : Final(report) /\ Told(id, report)' =>
             report # "Rejected.OperationAlreadyCompleted" /\ Stands(id, report)
      BY <1>2, <1>3, RecordedAnswers DEF Stands
    <2>2. \A id \in OpIds, report \in Reports :
             Final(report) /\ Stands(id, report) => Stands(id, report)'
      BY <1>3, Kinds DEF Stands, Recorded
    <2> QED
      BY <2>1, <2>2 DEF FinalIsWitnessed, Stands
  <1>4. CASE Works
    <2>1. active # None /\ active' # None /\ active'.id = active.id /\ active.phase # "done"
          /\ disk' \in Disks
      BY <1>4, Parts DEF Works
    <2>2. UNCHANGED <<completed, toManager, known>>
      BY <1>4 DEF Works, EngineUnchanged, channelVars, managerVars
    <2>3. ASSUME NEW id \in OpIds, NEW report \in Reports, Final(report), Told(id, report)'
          PROVE  report # "Rejected.OperationAlreadyCompleted" /\ Stands(id, report)'
      <3>1. CASE Told(id, report)
        <4>1. report # "Rejected.OperationAlreadyCompleted" /\ Stands(id, report)
          BY <1>2, <2>3, <3>1
        <4>2. CASE disk'[id] = disk[id]
          BY <2>2, <4>1, <4>2 DEF Stands, Recorded
        <4>3. CASE disk'[id] # disk[id]
          <5>1. id = active.id /\ ~Unsettled(id)
            BY <1>4, <4>3 DEF Works
          <5>2. ~Recorded(id, report)
            BY <2>3, <5>1 DEF Unsettled, Recorded
          <5>3. completed[id] # report
            BY <1>1, <2>1, <5>1, Kinds DEF DeliveryIsSound
          <5>4. Sent(id, report)
            BY <2>1, <3>1, <5>3 DEF Told
          <5>5. report = "Rejected.JournalFull" => known[id] \in {report, "Resolved"}
            BY <1>1, <5>3, <5>4 DEF RefusedStaysRefused
          <5>6. known[id] \in {report, "Resolved"}
            BY <4>1, <5>2, <5>5 DEF Stands
          <5> QED
            BY <2>2, <4>1, <5>6 DEF Stands
        <4> QED
          BY <4>2, <4>3
      <3>2. CASE ~Told(id, report)
        <4>1. id = active.id /\ active'.phase = "done" /\ active'.report = report
          BY <2>1, <2>2, <2>3, <3>2 DEF Told, Sent, Running
        <4> QED
          BY <1>4, <2>3, <4>1 DEF Works, Stands, Recorded
      <3> QED
        BY <3>1, <3>2
    <2> QED
      BY <2>3 DEF FinalIsWitnessed, Stands
  <1>5. ASSUME NEW i \in DOMAIN acknowledging, SavesReceipt(i)
        PROVE  FinalIsWitnessed'
    <2> DEFINE receipt == acknowledging[i]
    <2>1. UNCHANGED <<completed, toManager, active, known>>
      BY <1>5 DEF SavesReceipt, channelVars, managerVars
    <2>2. receipt.id \in OpIds /\ receipt.report \in Reports
      BY <1>5, Parts DEF SavesReceipt
    <2>3. ASSUME NEW id \in OpIds, NEW report \in Reports, Final(report), Told(id, report)'
          PROVE  report # "Rejected.OperationAlreadyCompleted" /\ Stands(id, report)'
      <3>1. report # "Rejected.OperationAlreadyCompleted" /\ Stands(id, report)
        BY <1>2, <2>1, <2>3 DEF Told, Sent, Running
      <3>2. CASE disk'[id] = disk[id]
        BY <2>1, <3>1, <3>2 DEF Stands, Recorded
      <3>3. CASE disk'[id] # disk[id] /\ ~Closes(receipt)
        BY <1>5, <2>1, <3>1, <3>3 DEF Stands, Recorded, SavesReceipt
      <3>4. CASE disk'[id] # disk[id] /\ Closes(receipt)
        <4>1. id = receipt.id /\ disk[id] # None /\ ~disk[id].acknowledged
          BY <1>5, <3>4 DEF SavesReceipt
        <4>2. ClosingReceipt(id)
          BY <3>4, <4>1 DEF ClosingReceipt
        <4>3. Final(known[id]) /\ ~Closed(id)
          BY <1>1, <4>1, <4>2 DEF ClosedIsOver, Closed
        <4>4. known[id] \in {report, "Resolved"}
          BY <1>1, <3>1, <4>1, <4>3 DEF KnownIsRecorded, Recorded, Stands
        <4> QED
          BY <2>1, <3>1, <4>4 DEF Stands
      <3> QED
        BY <3>2, <3>3, <3>4
    <2> QED
      BY <2>3 DEF FinalIsWitnessed, Stands
  <1>6. ASSUME NEW i \in DOMAIN acknowledging, Settles(i)
        PROVE  FinalIsWitnessed'
    <2>1. UNCHANGED <<disk, known, toManager, active>>
      BY <1>6 DEF Settles, channelVars, managerVars, journalVars
    <2>2. \A id \in OpIds, report \in Reports : completed'[id] = report => completed[id] = report
      BY <1>6, Kinds DEF Settles
    <2> QED
      BY <1>3, <2>1, <2>2 DEF Told, Sent, Running
  <1>7. CASE Begins
    <2>1. UNCHANGED <<disk, known, toManager>>
      BY <1>7 DEF Begins, Reads, managerVars, journalVars
    <2>2. \A id \in OpIds, report \in Reports : completed'[id] = report => completed[id] = report
      BY <1>7, Kinds DEF Begins
    <2>3. active'.phase # "done"
      BY <1>7 DEF Begins
    <2> QED
      BY <1>3, <2>1, <2>2, <2>3 DEF Told, Sent
  <1>8. CASE Repeats
    <2>1. UNCHANGED <<disk, known, active, completed>>
      BY <1>8 DEF Repeats, Reads, managerVars, journalVars
    <2>2. \A id \in OpIds, report \in Reports :
             Sent(id, report)' => Sent(id, report) \/ completed[id] = report
      BY <1>8 DEF Repeats
    <2> QED
      BY <1>3, <2>1, <2>2 DEF Told, Running
  <1>9. CASE UNCHANGED <<disk, known, active, completed, toManager>>
    BY <1>3, <1>9 DEF Told, Sent, Running
  <1>10. CASE Returns
    <2>1. UNCHANGED <<disk, known>> /\ active' = None
          /\ active # None /\ active.phase = "done"
      BY <1>10 DEF Returns, managerVars, journalVars
    <2>2. ASSUME NEW id \in OpIds, NEW report \in Reports, Told(id, report)'
          PROVE  Told(id, report)
      <3>1. completed'[id] = report \/ Sent(id, report)'
        BY <2>1, <2>2 DEF Told, Running
      <3>2. \/ completed[id] = report \/ Sent(id, report)
            \/ id = active.id /\ report = active.report
        BY <1>10, <3>1 DEF Returns
      <3> QED
        BY <2>1, <3>2 DEF Told, Running
    <2> QED
      BY <1>3, <2>1, <2>2
  <1>11. CASE Offers
    <2>1. UNCHANGED <<disk, known, active>>
      BY <1>11 DEF Offers, managerVars, journalVars
    <2>2. ASSUME NEW id \in OpIds, NEW report \in Reports, Told(id, report)'
          PROVE  Told(id, report) \/ Recorded(id, report)
      <3>1. \/ completed'[id] = report \/ Sent(id, report)'
            \/ Running(id) /\ active.phase = "done" /\ active.report = report
        BY <2>1, <2>2 DEF Told, Running
      <3>2. Sent(id, report)' => Sent(id, report) \/ Recorded(id, report)
        BY <1>11 DEF Offers
      <3>3. completed'[id] = report => completed[id] = report \/ Recorded(id, report)
        BY <1>11, PendingIsRecorded DEF Offers, Recorded
      <3> QED
        BY <3>1, <3>2, <3>3 DEF Told
    <2> QED
      BY <1>3, <2>1, <2>2
  <1>12. CASE Connects
    <2>1. UNCHANGED <<disk, known, active, completed>>
      BY <1>12 DEF Connects, managerVars, journalVars
    <2>2. \A id \in OpIds, report \in Reports : Sent(id, report)' => completed[id] = report
      BY <1>12 DEF Connects
    <2> QED
      BY <1>3, <2>1, <2>2 DEF Told, Running
  <1>13. CASE Leaves
    <2>1. UNCHANGED <<disk, known, active, completed>> /\ toManager' = <<>>
      BY <1>13 DEF Leaves, managerVars, journalVars
    <2> QED
      BY <1>3, <2>1 DEF Told, Running, Sent
  <1>14. CASE Ends \/ Dies
    <2>1. UNCHANGED <<disk, known>> /\ toManager' = <<>> /\ active' = None
      BY <1>14 DEF Ends, Dies, managerVars, journalVars
    <2>2. \A id \in OpIds, report \in Reports : completed'[id] = report => completed[id] = report
      BY <1>14, Kinds DEF Ends, Dies
    <2> QED
      BY <1>3, <2>1, <2>2 DEF Told, Running, Sent
  <1>15. CASE Starts
    <2>1. UNCHANGED <<disk, known>> /\ toManager' = <<>> /\ active' = None
      BY <1>15 DEF Starts, channelVars, managerVars
    <2>2. \A id \in OpIds, report \in Reports : completed'[id] = report => Recorded(id, report)
      BY <1>15, PendingIsRecorded, Kinds DEF Starts, Recorded
    <2> QED
      BY <1>3, <2>1, <2>2 DEF Told, Running, Sent
  <1>16. CASE Hears
    <2>1. UNCHANGED <<disk, active, completed>>
      BY <1>16 DEF Hears, runVars, journalVars
    <2>2. \A id \in OpIds : Final(known[id]) => known'[id] = known[id]
      BY <1>16 DEF Hears
    <2>3. \A id \in OpIds, report \in Reports : Sent(id, report)' => Sent(id, report)
      BY <1>16 DEF Hears
    <2> QED
      BY <1>3, <2>1, <2>2, <2>3 DEF Told, Running
  <1>17. CASE Sends \/ Decides
    <2>1. UNCHANGED <<disk, active, completed, toManager>>
      BY <1>17 DEF Sends, Decides, runVars, journalVars
    <2>2. \A id \in OpIds : Final(known[id]) => known'[id] = known[id]
      BY <1>17 DEF Sends, Decides
    <2> QED
      BY <1>3, <2>1, <2>2 DEF Told, Running, Sent
  <1>18. Notes \/ Ignores \/ UNCHANGED vars =>
            UNCHANGED <<disk, known, active, completed, toManager>>
    BY DEF Notes, Ignores, Reads, vars, runVars, channelVars, managerVars, journalVars
  <1> QED
    BY <1>4, <1>5, <1>6, <1>7, <1>8, <1>9, <1>10, <1>11, <1>12, <1>13, <1>14, <1>15,
       <1>16, <1>17, <1>18 DEF Step

LEMMA KnownStep == Inv /\ Step => KnownIsRecorded'
  <1> SUFFICES ASSUME Inv, Step PROVE KnownIsRecorded'
    OBVIOUS
  <1>1. /\ FinalIsWitnessed /\ KnownIsRecorded /\ RefusedStaysRefused /\ ClosedIsOver
        /\ disk \in Disks
        /\ known \in [OpIds -> Reports \union {None, "Resolved"}]
    BY DEF Inv, TransportTypeOK, Disks
  <1>2. CASE Works
    <2>1. known' = known
      BY <1>2 DEF Works, EngineUnchanged, managerVars
    <2>2. ASSUME NEW id \in OpIds, Final(known[id]), known[id] # "Resolved"
          PROVE  disk'[id] = disk[id]
      <3>1. CASE Running(id)
        <4>1. ~Closed(id) /\ known[id] # "Rejected.JournalFull"
          BY <1>1, <3>1 DEF ClosedIsOver, RefusedStaysRefused
        <4>2. Unsettled(id)
          BY <1>1, <2>2, <4>1 DEF KnownIsRecorded, Recorded, Unsettled
        <4> QED
          BY <1>2, <3>1, <4>2 DEF Works, Running
      <3>2. CASE ~Running(id)
        BY <1>2, <3>2 DEF Works, Running
      <3> QED
        BY <3>1, <3>2
    <2> QED
      BY <1>1, <2>1, <2>2 DEF KnownIsRecorded, Recorded, Closed
  <1>3. ASSUME NEW i \in DOMAIN acknowledging, SavesReceipt(i)
        PROVE  KnownIsRecorded'
    <2>1. known' = known
      BY <1>3 DEF SavesReceipt, managerVars
    <2>2. ASSUME NEW id \in OpIds
          PROVE  \/ disk'[id] = disk[id]
                 \/ Closed(id)'
                 \/ disk[id] # None /\ disk'[id] # None /\ disk'[id].report = disk[id].report
                    /\ ~disk[id].acknowledged
      BY <1>3 DEF SavesReceipt, Closed
    <2> QED
      BY <1>1, <2>1, <2>2 DEF KnownIsRecorded, Recorded, Closed
  <1>4. CASE /\ disk' = disk
             /\ \A x \in OpIds : known'[x] = known[x] \/ known'[x] = "Resolved"
    BY <1>1, <1>4 DEF KnownIsRecorded, Recorded, Closed
  <1>5. CASE Hears
    <2>1. disk' = disk
      BY <1>5 DEF Hears, journalVars
    <2>2. ASSUME NEW id \in OpIds, ~Final(known[id]), known'[id] \in Reports,
                 Sent(id, known'[id]), Final(known'[id])
          PROVE  \/ Recorded(id, known'[id])
                 \/ known'[id] = "Rejected.JournalFull" /\ disk[id] = None
      <3>1. known[id] \notin {known'[id], "Resolved"}
        BY <2>2, Kinds
      <3> QED
        BY <1>1, <2>2, <3>1 DEF FinalIsWitnessed, Told
    <2>3. \A id \in OpIds :
             \/ known'[id] = known[id]
             \/ ~Final(known[id]) /\ known'[id] \in Reports /\ Sent(id, known'[id])
      BY <1>5 DEF Hears
    <2> QED
      BY <1>1, <2>1, <2>2, <2>3 DEF KnownIsRecorded, Recorded, Closed
  <1>6. CASE \E i \in DOMAIN acknowledging : Settles(i)
    BY <1>4, <1>6 DEF Settles, managerVars, journalVars
  <1>7. Ends \/ Begins \/ Repeats \/ Notes \/ Ignores \/ Returns \/ Offers \/ Connects
           \/ Leaves \/ Sends \/ Starts \/ Dies \/ UNCHANGED vars
           => UNCHANGED <<disk, known>>
    BY DEF Ends, Begins, Repeats, Notes, Ignores, Reads, Returns, Offers, Connects, Leaves,
           Sends, Starts, Dies, vars, managerVars, journalVars
  <1>8. Decides => /\ disk' = disk
                   /\ \A x \in OpIds : known'[x] = known[x] \/ known'[x] = "Resolved"
    BY DEF Decides, journalVars
  <1> QED
    BY <1>2, <1>3, <1>4, <1>5, <1>6, <1>7, <1>8 DEF Step

LEMMA RefusedStep == Inv /\ Step => RefusedStaysRefused'
  <1> SUFFICES ASSUME Inv, Step PROVE RefusedStaysRefused'
    OBVIOUS
  <1> DEFINE Full == "Rejected.JournalFull"
  <1>1. /\ FinalIsWitnessed /\ KnownIsRecorded /\ RefusedStaysRefused /\ ClosedIsOver
        /\ DeliveryIsSound
        /\ active # None => active.id \in OpIds
        /\ Full \in Reports /\ Final(Full) /\ ~Uncertain(Full) /\ Full # None
        /\ "Resolved" # Full /\ Final("Resolved")
    BY Parts, Kinds DEF Inv, TransportTypeOK, Final
  <1>2. ASSUME \A x \in OpIds : Running(x)' => Running(x),
               \A x \in OpIds : TaskOnTheWay(x)' => TaskOnTheWay(x),
               \A x \in OpIds : Sent(x, Full)' => Sent(x, Full) \/ completed[x] = Full,
               \A x \in OpIds : completed[x] = Full => completed'[x] = Full,
               known' = known
        PROVE  RefusedStaysRefused'
    BY <1>1, <1>2 DEF RefusedStaysRefused
  <1>3. CASE Works
    <2>1. /\ UNCHANGED <<known, completed, toManager, toClient>>
          /\ active # None /\ active'.id = active.id
      BY <1>3 DEF Works, EngineUnchanged, channelVars, managerVars
    <2> QED
      BY <1>2, <2>1 DEF Running, TaskOnTheWay, TaskMessage, Sent
  <1>4. ASSUME NEW i \in DOMAIN acknowledging, Settles(i)
        PROVE  RefusedStaysRefused'
    <2> DEFINE receipt == acknowledging[i]
    <2>1. UNCHANGED <<known, active, toManager, toClient>>
      BY <1>4 DEF Settles, channelVars, managerVars
    <2>2. ASSUME NEW x \in OpIds, completed[x] = Full, completed'[x] # Full
          PROVE  ~TaskOnTheWay(x) /\ known[x] \in {Full, "Resolved"}
      <3>1. x = receipt.id /\ receipt.report = Full
        BY <1>4, <2>2 DEF Settles
      <3>2. ClosingReceipt(x)
        BY <1>1, <3>1 DEF ClosingReceipt, Closes
      <3>3. Final(known[x]) /\ ~TaskOnTheWay(x)
        BY <1>1, <3>2 DEF ClosedIsOver
      <3>4. ~Recorded(x, Full)
        BY RecordedAnswers
      <3>5. disk[x] = None \/ known[x] \in {Full, "Resolved"}
        BY <1>1, <2>2, <3>4 DEF FinalIsWitnessed, Told
      <3>6. disk[x] = None => known[x] \in {Full, "Resolved"}
        BY <1>1, <3>3 DEF KnownIsRecorded, Recorded, Closed
      <3> QED
        BY <3>3, <3>5, <3>6
    <2> QED
      BY <1>1, <2>1, <2>2 DEF RefusedStaysRefused, Running, TaskOnTheWay, TaskMessage, Sent
  <1>5. CASE Begins
    <2>1. PICK id \in OpIds :
             /\ Reads /\ TaskOnTheWay(id)
             /\ completed[id] = None \/ Uncertain(completed[id])
             /\ active'.id = id
             /\ \A x \in OpIds : x # id => completed'[x] = completed[x]
             /\ UNCHANGED toManager
      BY <1>5 DEF Begins
    <2>2. completed[id] # Full /\ known[id] # Full
      BY <1>1, <2>1 DEF RefusedStaysRefused
    <2>3. known' = known /\ \A x \in OpIds : TaskOnTheWay(x)' => TaskOnTheWay(x)
      BY <2>1 DEF Reads, managerVars
    <2>4. \A x \in OpIds : Running(x)' => x = id
      BY <2>1 DEF Running
    <2> QED
      BY <1>1, <2>1, <2>2, <2>3, <2>4 DEF RefusedStaysRefused, Sent
  <1>6. CASE Repeats \/ Notes \/ Ignores
    <2>1. /\ UNCHANGED <<known, active, completed>>
          /\ \A x \in OpIds : TaskOnTheWay(x)' => TaskOnTheWay(x)
      BY <1>6 DEF Repeats, Notes, Ignores, Reads, managerVars
    <2>2. \A x \in OpIds : Sent(x, Full)' => Sent(x, Full) \/ completed[x] = Full
      BY <1>1, <1>6 DEF Repeats, Notes, Ignores, Sent
    <2> QED
      BY <1>2, <2>1, <2>2 DEF Running
  <1>7. CASE Returns
    <2>1. /\ UNCHANGED <<known, toClient>> /\ active' = None
          /\ active # None /\ completed'[active.id] = active.report
          /\ \A x \in OpIds : x # active.id => completed'[x] = completed[x]
          /\ \A x \in OpIds : Sent(x, Full)' =>
                Sent(x, Full) \/ (x = active.id /\ Full = active.report)
      BY <1>1, <1>7 DEF Returns, managerVars
    <2>2. completed[active.id] = None /\ known[active.id] # Full
      BY <1>1, <2>1 DEF DeliveryIsSound, RefusedStaysRefused, Running
    <2> QED
      BY <1>1, <2>1, <2>2 DEF RefusedStaysRefused, Running, TaskOnTheWay, TaskMessage
  <1>8. CASE Offers
    <2>1. /\ UNCHANGED <<known, active, toClient>>
          /\ \A x \in OpIds : completed[x] = Full => completed'[x] = Full
          /\ \A x \in OpIds : Sent(x, Full)' => Sent(x, Full)
      BY <1>1, <1>8 DEF Offers, managerVars
    <2> QED
      BY <1>2, <2>1 DEF Running, TaskOnTheWay, TaskMessage
  <1>9. CASE Connects
    <2>1. /\ UNCHANGED <<known, active, completed, toClient>>
          /\ \A x \in OpIds : Sent(x, Full)' => completed[x] = Full
      BY <1>1, <1>9 DEF Connects, managerVars
    <2> QED
      BY <1>2, <2>1 DEF Running, TaskOnTheWay, TaskMessage
  <1>10. CASE toManager' = <<>> /\ toClient' = <<>> /\ known' = known /\ active' \in {active, None}
    <2>1. \A x \in OpIds : ~TaskOnTheWay(x)' /\ ~Sent(x, Full)'
      BY <1>10 DEF TaskOnTheWay, Sent
    <2>2. \A x \in OpIds : Running(x)' => Running(x)
      BY <1>10 DEF Running
    <2> QED
      BY <1>1, <1>10, <2>1, <2>2 DEF RefusedStaysRefused
  <1>11. CASE Hears
    <2>1. /\ UNCHANGED <<active, completed>>
          /\ \A x \in OpIds : TaskOnTheWay(x)' => TaskOnTheWay(x)
          /\ \A x \in OpIds : Sent(x, Full)' => Sent(x, Full)
          /\ \A x \in OpIds :
                \/ known'[x] = known[x]
                \/ ~Final(known[x]) /\ Sent(x, known'[x])
      BY <1>1, <1>11 DEF Hears, runVars
    <2>2. ASSUME NEW x \in OpIds, known'[x] = Full
          PROVE  ~Running(x) /\ (TaskOnTheWay(x) => completed[x] = Full)
      <3>1. CASE known[x] = Full
        BY <1>1, <3>1 DEF RefusedStaysRefused
      <3>2. CASE known[x] # Full
        <4>1. completed[x] = Full
          BY <1>1, <2>1, <2>2, <3>2 DEF RefusedStaysRefused
        <4> QED
          BY <1>1, <4>1 DEF DeliveryIsSound, Running
      <3> QED
        BY <3>1, <3>2
    <2>3. \A x \in OpIds : known[x] \in {Full, "Resolved"} => known'[x] = known[x]
      BY <1>1, <2>1
    <2> QED
      BY <1>1, <2>1, <2>2, <2>3 DEF RefusedStaysRefused, Running
  <1>12. CASE Sends
    <2>1. PICK id \in OpIds :
             /\ ~Final(known[id])
             /\ \A x \in OpIds : TaskOnTheWay(x)' => TaskOnTheWay(x) \/ x = id
             /\ UNCHANGED <<known, toManager, active, completed>>
      BY <1>12 DEF Sends, runVars
    <2> QED
      BY <1>1, <2>1 DEF RefusedStaysRefused, Running, Sent
  <1>13. CASE Decides
    <2>1. /\ UNCHANGED <<toManager, active, completed>>
          /\ \A x \in OpIds : TaskOnTheWay(x)' => TaskOnTheWay(x)
          /\ \A x \in OpIds :
                known'[x] = known[x] \/ (~Final(known[x]) /\ known'[x] = "Resolved")
      BY <1>13 DEF Decides, runVars
    <2> QED
      BY <1>1, <2>1 DEF RefusedStaysRefused, Running, Sent
  <1>14. CASE UNCHANGED <<known, active, completed, toManager, toClient>>
    BY <1>2, <1>14 DEF Running, TaskOnTheWay, TaskMessage, Sent
  <1>15. Ends \/ Leaves \/ Starts \/ Dies =>
            toManager' = <<>> /\ toClient' = <<>> /\ known' = known /\ active' \in {active, None}
    BY DEF Ends, Leaves, Starts, Dies, channelVars, managerVars
  <1>16. UNCHANGED vars \/ (\E i \in DOMAIN acknowledging : SavesReceipt(i)) =>
            UNCHANGED <<known, active, completed, toManager, toClient>>
    BY DEF SavesReceipt, vars, runVars, channelVars, managerVars
  <1> QED
    BY <1>3, <1>4, <1>5, <1>6, <1>7, <1>8, <1>9, <1>10, <1>11, <1>12, <1>13, <1>14,
       <1>15, <1>16 DEF Step

LEMMA HeldStep == Inv /\ Step => FinalResultsAreHeld'
  <1> SUFFICES ASSUME Inv, Step, run' \in {"down", "up"}, ~faulted',
                      NEW id \in OpIds, Unsettled(id)'
               PROVE  completed'[id] = disk'[id].report \/ Running(id)'
    BY DEF FinalResultsAreHeld, Running
  <1> DEFINE Held == run \in {"down", "up"} /\ ~faulted /\ Unsettled(id)
                        => completed[id] = disk[id].report \/ Running(id)
  <1>1. /\ Held
        /\ DeliveryIsSound /\ SavedReceiptsSettle /\ RecordsAreSound
        /\ faulted \in BOOLEAN
        /\ active # None => active.id \in OpIds
    BY Parts DEF Inv, TransportTypeOK, FinalResultsAreHeld, Running
  <1>2. CASE Works
    <2>1. /\ ~faulted /\ run \in {"down", "up"} /\ completed' = completed
          /\ active # None /\ active' # None /\ active'.id = active.id
      BY <1>2, Parts DEF Works, EngineUnchanged
    <2>2. ~Running(id) => disk'[id] = disk[id]
      BY <1>2 DEF Works, Running
    <2> QED
      BY <1>1, <2>1, <2>2 DEF Unsettled, Running
  <1>3. ASSUME NEW i \in DOMAIN acknowledging, SavesReceipt(i)
        PROVE  completed'[id] = disk'[id].report \/ Running(id)'
    <2>1. ~faulted /\ UNCHANGED <<run, completed, active>>
      BY <1>3 DEF SavesReceipt
    <2>2. Unsettled(id) /\ disk'[id].report = disk[id].report
      BY <1>3, Kinds DEF SavesReceipt, Unsettled
    <2> QED
      BY <1>1, <2>1, <2>2 DEF Running
  <1>4. ASSUME NEW i \in DOMAIN acknowledging, Settles(i)
        PROVE  completed'[id] = disk'[id].report \/ Running(id)'
    <2>1. UNCHANGED <<run, faulted, disk, active>>
      BY <1>4 DEF Settles, journalVars
    <2>2. ASSUME completed'[id] # completed[id], completed[id] = disk[id].report
          PROVE  FALSE
      <3>1. /\ acknowledging[i].id = id /\ acknowledging[i].report = disk[id].report
            /\ acknowledging[i].phase = "saved"
        BY <1>4, <2>2 DEF Settles
      <3>2. disk[id] # None /\ Final(disk[id].report)
        BY <2>1 DEF Unsettled
      <3>3. disk[id].acknowledged
        BY <1>1, <3>1, <3>2 DEF SavedReceiptsSettle
      <3> QED
        BY <1>1, <3>2, <3>3, Kinds DEF RecordsAreSound, ValidRecord
    <2> QED
      BY <1>1, <2>1, <2>2 DEF Unsettled, Running
  <1>5. CASE Begins
    <2>1. PICK x \in OpIds :
             /\ UNCHANGED <<run, faulted, disk>> /\ active = None
             /\ active' # None /\ active'.id = x
             /\ \A y \in OpIds : y # x => completed'[y] = completed[y]
      BY <1>5, Parts DEF Begins, Reads, journalVars
    <2> QED
      BY <1>1, <2>1 DEF Unsettled, Running
  <1>6. CASE UNCHANGED <<faulted, disk, completed, active>> /\ run \in {"down", "up"}
    BY <1>1, <1>6 DEF Unsettled, Running
  <1>7. CASE Returns
    <2>1. UNCHANGED <<run, faulted, disk>> /\ active # None /\ active.phase = "done"
      BY <1>7 DEF Returns, journalVars
    <2>2. CASE id = active.id
      <3>1. active.report = disk[id].report
        BY <1>1, <2>1, <2>2 DEF DeliveryIsSound, Unsettled
      <3> QED
        BY <1>7, <2>1, <2>2, <3>1 DEF Returns
    <2>3. CASE id # active.id
      BY <1>1, <1>7, <2>1, <2>3 DEF Returns, Unsettled, Running
    <2> QED
      BY <2>2, <2>3
  <1>8. CASE Offers
    <2>1. UNCHANGED <<run, faulted, disk, active>>
      BY <1>8 DEF Offers, journalVars
    <2> QED
      BY <1>1, <1>8, <2>1 DEF Offers, Unsettled, Running
  <1>9. CASE Starts
    <2>1. disk' = disk /\ disk[id] # None /\ Final(disk[id].report)
      BY <1>9 DEF Starts, Unsettled
    <2>2. ~disk[id].acknowledged
      BY <1>1, <2>1, Kinds DEF RecordsAreSound, ValidRecord
    <2>3. ~Final(disk[id].accepted)
      BY <1>1, <2>1, <2>2 DEF RecordsAreSound
    <2>4. id \in Pending
      BY <2>1, <2>2, <2>3, Kinds DEF Pending, ResultOwed, Final
    <2> QED
      BY <1>9, <2>1, <2>4 DEF Starts
  <1>10. Ends \/ Dies => run' \in {"ended", "off"}
    BY DEF Ends, Dies
  <1>11. Repeats \/ Notes \/ Ignores \/ Connects \/ Leaves \/ Hears \/ Sends \/ Decides
            \/ UNCHANGED vars
            => UNCHANGED <<faulted, disk, completed, active>> /\ run \in {"down", "up"}
    BY DEF Repeats, Notes, Ignores, Reads, Connects, Leaves, Hears, Sends, Decides, vars,
           runVars, journalVars
  <1> QED
    BY <1>2, <1>3, <1>4, <1>5, <1>6, <1>7, <1>8, <1>9, <1>10, <1>11 DEF Step

LEMMA BegunStep == Inv /\ Step => BegunIsReported'
  <1> SUFFICES ASSUME Inv, Step, ~faulted' PROVE BegunIsReported'
    BY DEF BegunIsReported
  <1>1. /\ BegunIsReported /\ RunIsSound
        /\ begun \subseteq OpIds /\ faulted \in BOOLEAN
    BY DEF Inv, TransportTypeOK
  <1>2. ASSUME UNCHANGED <<faulted, begun, disk, active, cause>>,
               run' = run \/ run \in {"down", "up", "stopping"}
        PROVE  BegunIsReported'
    BY <1>1, <1>2 DEF BegunIsReported, Reported, Running, Closed
  <1>3. CASE Works
    <2>1. /\ active # None /\ active' # None /\ active'.id = active.id
          /\ UNCHANGED <<run, cause>> /\ ~faulted
      BY <1>3, Parts DEF Works, EngineUnchanged
    <2>2. cause = None
      BY <1>1, <2>1 DEF RunIsSound
    <2>3. run \in {"down", "up", "stopping"}
      BY <1>1, <2>1 DEF RunIsSound, Inv, TransportTypeOK
    <2>4. ASSUME NEW x \in begun'
          PROVE  Reported(x)' \/ (Running(x)' /\ active'.phase = "holding")
      <3>1. CASE x = active.id /\ active'.phase = "holding"
        BY <2>1, <3>1 DEF Running
      <3>2. CASE x = active.id /\ disk'[x] # None /\ disk'[x].report # None
        BY <3>2 DEF Reported
      <3>3. CASE x \in begun /\ disk'[x] = disk[x] /\ ~(x = active.id /\ active.phase = "holding")
        BY <1>1, <2>1, <2>3, <3>3 DEF BegunIsReported, Reported, Closed, Running
      <3> QED
        BY <1>3, <3>1, <3>2, <3>3 DEF Works
    <2>5. None # "Ok"
      BY Kinds
    <2> QED
      BY <2>1, <2>2, <2>4, <2>5 DEF BegunIsReported
  <1>4. ASSUME NEW i \in DOMAIN acknowledging, SavesReceipt(i)
        PROVE  BegunIsReported'
    <2>1. ~faulted /\ UNCHANGED <<run, cause, begun, active>>
      BY <1>4 DEF SavesReceipt
    <2>2. ASSUME NEW x \in OpIds, Reported(x)
          PROVE  Reported(x)'
      BY <1>4, <2>2 DEF SavesReceipt, Reported, Closed
    <2> QED
      BY <1>1, <2>1, <2>2 DEF BegunIsReported, Running
  <1>5. CASE \E i \in DOMAIN acknowledging : Settles(i)
    BY <1>2, <1>5 DEF Settles, journalVars
  <1>6. CASE Ends
    <2>1. UNCHANGED <<begun, disk>> /\ ~faulted /\ run' = "ended"
      BY <1>1, <1>6 DEF Ends
    <2>2. CASE cause' = "Ok"
      <3>1. run = "stopping" /\ Drained
        BY <1>6, <2>2 DEF Ends
      <3>2. active # None => active.phase # "holding"
        BY <3>1 DEF Drained
      <3> QED
        BY <1>1, <2>1, <3>1, <3>2 DEF BegunIsReported, Reported, Closed, Running
    <2> QED
      BY <2>1, <2>2 DEF BegunIsReported
  <1>7. CASE Begins
    <2>1. UNCHANGED <<faulted, begun, disk, cause, run>> /\ active = None
      BY <1>7 DEF Begins, Reads, journalVars
    <2> QED
      BY <1>1, <2>1 DEF BegunIsReported, Reported, Closed, Running
  <1>8. CASE Returns
    <2>1. UNCHANGED <<faulted, begun, disk, cause, run>> /\ active.phase = "done"
      BY <1>8 DEF Returns, journalVars
    <2> QED
      BY <1>1, <2>1 DEF BegunIsReported, Reported, Closed, Running
  <1>9. CASE Starts
    BY <1>9, Kinds DEF Starts, BegunIsReported
  <1>10. CASE Dies
    BY <1>10, Kinds DEF Dies, BegunIsReported
  <1>11. Repeats \/ Notes \/ Ignores \/ Offers \/ Connects \/ Leaves \/ Hears \/ Sends
            \/ Decides \/ UNCHANGED vars
            => /\ UNCHANGED <<faulted, begun, disk, active, cause>>
               /\ run' = run \/ run \in {"down", "up", "stopping"}
    BY DEF Repeats, Notes, Ignores, Reads, Offers, Connects, Leaves, Hears, Sends, Decides,
           vars, runVars, journalVars
  <1> QED
    BY <1>2, <1>3, <1>4, <1>5, <1>6, <1>7, <1>8, <1>9, <1>10, <1>11 DEF Step

(***************************************************************************)
(* The theorems                                                            *)
(***************************************************************************)

(* Nothing is recorded, running or on the way at first.                    *)
LEMMA InitInv == Init => Inv
  <1> SUFFICES ASSUME Init PROVE Inv
    OBVIOUS
  <1>1. TransportTypeOK
    BY EmptySeq DEF Init, TransportTypeOK
  <1>2. /\ \A id \in OpIds : disk[id] = None /\ completed[id] = None /\ known[id] = None
        /\ active = None /\ cause = None /\ run = "off" /\ begun = {}
        /\ poisoned = FALSE /\ faulted = FALSE
        /\ toManager = <<>> /\ toClient = <<>> /\ acknowledging = <<>>
    BY DEF Init
  <1>3. \A id \in OpIds :
           /\ ~Closed(id) /\ ~ClosingReceipt(id) /\ ~TaskOnTheWay(id) /\ ~Running(id)
           /\ ~Final(known[id])
           /\ \A report \in Reports : ~Told(id, report) /\ ~Sent(id, report)
    BY <1>2, Kinds DEF Closed, ClosingReceipt, TaskOnTheWay, Running, Told, Sent
  <1>4. RecordsAreSound /\ RunIsSound /\ DeliveryIsSound
    BY <1>2 DEF RecordsAreSound, RunIsSound, DeliveryIsSound
  <1>5. ClosedIsOver /\ ReceiptsComeLast /\ SavedReceiptsSettle
    BY <1>2, <1>3 DEF ClosedIsOver, ReceiptsComeLast, SavedReceiptsSettle
  <1>6. FinalIsWitnessed /\ KnownIsRecorded
    BY <1>3 DEF FinalIsWitnessed, KnownIsRecorded
  <1>7. RefusedStaysRefused
    BY <1>2, <1>3, Kinds DEF RefusedStaysRefused
  <1>8. FinalResultsAreHeld /\ BegunIsReported
    BY <1>2, Kinds DEF FinalResultsAreHeld, BegunIsReported
  <1> QED
    BY <1>1, <1>4, <1>5, <1>6, <1>7, <1>8 DEF Inv

(* Inv holds in every state of every behaviour.                            *)
THEOREM Invariance == Spec => []Inv
  <1>1. Init => Inv
    BY InitInv
  <1>2. Inv /\ [Next]_vars => Inv'
    <2> SUFFICES ASSUME Inv, [Next]_vars PROVE Inv'
      OBVIOUS
    <2>1. Step
      BY EveryStep
    <2> QED
      BY <2>1, TypeStep, RecordsStep, RunStep, DeliveryStep, ClosedStep, LastStep, SettleStep,
         WitnessStep, KnownStep, RefusedStep, HeldStep, BegunStep
      DEF Inv
  <1> QED
    BY <1>1, <1>2, PTL DEF Spec

(* FinalResultsAreHeld: no final result is dropped from memory before its  *)
(* receipt is saved (completed, active and acknowledging in run()),        *)
(* whatever the sessions, receipts and deliveries interleave to.           *)
THEOREM FinalResultsStay == Spec => []FinalResultsAreHeld
  <1>1. Inv => FinalResultsAreHeld
    BY DEF Inv
  <1> QED
    BY <1>1, Invariance, PTL

(* OneFinalResult: what deliver() answers, session() repeats and the       *)
(* heartbeat offers never contradicts the final result the Manager has.    *)
THEOREM FinalResultIsOne == Spec => []OneFinalResult
  <1>1. Inv => OneFinalResult
    <2> SUFFICES ASSUME Inv, NEW id \in OpIds, NEW report, Final(report),
                        \/ report = completed[id]
                        \/ \E i \in DOMAIN toManager :
                              /\ toManager[i].type = "Result" /\ toManager[i].id = id
                              /\ report = toManager[i].report
                 PROVE  IF Final(known[id])
                        THEN \/ known[id] \in {report, "Resolved"}
                             \/ report = "Rejected.OperationAlreadyCompleted"
                        ELSE report # "Rejected.OperationAlreadyCompleted"
      BY DEF OneFinalResult
    <2>1. /\ FinalIsWitnessed /\ KnownIsRecorded /\ RecordsAreSound
          /\ completed \in ReportTable /\ toManager \in Seq(ManagerMessage)
      BY DEF Inv, TransportTypeOK, ReportTable
    <2>2. report \in Reports
      <3>1. CASE report = completed[id]
        BY <2>1, <3>1, Kinds DEF ReportTable
      <3>2. CASE \E i \in DOMAIN toManager :
                    toManager[i].type = "Result" /\ report = toManager[i].report
        BY <2>1, <3>2, Parts, LenProperties, ElementOfSeq
      <3> QED
        BY <3>1, <3>2
    <2>3. Told(id, report)
      BY DEF Told, Sent
    <2>4. /\ report # "Rejected.OperationAlreadyCompleted"
          /\ \/ Recorded(id, report)
             \/ report = "Rejected.JournalFull" /\ disk[id] = None
             \/ known[id] \in {report, "Resolved"}
      BY <2>1, <2>2, <2>3 DEF FinalIsWitnessed
    <2>5. Recorded(id, report) => ~Closed(id)
      BY <2>1, Kinds DEF Recorded, Closed, RecordsAreSound, ValidRecord
    <2>6. Final(known[id]) => known[id] \in {report, "Resolved"}
      BY <2>1, <2>4, <2>5 DEF KnownIsRecorded, Recorded, Closed
    <2> QED
      BY <2>4, <2>6
  <1> QED
    BY <1>1, Invariance, PTL

(* ManagerClosesFirst: acknowledge_final compacts no record of an          *)
(* operation that the Manager has not closed.                              *)
THEOREM ManagerIsFirst == Spec => []ManagerClosesFirst
  <1>1. Inv => ManagerClosesFirst
    BY DEF Inv, ClosedIsOver, ManagerClosesFirst
  <1> QED
    BY <1>1, Invariance, PTL

(* CleanShutdownIsSettled: when shutdown() returns without an error, every *)
(* operation this process began has a saved report.                        *)
THEOREM ShutdownIsSettled == Spec => []CleanShutdownIsSettled
  <1>1. Inv => CleanShutdownIsSettled
    BY DEF Inv, BegunIsReported, Reported, CleanShutdownIsSettled
  <1> QED
    BY <1>1, Invariance, PTL

(***************************************************************************)
(* The session implements the ledger                                       *)
(***************************************************************************)

(* A step of the session as the ledger sees it.                            *)
Follows == [Ledger!LedgerNext]_(Ledger!ledgerVars)

(* What the Manager cannot be told for certain has an intent, so that the  *)
(* operation may be closed by hand.                                        *)
UncertainAfterIntent ==
    \A id \in OpIds : disk[id] # None /\ Uncertain(disk[id].report) => disk[id].effect # None

(* What the engine may put in the place of a record.                       *)
Claimed(old, new) ==
    /\ old = None
    /\ new.effect = None /\ new.report = None /\ ~new.acknowledged

Open(record) == record # None /\ ~record.acknowledged

Remembered(old, new) ==
    /\ Open(old) /\ ~Final(old.report) /\ old.effect = None
    /\ new.effect # None /\ new.report = old.report /\ ~new.acknowledged

Decided(old, new) ==
    /\ Open(old) /\ ~Final(old.report)
    /\ new.report \in Saved /\ new.effect = old.effect /\ ~new.acknowledged
    /\ old.effect = None <=> new.report = "Conflict"

Compacted(old, new) ==
    /\ Open(old) /\ old.report \in Reports
    /\ new.acknowledged /\ new.report = None /\ new.effect = None

Received(old, new) ==
    /\ Open(old)
    /\ new.report = old.report /\ new.effect = old.effect /\ ~new.acknowledged

Entry(old, new) ==
    /\ new # None
    /\ \/ Claimed(old, new)
       \/ Remembered(old, new)
       \/ Decided(old, new)
       \/ Compacted(old, new)
       \/ Received(old, new)

(* One record is written, and the Manager learns nothing.                  *)
Writes(id) ==
    /\ Entry(disk[id], disk'[id])
    /\ \A x \in OpIds : x # id => disk'[x] = disk[x]
    /\ known' = known

(* A task is none of the absent ones, and names its operation.             *)
LEMMA AskedTasks ==
    \A id \in OpIds : Asked(id) # None /\ Asked(id).id = id
BY Parts DEF Asked, Delivery, DeliveryRecord, Modes

(* The verdicts the ledger knows, and which of them the engine comes to.   *)
LEMMA ReportKinds ==
    /\ \A report \in Refusals \union Successes : report \in Reports /\ Final(report)
    /\ \A report \in Saved : Final(report) => report \in {"Conflict", "ConfigSaved"}
    /\ "Conflict" \in Refusals /\ "ConfigSaved" \in Successes
    /\ "Conflict" \notin Successes /\ "ConfigSaved" \notin Refusals
    /\ "Rejected.JournalFull" \notin Refusals \union Successes
    /\ "Resolved" \notin Refusals \union Successes
    /\ ~Uncertain(None)
BY TransportAssumption
   DEF Saved, Reports, Uncertainties, Refusals, GateRefusals, Successes, Final, Uncertain

(* The ledger's sets of reports are those of the session.                  *)
LEMMA LedgerKinds ==
    /\ Ledger!Refusals = Refusals /\ Ledger!Successes = Successes
    /\ {"Conflict", "ConfigSaved"} \subseteq Ledger!Refusals \union Ledger!Successes
    /\ "Conflict" \notin Ledger!Successes
BY DEF Ledger!Refusals, Ledger!Successes, Refusals, Successes

-----------------------------------------------------------------------------
(* Every write is an entry                                                 *)

LEMMA LockWrites == Inv /\ Lock => disk' = disk \/ \E id \in OpIds : Writes(id)
  <1> SUFFICES ASSUME Inv, Lock, disk' # disk PROVE \E id \in OpIds : Writes(id)
    OBVIOUS
  <1>1. active # None /\ known' = known
    BY DEF Lock, EngineUnchanged, managerVars
  <1>2. active.id \in OpIds /\ disk \in Disks
    BY <1>1, Running0
  <1> DEFINE new == FreshRecord(active.id)
  <1>3. /\ new \in Record(OpIds, {"intent"}, Saved) /\ new # None
        /\ new.effect = None /\ new.report = None /\ new.acknowledged = FALSE
    BY <1>2, Parts DEF FreshRecord, Record
  <1>4. disk[active.id] = None
        /\ \E outcome \in {"Ok", "Storage"} : Save(active.id, new, outcome)
    BY DEF Lock, journalVars
  <1> HIDE DEF new
  <1>5. disk'[active.id] = new /\ \A x \in OpIds : x # active.id => disk'[x] = disk[x]
    BY <1>2, <1>3, <1>4, Saving
  <1> QED
    BY <1>1, <1>2, <1>3, <1>4, <1>5 DEF Writes, Entry, Claimed

LEMMA CommitWrites ==
    Inv /\ (Remember \/ Finish) => disk' = disk \/ \E id \in OpIds : Writes(id)
  <1> SUFFICES ASSUME Inv, Remember \/ Finish
               PROVE  disk' = disk \/ \E id \in OpIds : Writes(id)
    OBVIOUS
  <1> DEFINE id0 == active.id
             record == disk[id0]
  <1>1. active # None /\ active.phase = "holding" /\ known' = known
    BY DEF Remember, Finish, Holding, Commit, EngineUnchanged, managerVars
  <1>2. /\ id0 \in OpIds /\ disk \in Disks
        /\ record # None => record \in Record(OpIds, {"intent"}, Saved)
    BY <1>1, Running0
  <1>3. record # None /\ ~record.acknowledged /\ ~Final(record.report)
    BY <1>1 DEF Inv, DeliveryIsSound
  <1>4. ASSUME NEW new \in Record(OpIds, {"intent"}, Saved), Entry(record, new),
               NEW outcome \in {"Ok", "Storage"}, Save(id0, new, outcome)
        PROVE  disk' = disk \/ \E id \in OpIds : Writes(id)
    <2>1. \/ disk' = disk
          \/ disk'[id0] = new /\ \A x \in OpIds : x # id0 => disk'[x] = disk[x]
      BY <1>2, <1>4, Saving
    <2> QED
      BY <1>1, <1>2, <1>4, <2>1 DEF Writes
  <1>5. CASE Remember
    <2> DEFINE new == [record EXCEPT !.effect = "intent"]
    <2>1. /\ new \in Record(OpIds, {"intent"}, Saved) /\ new.report = record.report
          /\ new.acknowledged = record.acknowledged /\ new.effect = "intent"
      BY <1>2, <1>3 DEF Record
    <2>2. record.effect = None /\ \E outcome \in {"Ok", "Storage"} : Save(id0, new, outcome)
      BY <1>5 DEF Remember, Commit
    <2> HIDE DEF new
    <2>3. Entry(record, new)
      BY <1>3, <2>1, <2>2, Parts, Kinds DEF Entry, Remembered, Open
    <2> QED
      BY <1>4, <2>1, <2>2, <2>3
  <1>6. CASE Finish
    <2>1. PICK report \in Outcomes(record) :
             Commit([record EXCEPT !.report = report], Answer(report))
      BY <1>6 DEF Finish
    <2> DEFINE new == [record EXCEPT !.report = report]
    <2>2. report \in Saved /\ (record.effect = None <=> report = "Conflict")
      BY <2>1, Kinds DEF Outcomes
    <2>3. /\ new \in Record(OpIds, {"intent"}, Saved) /\ new.report = report
          /\ new.acknowledged = record.acknowledged /\ new.effect = record.effect
      BY <1>2, <1>3, <2>2 DEF Record
    <2>4. \E outcome \in {"Ok", "Storage"} : Save(id0, new, outcome)
      BY <2>1 DEF Commit
    <2> HIDE DEF new
    <2>5. Entry(record, new)
      BY <1>3, <2>2, <2>3, Parts DEF Entry, Decided, Open
    <2> QED
      BY <1>4, <2>3, <2>4, <2>5
  <1> QED
    BY <1>5, <1>6

LEMMA ReceiptWrites ==
    ASSUME Inv, NEW i \in DOMAIN acknowledging, SaveReceipt(i), disk' # disk
    PROVE  \E id \in OpIds : Writes(id)
  <1> DEFINE receipt == acknowledging[i]
             id0 == receipt.id
             record == disk[id0]
             closing == Closes(receipt)
             new == [record EXCEPT !.acknowledged = closing,
                                   !.report = IF closing THEN None ELSE @,
                                   !.effect = IF closing THEN None ELSE @,
                                   !.accepted = receipt.report]
  <1>1. SavesReceipt(i)
    BY SaveReceiptEffect
  <1>2. receipt \in ReceiptRecord /\ id0 \in OpIds /\ known' = known /\ disk \in Disks
    BY <1>1, Parts DEF SavesReceipt, managerVars, Inv, TransportTypeOK, Disks
  <1>3. /\ record # None /\ ~record.acknowledged /\ record.report = receipt.report
        /\ \E outcome \in {"Ok", "Storage"} : Save(id0, new, outcome)
    BY DEF SaveReceipt
  <1>4. record \in Record(OpIds, {"intent"}, Saved) /\ receipt.report \in Reports
        /\ closing \in BOOLEAN
    BY <1>2, <1>3, Parts DEF Disks, Closes, Final, Uncertain
  <1>5. receipt.report \in Saved
    BY <1>3, <1>4, Parts, Kinds
  <1> HIDE DEF closing
  <1>6. /\ new \in Record(OpIds, {"intent"}, Saved) /\ new.acknowledged = closing
        /\ closing => new.report = None /\ new.effect = None
        /\ ~closing => new.report = record.report /\ new.effect = record.effect
    BY <1>4, <1>5 DEF Record
  <1> HIDE DEF new
  <1>7. disk'[id0] = new /\ \A x \in OpIds : x # id0 => disk'[x] = disk[x]
    BY <1>2, <1>3, <1>6, Saving
  <1>8. Entry(record, new)
    BY <1>3, <1>4, <1>6, Parts DEF Entry, Compacted, Received, Open
  <1> QED
    BY <1>2, <1>7, <1>8 DEF Writes

-----------------------------------------------------------------------------
(* Every entry is a step of the ledger                                     *)

(* One line of the ledger changes, from what the old record says of it to  *)
(* what the new one says, and the Manager learns nothing.                  *)
LEMMA LineChanges ==
    ASSUME NEW id0 \in OpIds, \A x \in OpIds : x # id0 => disk'[x] = disk[x], known' = known
    PROVE  /\ Owners' = [Owners EXCEPT ![id0] = Owned(disk'[id0], id0)]
           /\ Commitments' = [Commitments EXCEPT ![id0] = Committed(disk'[id0])]
           /\ Verdicts' = [Verdicts EXCEPT ![id0] = Verdict(disk'[id0])]
           /\ Endings' = [Endings EXCEPT ![id0] = Over(disk'[id0])]
           /\ Heard' = Heard
  <1>1. Owners' = [Owners EXCEPT ![id0] = Owned(disk'[id0], id0)]
    BY DEF Owners, Owned, Asked, Delivery
  <1>2. Commitments' = [Commitments EXCEPT ![id0] = Committed(disk'[id0])]
    BY DEF Commitments, Committed
  <1>3. Verdicts' = [Verdicts EXCEPT ![id0] = Verdict(disk'[id0])]
    BY DEF Verdicts, Verdict
  <1>4. Endings' = [Endings EXCEPT ![id0] = Over(disk'[id0])]
    BY DEF Endings, Over
  <1>5. Heard' = Heard
    BY DEF Heard, Asked, Delivery
  <1> QED
    BY <1>1, <1>2, <1>3, <1>4, <1>5

(* What stays in the record stays in the ledger.                           *)
LEMMA LineStays ==
    ASSUME NEW id0 \in OpIds, \A x \in OpIds : x # id0 => disk'[x] = disk[x]
    PROVE  /\ Owned(disk'[id0], id0) = Owned(disk[id0], id0) => Owners' = Owners
           /\ Committed(disk'[id0]) = Committed(disk[id0]) => Commitments' = Commitments
           /\ Verdict(disk'[id0]) = Verdict(disk[id0]) => Verdicts' = Verdicts
           /\ Over(disk'[id0]) = Over(disk[id0]) => Endings' = Endings
  <1>1. Owned(disk'[id0], id0) = Owned(disk[id0], id0) => Owners' = Owners
    BY DEF Owners, Owned, Asked, Delivery
  <1>2. Committed(disk'[id0]) = Committed(disk[id0]) => Commitments' = Commitments
    BY DEF Commitments, Committed
  <1>3. Verdict(disk'[id0]) = Verdict(disk[id0]) => Verdicts' = Verdicts
    BY DEF Verdicts, Verdict
  <1>4. Over(disk'[id0]) = Over(disk[id0]) => Endings' = Endings
    BY DEF Endings, Over
  <1> QED
    BY <1>1, <1>2, <1>3, <1>4

(* The ledger's line of an operation, as its record has it.                *)
LEMMA LineOf ==
    ASSUME NEW id \in OpIds
    PROVE  /\ Owners[id] = Owned(disk[id], id) /\ Commitments[id] = Committed(disk[id])
           /\ Verdicts[id] = Verdict(disk[id]) /\ Endings[id] = Over(disk[id])
BY DEF Owners, Commitments, Verdicts, Endings

LEMMA WritesFollow ==
    ASSUME UncertainAfterIntent, NEW id0 \in OpIds, Writes(id0)
    PROVE  Follows
  <1> DEFINE old == disk[id0]
             new == disk'[id0]
  <1>1. /\ Entry(old, new) /\ new # None
        /\ \A x \in OpIds : x # id0 => disk'[x] = disk[x]
        /\ known' = known
    BY DEF Writes, Entry
  <1>2. /\ Owners[id0] = Owned(old, id0) /\ Commitments[id0] = Committed(old)
        /\ Verdicts[id0] = Verdict(old) /\ Endings[id0] = Over(old)
    BY LineOf
  <1>3. /\ Owners' = [Owners EXCEPT ![id0] = Owned(new, id0)]
        /\ Commitments' = [Commitments EXCEPT ![id0] = Committed(new)]
        /\ Verdicts' = [Verdicts EXCEPT ![id0] = Verdict(new)]
        /\ Endings' = [Endings EXCEPT ![id0] = Over(new)]
        /\ Heard' = Heard
    BY <1>1, LineChanges
  <1>4. /\ Owned(new, id0) = Owned(old, id0) => Owners' = Owners
        /\ Committed(new) = Committed(old) => Commitments' = Commitments
        /\ Verdict(new) = Verdict(old) => Verdicts' = Verdicts
        /\ Over(new) = Over(old) => Endings' = Endings
    BY <1>1, LineStays
  <1>5. Asked(id0) # None /\ Asked(id0).id = id0
    BY AskedTasks
  <1>6. old # None /\ Uncertain(old.report) => old.effect # None
    BY DEF UncertainAfterIntent
  <1> HIDE DEF old, new
  <1>7. CASE Claimed(old, new)
    <2>1. /\ Owned(old, id0) = None /\ Owned(new, id0) = Asked(id0)
          /\ Committed(new) = Committed(old) /\ Verdict(new) = Verdict(old)
          /\ Over(new) = Over(old)
      BY <1>1, <1>7, Kinds DEF Claimed, Owned, Committed, Verdict, Over
    <2>2. Ledger!Claim(Asked(id0))
      BY <1>2, <1>3, <1>4, <1>5, <2>1 DEF Ledger!Claim
    <2> QED
      BY <2>2 DEF Follows, Ledger!LedgerNext
  <1>8. CASE Remembered(old, new)
    <2>1. /\ Owned(old, id0) = Asked(id0) /\ Owned(new, id0) = Asked(id0)
          /\ Committed(old) = FALSE /\ Committed(new) = TRUE
          /\ Verdict(old) = None /\ Verdict(new) = None
          /\ Over(old) = FALSE /\ Over(new) = FALSE
      BY <1>1, <1>8 DEF Remembered, Open, Owned, Committed, Verdict, Over
    <2>2. Ledger!Commit(id0)
      BY <1>2, <1>3, <1>4, <1>5, <2>1 DEF Ledger!Commit, Ledger!Undecided
    <2> QED
      BY <2>2 DEF Follows, Ledger!LedgerNext
  <1>9. CASE Decided(old, new)
    <2>1. /\ Owned(old, id0) = Asked(id0) /\ Owned(new, id0) = Asked(id0)
          /\ Committed(new) = Committed(old)
          /\ Verdict(old) = None
          /\ Over(old) = FALSE /\ Over(new) = FALSE
      BY <1>1, <1>9 DEF Decided, Open, Owned, Committed, Verdict, Over
    <2>2. CASE ~Final(new.report)
      <3>1. Verdict(new) = None
        BY <2>2 DEF Verdict
      <3> QED
        BY <1>3, <1>4, <2>1, <3>1 DEF Follows, Ledger!ledgerVars
    <2>3. CASE Final(new.report)
      <3>1. Verdict(new) = new.report
        BY <1>1, <2>3 DEF Verdict
      <3>2. new.report \in {"Conflict", "ConfigSaved"}
        BY <1>9, <2>3, ReportKinds DEF Decided
      <3>3. new.report = "ConfigSaved" => Committed(old)
        BY <1>9 DEF Decided, Open, Committed
      <3>4. /\ Owners' = Owners /\ Commitments' = Commitments /\ Endings' = Endings
            /\ Verdicts' = [Verdicts EXCEPT ![id0] = new.report]
            /\ Owners[id0] # None /\ ~Endings[id0] /\ Verdicts[id0] = None
            /\ new.report = "ConfigSaved" => Commitments[id0]
        BY <1>2, <1>3, <1>4, <1>5, <2>1, <3>1, <3>3
      <3>5. Ledger!Decide(id0, new.report)
        BY <1>3, <3>2, <3>4, LedgerKinds DEF Ledger!Decide, Ledger!Undecided
      <3> QED
        BY <3>2, <3>5, LedgerKinds DEF Follows, Ledger!LedgerNext
    <2> QED
      BY <2>2, <2>3
  <1>10. CASE Compacted(old, new)
    <2>1. /\ Owned(old, id0) = Asked(id0) /\ Owned(new, id0) = Asked(id0)
          /\ Committed(new) = FALSE /\ Verdict(new) = None
          /\ Over(old) = FALSE /\ Over(new) = TRUE
      BY <1>1, <1>10, Kinds DEF Compacted, Open, Owned, Committed, Verdict, Over
    <2>2. Verdict(old) # None \/ Committed(old) = TRUE
      BY <1>6, <1>10, Kinds DEF Compacted, Open, Verdict, Committed
    <2>3. Ledger!CloseLine(id0)
      BY <1>2, <1>3, <1>4, <1>5, <2>1, <2>2 DEF Ledger!CloseLine
    <2> QED
      BY <2>3 DEF Follows, Ledger!LedgerNext
  <1>11. CASE Received(old, new)
    <2>1. /\ Owned(new, id0) = Owned(old, id0) /\ Committed(new) = Committed(old)
          /\ Verdict(new) = Verdict(old) /\ Over(new) = Over(old)
      BY <1>1, <1>11 DEF Received, Open, Owned, Committed, Verdict, Over
    <2> QED
      BY <1>3, <1>4, <2>1 DEF Follows, Ledger!ledgerVars
  <1> QED
    BY <1>1, <1>7, <1>8, <1>9, <1>10, <1>11 DEF Entry

(* Nothing is written, and the Manager learns no verdict.                  *)
LEMMA QuietFollows ==
    ASSUME disk' = disk,
           \A id \in OpIds :
              \/ known'[id] = known[id]
              \/ {known[id], known'[id]} \intersect (Refusals \union Successes) = {}
    PROVE  Follows
  <1>1. Owners' = Owners /\ Commitments' = Commitments /\ Verdicts' = Verdicts
        /\ Endings' = Endings
    BY DEF Owners, Commitments, Verdicts, Endings, Owned, Asked, Delivery
  <1>2. ASSUME NEW id \in OpIds
        PROVE  {known'[id]} \intersect (Refusals \union Successes)
                 = {known[id]} \intersect (Refusals \union Successes)
    OBVIOUS
  <1>3. Heard' = Heard
    BY <1>2, AskedTasks DEF Heard, Asked, Delivery
  <1> QED
    BY <1>1, <1>3 DEF Follows, Ledger!ledgerVars

(* The Manager learns the verdict that is in the journal.                  *)
LEMMA TellFollows ==
    ASSUME Inv, NEW id0 \in OpIds, disk' = disk,
           ~Final(known[id0]), Recorded(id0, known'[id0]),
           known'[id0] \in Refusals \union Successes,
           \A id \in OpIds : id # id0 => known'[id] = known[id]
    PROVE  Follows
  <1>1. Owners' = Owners /\ Commitments' = Commitments /\ Verdicts' = Verdicts
        /\ Endings' = Endings
    BY DEF Owners, Commitments, Verdicts, Endings, Owned, Asked, Delivery
  <1>2. /\ disk[id0] # None /\ disk[id0].report = known'[id0]
        /\ Final(known'[id0]) /\ known'[id0] # None
    BY ReportKinds, Kinds DEF Recorded
  <1>3. ~disk[id0].acknowledged
    BY <1>2 DEF Inv, RecordsAreSound, ValidRecord
  <1>4. /\ Owners[id0] = Asked(id0) /\ Verdicts[id0] = known'[id0] /\ Endings[id0] = FALSE
    BY <1>2, <1>3, LineOf DEF Owned, Verdict, Over
  <1>5. known[id0] \notin Refusals \union Successes
    BY ReportKinds
  <1>6. \A id \in OpIds : Asked(id) # None /\ Asked(id).id = id
    BY AskedTasks
  <1>7. Heard' = [Heard EXCEPT ![Asked(id0)] = @ \union {known'[id0]}]
    <2> DEFINE tasks == {Asked(id) : id \in OpIds}
               verdicts == Refusals \union Successes
    <2>1. Heard = [task \in tasks |-> {known[task.id]} \intersect verdicts]
          /\ Heard' = [task \in tasks |-> {known'[task.id]} \intersect verdicts]
      BY DEF Heard, Asked, Delivery
    <2>2. /\ {known'[id0]} \intersect verdicts = {known'[id0]}
          /\ {known[id0]} \intersect verdicts = {}
      BY <1>5
    <2>3. \A task \in tasks : task.id \in OpIds /\ task = Asked(task.id)
      BY <1>6
    <2>4. Asked(id0) \in tasks
      OBVIOUS
    <2> HIDE DEF tasks, verdicts
    <2>5. ASSUME NEW task \in tasks
          PROVE  {known'[task.id]} \intersect verdicts
                   = IF task = Asked(id0)
                     THEN Heard[task] \union {known'[id0]} ELSE Heard[task]
      <3>1. CASE task = Asked(id0)
        BY <1>6, <2>1, <2>2, <3>1
      <3>2. CASE task # Asked(id0)
        <4>1. task.id # id0 /\ task.id \in OpIds
          BY <2>3, <3>2
        <4> QED
          BY <2>1, <3>2, <4>1
      <3> QED
        BY <3>1, <3>2
    <2> QED
      BY <2>1, <2>5
  <1>8. Ledger!Tell(id0)
    BY <1>1, <1>2, <1>4, <1>7 DEF Ledger!Tell
  <1> QED
    BY <1>8 DEF Follows, Ledger!LedgerNext

(* The Manager reads a result: it is the verdict in the journal, or the    *)
(* Manager has one already, or it is none that the ledger knows.           *)
LEMMA ReceivesFollows == Inv /\ ManagerReceives => Follows
  <1> SUFFICES ASSUME Inv, ManagerReceives PROVE Follows
    OBVIOUS
  <1> DEFINE message == Head(toManager)
  <1>1. /\ toManager \in Seq(ManagerMessage) /\ toManager # <<>>
        /\ known \in [OpIds -> Reports \union {None, "Resolved"}]
        /\ FinalIsWitnessed /\ disk' = disk
    BY DEF Inv, TransportTypeOK, ManagerReceives, ManagerUnchanged, journalVars
  <1>2. /\ message \in ManagerMessage /\ 1 \in DOMAIN toManager /\ message = toManager[1]
    BY <1>1, Behead
  <1>3. CASE known' = known
    BY <1>1, <1>3, QuietFollows
  <1>4. CASE /\ message.type = "Result"
             /\ known' = [known EXCEPT ![message.id] =
                   IF Final(@) THEN @ ELSE message.report]
    <2> DEFINE id0 == message.id
               report == message.report
    <2>1. id0 \in OpIds /\ report \in Reports /\ Sent(id0, report)
      BY <1>2, <1>4, Parts DEF Sent
    <2>2. /\ \A id \in OpIds : id # id0 => known'[id] = known[id]
          /\ known'[id0] = IF Final(known[id0]) THEN known[id0] ELSE report
      BY <1>1, <1>4, <2>1
    <2> HIDE DEF id0, report
    <2>3. CASE Final(known[id0])
      BY <1>1, <2>2, <2>3, QuietFollows
    <2>4. CASE ~Final(known[id0]) /\ report \notin Refusals \union Successes
      <3>1. known[id0] \notin Refusals \union Successes
        BY <2>4, ReportKinds
      <3> QED
        BY <1>1, <2>2, <2>4, <3>1, QuietFollows
    <2>5. CASE ~Final(known[id0]) /\ report \in Refusals \union Successes
      <3>1. Final(report) /\ report # "Rejected.JournalFull"
        BY <2>5, ReportKinds
      <3>2. known[id0] \notin {report, "Resolved"}
        BY <2>5, <3>1, Kinds
      <3>3. Recorded(id0, report)
        BY <1>1, <2>1, <3>1, <3>2 DEF FinalIsWitnessed, Told
      <3> QED
        BY <1>1, <2>1, <2>2, <2>5, <3>3, TellFollows
    <2> QED
      BY <2>3, <2>4, <2>5
  <1> QED
    BY <1>3, <1>4 DEF ManagerReceives

(* Someone settles an operation whose outcome is uncertain.                *)
LEMMA ResolvesFollows == Inv /\ ManagerResolves => Follows
  <1> SUFFICES ASSUME Inv, ManagerResolves PROVE Follows
    OBVIOUS
  <1>1. PICK id0 \in OpIds :
           Uncertain(known[id0]) /\ known' = [known EXCEPT ![id0] = "Resolved"]
    BY DEF ManagerResolves
  <1>2. /\ known \in [OpIds -> Reports \union {None, "Resolved"}] /\ disk' = disk
    BY DEF Inv, TransportTypeOK, ManagerResolves, ManagerUnchanged, journalVars
  <1>3. /\ known'[id0] = "Resolved"
        /\ \A id \in OpIds : id # id0 => known'[id] = known[id]
    BY <1>1, <1>2
  <1>4. known[id0] \notin Refusals \union Successes
    BY <1>1, ReportKinds DEF Final
  <1> QED
    BY <1>2, <1>3, <1>4, ReportKinds, QuietFollows

LEMMA EveryStepFollows ==
    Inv /\ UncertainAfterIntent /\ [Next]_vars => Follows /\ UncertainAfterIntent'
  <1> SUFFICES ASSUME Inv, UncertainAfterIntent, [Next]_vars
               PROVE  Follows /\ UncertainAfterIntent'
    OBVIOUS
  <1>1. CASE \E id \in OpIds : Writes(id)
    <2>1. PICK id0 \in OpIds : Writes(id0)
      BY <1>1
    <2>2. UncertainAfterIntent'
      <3>1. disk'[id0] # None /\ Uncertain(disk'[id0].report) => disk'[id0].effect # None
        BY <2>1, ReportKinds
        DEF Writes, Entry, Claimed, Remembered, Decided, Compacted, Received, Open,
            UncertainAfterIntent, Uncertain, Uncertainties
      <3> QED
        BY <2>1, <3>1 DEF Writes, UncertainAfterIntent
    <2> QED
      BY <2>1, <2>2, WritesFollow
  <1>2. ASSUME disk' = disk PROVE UncertainAfterIntent'
    BY <1>2 DEF UncertainAfterIntent
  <1>3. CASE disk' = disk /\ known' = known
    BY <1>2, <1>3, QuietFollows
  <1>4. CASE Lock \/ Remember \/ Finish
    <2>1. known' = known
      BY <1>4 DEF Lock, Remember, Finish, Commit, EngineUnchanged, managerVars
    <2> QED
      BY <1>1, <1>3, <1>4, <2>1, LockWrites, CommitWrites
  <1>5. ASSUME NEW i \in DOMAIN acknowledging, SaveReceipt(i)
        PROVE  Follows /\ UncertainAfterIntent'
    BY <1>1, <1>3, <1>5, ReceiptWrites DEF SaveReceipt, managerVars
  <1>6. CASE ManagerReceives \/ ManagerResolves
    BY <1>2, <1>6, ReceivesFollows, ResolvesFollows
       DEF ManagerReceives, ManagerResolves, ManagerUnchanged, journalVars
  <1>7. CASE \/ Start \/ Crash \/ Connect \/ Disconnect \/ Stop
             \/ OnExecuted \/ DrainedInTime \/ NotDrained \/ UNCHANGED vars
             \/ \E i \in DOMAIN acknowledging : OnReceiptSaved(i)
    BY <1>3, <1>7 DEF Start, Crash, Connect, Disconnect, Stop, OnExecuted, DrainedInTime,
                      NotDrained, OnReceiptSaved, vars, journalVars, managerVars
  <1>8. CASE OnMessage \/ OnTick \/ ManagerSends \/ ManagerRevokes
    BY <1>3, <1>8 DEF OnMessage, OnTick, ManagerSends, ManagerRevokes, ManagerUnchanged,
                      journalVars, managerVars
  <1> QED
    BY <1>4, <1>5, <1>6, <1>7, <1>8 DEF Next

(* Through lost and repeated results and receipts, reconnections, failed   *)
(* writes, shutdowns and crashes, what the Manager itself learns of every  *)
(* operation (Result frames of session() and the receipts of               *)
(* acknowledge_final) is what the journal once decided, after it was       *)
(* decided and before it was compacted, and no operation is compacted      *)
(* without a verdict or an intent that may have had its effect.            *)
THEOREM SessionKeepsLedger == Spec => ImplementsLedger
  <1>1. Init => Ledger!LedgerInit /\ UncertainAfterIntent
    <2> SUFFICES ASSUME Init PROVE Ledger!LedgerInit /\ UncertainAfterIntent
      OBVIOUS
    <2>1. disk = [id \in OpIds |-> None] /\ known = [id \in OpIds |-> None]
      BY DEF Init
    <2>2. /\ Owners = [id \in OpIds |-> None]
          /\ Commitments = [id \in OpIds |-> FALSE]
          /\ Verdicts = [id \in OpIds |-> None]
          /\ Endings = [id \in OpIds |-> FALSE]
      BY <2>1 DEF Owners, Commitments, Verdicts, Endings, Owned, Committed, Verdict, Over
    <2>3. Heard = [task \in {Asked(id) : id \in OpIds} |-> {}]
      <3>1. None \notin Refusals \union Successes
        BY Kinds, ReportKinds
      <3> QED
        BY <2>1, <3>1, AskedTasks DEF Heard
    <2> QED
      BY <2>1, <2>2, <2>3 DEF Ledger!LedgerInit, UncertainAfterIntent
  <1>2. Inv /\ UncertainAfterIntent /\ [Next]_vars
          => [Ledger!LedgerNext]_(Ledger!ledgerVars) /\ UncertainAfterIntent'
    BY EveryStepFollows DEF Follows
  <1> QED
    BY <1>1, <1>2, Invariance, PTL DEF Spec, ImplementsLedger, Ledger!LedgerSpec
=============================================================================
