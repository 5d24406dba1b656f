-------------------------- MODULE HeartbeatProofs ---------------------------
(***************************************************************************)
(* A heartbeat never takes the Manager back behind a result: for any       *)
(* number of tasks, changes of the configuration, crashes and sessions.    *)
(***************************************************************************)
EXTENDS Heartbeat, TLAPS

Phases == {"started", "sent", "done"}

MonitorPhases == {"asleep", "asked", "read"}

Readings == Config \union {None}

HeartbeatTypeOK ==
    /\ config \in Config
    /\ write \in Contents \union {None}
    /\ monitor \in [phase : MonitorPhases, since : Nat, read : Readings]
    /\ observation \in [since : Nat, read : Readings, fresh : BOOLEAN] \union {None}
    /\ run \in {"off", "down", "up", "broken"}
    /\ active \in [phase : Phases, version : Nat] \union {None}
    /\ completed \in Nat
    /\ joined \in Nat
    /\ told \in Nat
    /\ news \in [read : Config, told : Nat] \union {None}

(* Nobody knows of a version that Sunshine has not had yet, and the        *)
(* Manager knows of no result that run() does not hold.                    *)
VersionsAreReal ==
    /\ completed <= config.version
    /\ told <= completed
    /\ active # None => active.version <= config.version

(* A reading that no mutation has followed shows every result run() has.   *)
(* This is what joined is compared for, and why a reading has to bear the  *)
(* time of its question and not of its answer.                             *)
Covers(sample) ==
    /\ sample.since <= joined
    /\ sample.since = joined /\ sample.read # None => sample.read.version >= completed

ReadingsAreDated ==
    /\ monitor.phase = "asked" => monitor.since <= joined /\ monitor.read = None
    /\ monitor.phase = "read" => Covers(monitor)
    /\ observation # None => Covers(observation)

HeartbeatInv ==
    HeartbeatTypeOK /\ VersionsAreReal /\ ReadingsAreDated /\ NeverBehindAResult

(* Nothing is running, nothing has been read and nobody has been told. *)
LEMMA HeartbeatInitially == Init => HeartbeatInv
BY DEF Init, HeartbeatInv, HeartbeatTypeOK, VersionsAreReal, ReadingsAreDated, Covers,
       NeverBehindAResult, Asleep, Config, Readings, MonitorPhases

(* Sunshine's configuration only gets newer. *)
LEMMA ChangesKeepInv ==
    ASSUME HeartbeatInv, Land \/ LocalEdit
    PROVE  HeartbeatInv'
<1>1. PICK content \in Contents : Changed(content)
  BY DEF Land, LocalEdit, HeartbeatInv, HeartbeatTypeOK
<1>2. write' \in {write, None}
  BY DEF Land, LocalEdit
<1>3. UNCHANGED <<monitorVars, runVars, managerVars>>
  BY DEF Land, LocalEdit
<1>4. config' \in Config /\ config'.version >= config.version
  BY <1>1 DEF Changed, HeartbeatInv, HeartbeatTypeOK, Config
<1>5. HeartbeatTypeOK'
  BY <1>2, <1>3, <1>4
  DEF HeartbeatInv, HeartbeatTypeOK, monitorVars, runVars, managerVars
<1>6. VersionsAreReal'
  BY <1>3, <1>4
  DEF HeartbeatInv, HeartbeatTypeOK, VersionsAreReal, Config, runVars, managerVars
<1>7. ReadingsAreDated' /\ NeverBehindAResult'
  BY <1>3 DEF HeartbeatInv, ReadingsAreDated, Covers, NeverBehindAResult, monitorVars,
              runVars, managerVars
<1> QED
  BY <1>5, <1>6, <1>7 DEF HeartbeatInv

(* A reading is dated before it is made, and shows what it was made of. *)
LEMMA ReadingsKeepInv ==
    ASSUME HeartbeatInv, Ask \/ Read \/ Publish \/ Age
    PROVE  HeartbeatInv'
<1>1. UNCHANGED <<sunshineVars, runVars, managerVars>>
  BY DEF Ask, Read, Publish, Age, MonitorOnly
<1>2. VersionsAreReal' /\ NeverBehindAResult'
  BY <1>1 DEF HeartbeatInv, VersionsAreReal, NeverBehindAResult, sunshineVars, runVars,
              managerVars
<1>3. ASSUME monitor' \in [phase : MonitorPhases, since : Nat, read : Readings],
             observation' \in [since : Nat, read : Readings, fresh : BOOLEAN] \union {None}
      PROVE  HeartbeatTypeOK'
  BY <1>1, <1>3 DEF HeartbeatInv, HeartbeatTypeOK, sunshineVars, runVars, managerVars
<1>4. CASE Ask
  <2>1. monitor' = [phase |-> "asked", since |-> joined, read |-> None]
        /\ UNCHANGED observation
    BY <1>4 DEF Ask
  <2>2. HeartbeatTypeOK'
    BY <1>3, <2>1 DEF HeartbeatInv, HeartbeatTypeOK, MonitorPhases, Readings
  <2>3. ReadingsAreDated'
    BY <1>1, <2>1 DEF HeartbeatInv, HeartbeatTypeOK, ReadingsAreDated, Covers, runVars
  <2> QED
    BY <1>2, <2>2, <2>3 DEF HeartbeatInv
<1>5. CASE Read
  <2>1. monitor.phase = "asked" /\ UNCHANGED observation
    BY <1>5 DEF Read
  <2>2. /\ monitor' \in [phase : {"read"}, since : Nat, read : Readings]
        /\ monitor'.since = monitor.since
        /\ monitor'.read \in {config, monitor.read}
    BY <1>5 DEF Read, HeartbeatInv, HeartbeatTypeOK, Readings
  <2>3. HeartbeatTypeOK'
    BY <1>3, <2>1, <2>2 DEF HeartbeatInv, HeartbeatTypeOK, MonitorPhases
  <2>4. ReadingsAreDated'
    BY <1>1, <2>1, <2>2
    DEF HeartbeatInv, HeartbeatTypeOK, ReadingsAreDated, VersionsAreReal, Covers, runVars,
        Config
  <2> QED
    BY <1>2, <2>3, <2>4 DEF HeartbeatInv
<1>6. CASE Publish
  <2>1. /\ monitor.phase = "read"
        /\ monitor' = Asleep
        /\ observation' = [since |-> monitor.since, read |-> monitor.read, fresh |-> TRUE]
    BY <1>6 DEF Publish, ObservedAt
  <2>2. HeartbeatTypeOK'
    BY <1>3, <2>1 DEF HeartbeatInv, HeartbeatTypeOK, MonitorPhases, Readings, Asleep
  <2>3. ReadingsAreDated'
    BY <1>1, <2>1 DEF HeartbeatInv, ReadingsAreDated, Covers, runVars, Asleep
  <2> QED
    BY <1>2, <2>2, <2>3 DEF HeartbeatInv
<1>7. CASE Age
  <2>1. /\ observation # None
        /\ observation' = [observation EXCEPT !.fresh = FALSE]
        /\ UNCHANGED monitor
    BY <1>7 DEF Age
  <2>2. HeartbeatTypeOK'
    BY <1>3, <2>1 DEF HeartbeatInv, HeartbeatTypeOK
  <2>3. ReadingsAreDated'
    BY <1>1, <2>1 DEF HeartbeatInv, HeartbeatTypeOK, ReadingsAreDated, Covers, runVars
  <2> QED
    BY <1>2, <2>2, <2>3 DEF HeartbeatInv
<1> QED
  BY <1>4, <1>5, <1>6, <1>7

(* The engine reads back no version that Sunshine has not had. *)
LEMMA EngineKeepsInv ==
    ASSUME HeartbeatInv, Send \/ Conclude
    PROVE  HeartbeatInv'
<1>1. UNCHANGED <<config, monitorVars, run, completed, joined, managerVars>>
  BY DEF Send, Conclude, EngineOnly
<1>2. /\ write' \in Contents \union {None}
      /\ active' \in [phase : Phases, version : Nat]
      /\ active'.version <= config.version
  <2>1. CASE Send
    BY <2>1 DEF Send, HeartbeatInv, HeartbeatTypeOK, VersionsAreReal, Phases
  <2>2. CASE Conclude
    <3>1. PICK version \in {0, config.version} :
            active' = [active EXCEPT !.phase = "done", !.version = version]
      BY <2>2 DEF Conclude
    <3>2. version \in Nat /\ version <= config.version
      BY <3>1 DEF HeartbeatInv, HeartbeatTypeOK, Config
    <3>3. active \in [phase : Phases, version : Nat] /\ UNCHANGED write
      BY <2>2 DEF Conclude, HeartbeatInv, HeartbeatTypeOK
    <3> QED
      BY <3>1, <3>2, <3>3 DEF HeartbeatInv, HeartbeatTypeOK, Phases
  <2> QED
    BY <2>1, <2>2
<1> QED
  BY <1>1, <1>2
  DEF HeartbeatInv, HeartbeatTypeOK, VersionsAreReal, ReadingsAreDated, Covers,
      NeverBehindAResult, monitorVars, managerVars

(* What run() holds is what the engine has read back, and what it sends is *)
(* what it holds.                                                          *)
LEMMA SessionsKeepInv ==
    ASSUME HeartbeatInv, Start \/ Connect \/ Break \/ Disconnect \/ OnTask
    PROVE  HeartbeatInv'
<1>1. UNCHANGED <<config, write, monitor, observation, completed, joined, news>>
  BY DEF Start, Connect, Break, Disconnect, OnTask, RunOnly, sunshineVars, monitorVars,
         managerVars
<1>2. run' \in {"off", "down", "up", "broken"}
  BY DEF Start, Connect, Break, Disconnect, OnTask, HeartbeatInv, HeartbeatTypeOK
<1>3. /\ active' \in [phase : Phases, version : Nat] \union {None}
      /\ active' # None => active'.version <= config.version
  BY DEF Start, Connect, Break, Disconnect, OnTask, HeartbeatInv, HeartbeatTypeOK,
         VersionsAreReal, Phases, Config
<1>4. told' \in {told, completed}
  BY DEF Start, Connect, Break, Disconnect, OnTask, Receives, Newer, managerVars
<1>5. told' \in Nat /\ told' <= completed
  BY <1>4 DEF HeartbeatInv, HeartbeatTypeOK, VersionsAreReal
<1> QED
  BY <1>1, <1>2, <1>3, <1>5
  DEF HeartbeatInv, HeartbeatTypeOK, VersionsAreReal, ReadingsAreDated, Covers,
      NeverBehindAResult

(* A crash forgets every reading. *)
LEMMA CrashKeepsInv ==
    ASSUME HeartbeatInv, Crash
    PROVE  HeartbeatInv'
<1>1. UNCHANGED <<config, write, told, news>>
  BY DEF Crash, sunshineVars, managerVars
<1>2. /\ run' = "off" /\ active' = None /\ joined' = 0
      /\ monitor' = Asleep /\ observation' = None
  BY DEF Crash
<1>3. completed' \in Nat /\ completed' >= completed /\ completed' <= config.version
  BY DEF Crash, Newer, HeartbeatInv, HeartbeatTypeOK, VersionsAreReal, Config
<1>4. HeartbeatTypeOK'
  BY <1>1, <1>2, <1>3 DEF HeartbeatInv, HeartbeatTypeOK, Asleep, MonitorPhases, Readings
<1> QED
  BY <1>1, <1>2, <1>3, <1>4
  DEF HeartbeatInv, HeartbeatTypeOK, VersionsAreReal, ReadingsAreDated, NeverBehindAResult,
      Asleep, Config

(* The end of a mutation makes every reading there is one of before it. *)
LEMMA OnExecutedKeepsInv ==
    ASSUME HeartbeatInv, OnExecuted
    PROVE  HeartbeatInv'
<1>1. UNCHANGED <<config, write, monitor, observation, run, news>>
  BY DEF OnExecuted, RunOnly, sunshineVars, monitorVars
<1>2. active' = None /\ joined' = joined + 1
  BY DEF OnExecuted
<1>3. completed' \in Nat /\ completed' >= completed /\ completed' <= config.version
  BY DEF OnExecuted, Newer, HeartbeatInv, HeartbeatTypeOK, VersionsAreReal, Config
<1>4. told' \in {told, completed'}
  BY DEF OnExecuted, Receives, Newer
<1>5. told' \in Nat /\ told' <= completed'
  BY <1>3, <1>4 DEF HeartbeatInv, HeartbeatTypeOK, VersionsAreReal
<1>6. HeartbeatTypeOK'
  BY <1>1, <1>2, <1>3, <1>5 DEF HeartbeatInv, HeartbeatTypeOK
<1>7. ReadingsAreDated'
  BY <1>1, <1>2 DEF HeartbeatInv, HeartbeatTypeOK, ReadingsAreDated, Covers
<1> QED
  BY <1>1, <1>2, <1>3, <1>5, <1>6, <1>7
  DEF HeartbeatInv, HeartbeatTypeOK, VersionsAreReal, NeverBehindAResult

(* A heartbeat is sent only with a reading no mutation has followed. *)
LEMMA OnTickKeepsInv ==
    ASSUME HeartbeatInv, OnTick
    PROVE  HeartbeatInv'
<1>1. UNCHANGED <<config, write, monitor, observation, run, active, completed, joined>>
  BY DEF OnTick, RunOnly, sunshineVars, monitorVars, counters
<1>2. told' \in {told, completed}
  BY DEF OnTick, Receives, Newer
<1>3. told' \in Nat /\ told' <= completed
  BY <1>2 DEF HeartbeatInv, HeartbeatTypeOK, VersionsAreReal
<1>4. /\ news' # None => news'.read.version >= news'.told
      /\ news' \in [read : Config, told : Nat] \union {None}
  <2>1. CASE UNCHANGED news
    BY <2>1 DEF HeartbeatInv, HeartbeatTypeOK, NeverBehindAResult
  <2>2. CASE Reported /\ news' = [read |-> observation.read, told |-> told']
    <3>1. observation \in [since : Nat, read : Readings, fresh : BOOLEAN]
          /\ observation.read \in Config
      BY <2>2 DEF Reported, HeartbeatInv, HeartbeatTypeOK, Readings
    <3>2. observation.since = joined
      BY <2>2, <3>1 DEF Reported, SinceLastMutation, HeartbeatInv, HeartbeatTypeOK,
                        ReadingsAreDated, Covers
    <3>3. observation.read.version >= completed
      BY <2>2, <3>2 DEF Reported, HeartbeatInv, ReadingsAreDated, Covers
    <3> QED
      BY <1>3, <2>2, <3>1, <3>3 DEF Config, HeartbeatInv, HeartbeatTypeOK
  <2> QED
    BY <2>1, <2>2 DEF OnTick
<1> QED
  BY <1>1, <1>3, <1>4
  DEF HeartbeatInv, HeartbeatTypeOK, VersionsAreReal, ReadingsAreDated, Covers,
      NeverBehindAResult

(* The invariant the runs cannot show for every bound. *)
THEOREM HeartbeatInvariant == Spec => []HeartbeatInv
<1>1. HeartbeatInv /\ [Next]_vars => HeartbeatInv'
  <2> SUFFICES ASSUME HeartbeatInv, [Next]_vars PROVE HeartbeatInv'
    OBVIOUS
  <2>1. CASE Land \/ LocalEdit
    BY <2>1, ChangesKeepInv
  <2>2. CASE Ask \/ Read \/ Publish \/ Age
    BY <2>2, ReadingsKeepInv
  <2>3. CASE Send \/ Conclude
    BY <2>3, EngineKeepsInv
  <2>4. CASE Start \/ Connect \/ Break \/ Disconnect \/ OnTask
    BY <2>4, SessionsKeepInv
  <2>5. CASE Crash
    BY <2>5, CrashKeepsInv
  <2>6. CASE OnExecuted
    BY <2>6, OnExecutedKeepsInv
  <2>7. CASE OnTick
    BY <2>7, OnTickKeepsInv
  <2>8. CASE UNCHANGED vars
    BY <2>8 DEF HeartbeatInv, HeartbeatTypeOK, VersionsAreReal, ReadingsAreDated, Covers,
                NeverBehindAResult, vars, sunshineVars, monitorVars, runVars, managerVars
  <2> QED
    BY <2>1, <2>2, <2>3, <2>4, <2>5, <2>6, <2>7, <2>8 DEF Next
<1> QED
  BY <1>1, HeartbeatInitially, PTL DEF Spec

(* A heartbeat never takes the Manager back behind the result of a task,   *)
(* however many tasks, edits, crashes and sessions lie between them        *)
(* (session and heartbeat in transport.rs).                                *)
THEOREM HeartbeatsNeverGoBack == Spec => []NeverBehindAResult
<1>1. HeartbeatInv => NeverBehindAResult
  BY DEF HeartbeatInv
<1> QED
  BY <1>1, HeartbeatInvariant, PTL
=============================================================================
