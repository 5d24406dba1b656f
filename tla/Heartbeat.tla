----------------------------- MODULE Heartbeat ------------------------------
(***************************************************************************)
(* The configuration a heartbeat reports (src/transport.rs, session), from *)
(* a monitor that reads Sunshine without sharing the engine's lane         *)
(* (src/provisioning.rs), while tasks and the local user change it.        *)
(*                                                                         *)
(* An Instant is the number of mutations run() had seen the end of at that *)
(* time: this is all that observed_at and mutation_completed are compared  *)
(* for.  That an observation becomes older than 30 seconds is a step of    *)
(* its own.  What the engine does with a task, and how results are         *)
(* confirmed, is in Executor and Transport; here a task sends a write,     *)
(* reads back and ends, and a result is the version it read back.          *)
(***************************************************************************)
EXTENDS Naturals

CONSTANTS
    None,
    Contents,       \* contents of the configuration
    \* Bounds
    MaxVersion,     \* changes of the configuration
    MaxDeliveries,  \* tasks that change the configuration
    MaxFaults       \* crashes, broken sessions, readings that fail or hang

ASSUME HeartbeatAssumption ==
    /\ {MaxVersion, MaxDeliveries, MaxFaults} \subseteq Nat
    /\ None \notin Contents \union Nat

VARIABLES
    config,     \* Sunshine's configuration: its content and its version
    write,      \* the content of a write sent and not landed, or None
    monitor,    \* the monitor's loop
    observation,    \* what the watch channel holds, or None
    run,        \* "off", "down", "up", or "broken" without run() knowing
    active,     \* the delivery that runs, or None
    completed,  \* the newest version in a result run() has, 0 without any
    joined,     \* mutations whose end run() has seen: mutation_completed
    lastSnapshot,   \* content last sent in this session, or None
    told,       \* history: newest version a result has told the Manager
    news,       \* history: the last configuration of a heartbeat it received
    deliveries, faults  \* counters, for the bounds

sunshineVars == <<config, write>>
monitorVars == <<monitor, observation>>
runVars == <<run, active, completed, joined, lastSnapshot>>
managerVars == <<told, news>>
counters == <<deliveries, faults>>
vars == <<sunshineVars, monitorVars, runVars, managerVars, counters>>

Config == [content : Contents, version : Nat]

Asleep == [phase |-> "asleep", since |-> 0, read |-> None]

Fault == faults < MaxFaults /\ faults' = faults + 1

(***************************************************************************)
(* Sunshine (external)                                                     *)
(***************************************************************************)

Changed(content) ==
    /\ config.version < MaxVersion
    /\ config' = [content |-> content, version |-> config.version + 1]

Land ==
    /\ write # None
    /\ Changed(write)
    /\ write' = None
    /\ UNCHANGED <<monitorVars, runVars, managerVars, counters>>

LocalEdit ==
    /\ \E content \in Contents \ {config.content} : Changed(content)
    /\ UNCHANGED <<write, monitorVars, runVars, managerVars, counters>>

(***************************************************************************)
(* The monitor                                                             *)
(***************************************************************************)

MonitorOnly == UNCHANGED <<sunshineVars, runVars, managerVars, deliveries>>

(* The time is taken before Sunshine is asked. *)
Ask ==
    /\ run # "off" /\ monitor.phase = "asleep"
    /\ monitor' = [phase |-> "asked", since |-> joined, read |-> None]
    /\ UNCHANGED <<observation, faults>> /\ MonitorOnly

(* Sunshine answers, or does not. *)
Read ==
    /\ monitor.phase = "asked"
    /\ \/ monitor' = [monitor EXCEPT !.phase = "read", !.read = config] /\ UNCHANGED faults
       \/ monitor' = [monitor EXCEPT !.phase = "read"] /\ Fault
    /\ UNCHANGED observation /\ MonitorOnly

(* Mutated form: the time is that of the answer. *)
WhenRead(since) == joined

ObservedAt(since) == since

Publish ==
    /\ monitor.phase = "read"
    /\ observation' = [since |-> ObservedAt(monitor.since), read |-> monitor.read,
                       fresh |-> TRUE]
    /\ monitor' = Asleep
    /\ UNCHANGED faults /\ MonitorOnly

(* The next reading takes long. *)
Age ==
    /\ observation # None /\ observation.fresh
    /\ monitor.phase = "asked"
    /\ Fault
    /\ observation' = [observation EXCEPT !.fresh = FALSE]
    /\ UNCHANGED monitor /\ MonitorOnly

(***************************************************************************)
(* The engine, as far as a session can tell                                *)
(***************************************************************************)

EngineOnly ==
    UNCHANGED <<config, monitorVars, run, completed, joined, lastSnapshot, managerVars,
                counters>>

Send ==
    /\ active # None /\ active.phase = "started" /\ write = None
    /\ write' \in Contents
    /\ active' = [active EXCEPT !.phase = "sent"]
    /\ EngineOnly

(* The task ends, with a configuration it read back or without one, and    *)
(* its report is saved.                                                    *)
Conclude ==
    /\ active # None /\ active.phase \in {"started", "sent"}
    /\ \E version \in {0, config.version} :
          active' = [active EXCEPT !.phase = "done", !.version = version]
    /\ UNCHANGED write /\ EngineOnly

(***************************************************************************)
(* run and session                                                         *)
(***************************************************************************)

InSession == run \in {"up", "broken"}

RunOnly == UNCHANGED <<sunshineVars, monitorVars>>

Newer(v, w) == IF v > w THEN v ELSE w

(* Results are received, unless the session is broken. *)
Receives(version) == told' = IF run' = "up" THEN Newer(told, version) ELSE told

(* A process starts, after a crash with what the journal owes. *)
Start ==
    /\ run = "off"
    /\ run' = "down"
    /\ RunOnly /\ UNCHANGED <<active, completed, joined, lastSnapshot, managerVars, counters>>

Crash ==
    /\ run # "off"
    /\ Fault
    /\ run' = "off"
    /\ active' = None /\ joined' = 0 /\ lastSnapshot' = None
    /\ completed' = IF active # None /\ active.phase = "done"
                    THEN Newer(completed, active.version) ELSE completed
    /\ monitor' = Asleep /\ observation' = None
    /\ UNCHANGED <<sunshineVars, managerVars, deliveries>>

(* Mutated form: what was sent in another session is not sent again. *)
KeptSnapshot == lastSnapshot

FirstSnapshot == None

(* All results not confirmed are sent first. *)
Connect ==
    /\ run = "down"
    /\ run' = "up"
    /\ lastSnapshot' = FirstSnapshot
    /\ Receives(completed)
    /\ RunOnly /\ UNCHANGED <<active, completed, joined, news, counters>>

(* Nothing sent from now on arrives. *)
Break ==
    /\ run = "up"
    /\ Fault
    /\ run' = "broken"
    /\ RunOnly /\ UNCHANGED <<active, completed, joined, lastSnapshot, managerVars, deliveries>>

(* A send or the peer times out. *)
Disconnect ==
    /\ run = "broken"
    /\ run' = "down"
    /\ RunOnly /\ UNCHANGED <<active, completed, joined, lastSnapshot, managerVars, counters>>

(* A task to execute or to inspect. *)
OnTask ==
    /\ run = "up" /\ active = None
    /\ deliveries < MaxDeliveries
    /\ deliveries' = deliveries + 1
    /\ active' = [phase |-> "started", version |-> 0]
    /\ RunOnly /\ UNCHANGED <<run, completed, joined, lastSnapshot, managerVars, faults>>

OnExecuted ==
    /\ InSession
    /\ active # None /\ active.phase = "done"
    /\ active' = None
    /\ joined' = joined + 1
    /\ completed' = Newer(completed, active.version)
    /\ UNCHANGED run
    /\ Receives(completed')
    /\ RunOnly /\ UNCHANGED <<lastSnapshot, news, counters>>

(* Mutated form: any observation will do. *)
AnyTime == TRUE

(* at >= mutation_completed *)
SinceLastMutation == observation.since >= joined

Reported ==
    /\ observation # None
    /\ observation.fresh
    /\ observation.read # None
    /\ SinceLastMutation
    /\ active = None
    /\ observation.read.content # lastSnapshot

(* The heartbeat: results owed, if nothing runs, and the configuration. *)
OnTick ==
    /\ InSession
    /\ UNCHANGED run
    /\ IF active = None THEN Receives(completed) ELSE UNCHANGED told
    /\ IF Reported
       THEN /\ lastSnapshot' = observation.read.content
            /\ news' = IF run = "up" THEN [read |-> observation.read, told |-> told'] ELSE news
       ELSE UNCHANGED <<lastSnapshot, news>>
    /\ RunOnly /\ UNCHANGED <<active, completed, joined, counters>>

(***************************************************************************)

Init ==
    /\ config \in [content : Contents, version : {0}]
    /\ write = None
    /\ monitor = Asleep /\ observation = None
    /\ run = "off" /\ active = None /\ completed = 0
    /\ joined = 0 /\ lastSnapshot = None
    /\ told = 0 /\ news = None
    /\ deliveries = 0 /\ faults = 0

Next ==
    \/ Land \/ LocalEdit
    \/ Ask \/ Read \/ Publish \/ Age
    \/ Send \/ Conclude
    \/ Start \/ Crash \/ Connect \/ Break \/ Disconnect
    \/ OnTask \/ OnExecuted \/ OnTick

Spec == Init /\ [][Next]_vars

(* The runtime polls both loops, requests to Sunshine and sends to the     *)
(* Manager have timeouts, and the process is started again.                *)
Fair ==
    /\ WF_vars(Ask) /\ WF_vars(Read) /\ WF_vars(Publish)
    /\ WF_vars(Conclude) /\ WF_vars(OnExecuted) /\ WF_vars(OnTick)
    /\ WF_vars(Start) /\ WF_vars(Connect) /\ WF_vars(Disconnect)

FairSpec == Spec /\ Fair

(***************************************************************************)
(* Properties                                                              *)
(***************************************************************************)

(* A heartbeat never takes the Manager back behind the result of a task:   *)
(* the configuration in it is at least as new as that in every result the  *)
(* Manager has received, whichever sessions, processes and slow readings   *)
(* lie between them.                                                       *)
NeverBehindAResult == news # None => news.read.version >= news.told

(* Once tasks, edits and faults are over, the last configuration a         *)
(* heartbeat has reported is, and remains, the one that Sunshine has.      *)
HeartbeatsCatchUp == <>[](news # None /\ news.read.content = config.content)
=============================================================================
