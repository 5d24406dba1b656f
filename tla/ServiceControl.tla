--------------------------- MODULE ServiceControl ---------------------------
(***************************************************************************)
(* One service command of the adapter (src/adapter.rs, control_service and *)
(* LocalServiceController) against the operating system's service manager. *)
(* systemd is given one command, which answers when its job is done.  The  *)
(* Windows service manager answers when it has taken a command, so that a  *)
(* restart there is a stop, a wait and a start, under one budget.          *)
(*                                                                         *)
(* The service manager, the Sunshine service and the local user, who may   *)
(* start and stop it as well, are external.  The call may be dropped at    *)
(* any await: execute_bounded's own timeout, or the end of the process.    *)
(***************************************************************************)
EXTENDS Deadline

CONSTANTS
    Modes,          \* of {"Disabled", "Systemd", "Windows"}
    Grants,         \* remaining_ms the Manager may send
    ControlBudget,  \* 45 s: one service command with all it waits for
    CommandTimeout, \* 20 s: one run of systemctl or sc.exe
    Polls,          \* 15: queries before the last one
    MaxProcesses    \* bound on the processes of the service

Actions == {"Start", "Stop", "Restart"}
Verbs == {"start", "stop", "restart"}
ServiceStates == {"Running", "Stopped", "Starting", "Stopping"}

(* A command handed over, and how it was answered so far. *)
Commands ==
    [verb : Verbs \union {None}, answer : {"none", "taken", "ok", "failed"}]

ASSUME ServiceAssumption ==
    /\ {ControlBudget, CommandTimeout, Polls, MaxProcesses} \subseteq Nat
    /\ Polls > 0
    /\ Grants \subseteq Nat
    /\ Modes \subseteq {"Disabled", "Systemd", "Windows"}
    /\ None \notin Actions \union Verbs \union ServiceStates \union Commands

VARIABLES
    mode,
    service, process,   \* state of the service, and its process so far
    job,        \* what systemd is still doing
    command,    \* the command handed to the operating system, or None
    deadline,   \* the ExecutionDeadline of the task, just received
    received,   \* history: Elapsed when it was received
    call,       \* the running call of control_service
    result,     \* what it returned, or None
    issued      \* history: commands given, with Elapsed at that time

serviceVars == <<service, process, job>>
taskVars == <<deadline, received>>
vars == <<clockVars, mode, serviceVars, command, taskVars, call, result, issued>>

Errors == {"ApiUnavailable", "UnsupportedCapability"}

Idle ==
    [phase |-> "idle", action |-> None, verb |-> None, first |-> None, polls |-> 0,
     start |-> None, began |-> None, since |-> None, sent |-> None, before |-> None]

At(phase) == call.phase = phase

InCall == call.phase \notin {"idle", "ended"}

End(value) ==
    /\ call' = [Idle EXCEPT !.phase = "ended", !.action = call.action,
                            !.began = call.began, !.before = call.before]
    /\ result' = value

GoOn(next) == call' = next /\ UNCHANGED result

ClientOnly == UNCHANGED <<clockVars, mode, serviceVars, taskVars>>

(***************************************************************************)
(* control_service                                                         *)
(***************************************************************************)

(* What Windows is told first; a restart of a stopped service starts it. *)
FirstVerb(action, state) ==
    CASE action = "Start" -> "start"
      [] action = "Stop" -> "stop"
      [] mode = "Windows" -> IF state = "Stopped" THEN "start" ELSE "stop"
      [] OTHER -> "restart"

(* require_effect_budget, and control up to its first await.  The call can *)
(* reach its timeout within MaxActive.                                     *)
Begin ==
    /\ At("idle")
    /\ active + ControlBudget <= MaxActive
    /\ \E action \in Actions, late \in BOOLEAN, reading \in LaterReadings,
          start \in FirstReadings :
       LET begun == [Idle EXCEPT !.action = action, !.start = start, !.began = Elapsed,
                                 !.since = active, !.before = process] IN
          \/ /\ Expired(deadline, late, reading) \/ start = None
             /\ End("ApiUnavailable")
          \/ /\ ~Expired(deadline, late, reading) /\ start # None
             /\ mode = "Disabled"
             /\ End("UnsupportedCapability")
          \/ /\ ~Expired(deadline, late, reading) /\ start # None
             /\ mode = "Windows"
             /\ GoOn([begun EXCEPT !.phase = "query"])
          \/ /\ ~Expired(deadline, late, reading) /\ start # None
             /\ mode = "Systemd"
             /\ GoOn([begun EXCEPT !.phase = "command", !.verb = FirstVerb(action, None)])
    /\ ClientOnly /\ UNCHANGED <<command, issued>>

(* status(): the state at that moment, or an answer that says nothing. *)
Observations == {service, "Unknown"}

(* A query that cannot be run, or does not end in time. *)
QueryFails ==
    /\ call.phase \in {"query", "stopping", "stopped", "confirm"}
    /\ \E error \in Errors : End(error)
    /\ ClientOnly /\ UNCHANGED <<command, issued>>

AlreadyThere(action, state) ==
    <<action, state>> \in {<<"Start", "Running">>, <<"Stop", "Stopped">>}

FirstQuery ==
    /\ At("query")
    /\ \E state \in Observations :
          \/ AlreadyThere(call.action, state) /\ End(state)
          \/ /\ ~AlreadyThere(call.action, state)
             /\ GoOn([call EXCEPT !.phase = "command", !.first = state,
                                  !.verb = FirstVerb(call.action, state)])
    /\ ClientOnly /\ UNCHANGED <<command, issued>>

(* Mutated form: only the first command is checked. *)
FirstCommandInBudget(late, reading) ==
    \/ issued # {}
    \/ ~Spent(call.start, reading, ControlBudget) /\ ~Expired(deadline, late, reading)

(* control_budget *)
InBudget(late, reading) ==
    ~Spent(call.start, reading, ControlBudget) /\ ~Expired(deadline, late, reading)

(* A command is given, unless one of the two budgets is used up. *)
Issue ==
    /\ At("command")
    /\ \E late \in BOOLEAN, reading \in LaterReadings :
          \/ /\ InBudget(late, reading)
             /\ command' = [verb |-> call.verb, answer |-> "none"]
             /\ issued' = issued \union {[verb |-> call.verb, at |-> Elapsed]}
             /\ GoOn([call EXCEPT !.phase = "sent", !.sent = active])
          \/ /\ ~InBudget(late, reading)
             /\ End("ApiUnavailable")
             /\ UNCHANGED <<command, issued>>
    /\ ClientOnly

(* The stop of a restart on Windows, which a start has to follow. *)
HalfWay == call.action = "Restart" /\ mode = "Windows" /\ call.verb = "stop"

(* Mutated form: how the command ended is not looked at. *)
AnyExit(answer) == answer \in {"ok", "failed"}

Succeeded(answer) == answer = "ok"

(* The command ends. *)
Answered ==
    /\ At("sent")
    /\ command.answer \in {"ok", "failed"}
    /\ \/ ~Succeeded(command.answer) /\ End("ApiUnavailable")
       \/ /\ Succeeded(command.answer)
          /\ GoOn([call EXCEPT !.phase = IF HalfWay THEN "stopping" ELSE "confirm",
                               !.polls = 0])
    /\ command' = None
    /\ ClientOnly /\ UNCHANGED issued

(* Wait for the stop; one more query than that has to see it. *)
AwaitStopped ==
    /\ At("stopping")
    /\ \E state \in Observations :
          IF state = "Stopped" \/ call.polls + 1 = Polls
          THEN GoOn([call EXCEPT !.phase = "stopped"])
          ELSE GoOn([call EXCEPT !.polls = @ + 1])
    /\ ClientOnly /\ UNCHANGED <<command, issued>>

SeenStopped ==
    /\ At("stopped")
    /\ \E state \in Observations :
          \/ state # "Stopped" /\ End("ApiUnavailable")
          \/ state = "Stopped" /\ GoOn([call EXCEPT !.phase = "command", !.verb = "start"])
    /\ ClientOnly /\ UNCHANGED <<command, issued>>

Expected == IF call.action = "Stop" THEN "Stopped" ELSE "Running"

(* Polls queries and a last one. *)
Confirm ==
    /\ At("confirm")
    /\ \E state \in Observations :
          \/ state = Expected /\ End(state)
          \/ state # Expected /\ call.polls = Polls /\ End("ApiUnavailable")
          \/ /\ state # Expected /\ call.polls < Polls
             /\ GoOn([call EXCEPT !.polls = @ + 1])
    /\ ClientOnly /\ UNCHANGED <<command, issued>>

(* Mutated form: nothing is ever too late. *)
NeverOverdue(since, limit) == FALSE

Overdue(since, limit) == active - since >= limit

(* The command is killed; what the operating system took of it stays. *)
CommandTimesOut ==
    /\ At("sent")
    /\ Overdue(call.sent, CommandTimeout)
    /\ End("ApiUnavailable")
    /\ ClientOnly /\ UNCHANGED <<command, issued>>

ControlTimesOut ==
    /\ InCall
    /\ Overdue(call.since, ControlBudget)
    /\ End("ApiUnavailable")
    /\ ClientOnly /\ UNCHANGED <<command, issued>>

(* systemctl or sc.exe cannot be run. *)
SpawnFails ==
    /\ At("sent") /\ command.answer = "none"
    /\ command' = None
    /\ End("UnsupportedCapability")
    /\ ClientOnly /\ UNCHANGED issued

Dropped ==
    /\ InCall
    /\ End("Dropped")
    /\ ClientOnly /\ UNCHANGED <<command, issued>>

(***************************************************************************)
(* The operating system and its local user (external)                      *)
(***************************************************************************)

WorldOnly == UNCHANGED <<clockVars, mode, taskVars, call, result, issued>>

Pending == command # None /\ command.answer = "none"

Answer(answer) == command' = [command EXCEPT !.answer = answer]

(* Windows takes a stop of a running service and a start of a stopped one. *)
WindowsTakes ==
    /\ mode = "Windows" /\ Pending
    /\ \/ command.verb = "stop" /\ service = "Running" /\ service' = "Stopping"
       \/ command.verb = "start" /\ service = "Stopped" /\ service' = "Starting"
    /\ Answer("ok")
    /\ WorldOnly /\ UNCHANGED <<process, job>>

SystemdTakes ==
    /\ mode = "Systemd" /\ Pending
    /\ job' = command.verb
    /\ service' =
          CASE command.verb # "start" /\ service \in {"Running", "Starting"} -> "Stopping"
            [] command.verb = "start" /\ service = "Stopped" -> "Starting"
            [] OTHER -> service
    /\ Answer("taken")
    /\ WorldOnly /\ UNCHANGED process

JobDone ==
    /\ job # None
    /\ job \in {"start", "stop"}
    /\ service = IF job = "start" THEN "Running" ELSE "Stopped"
    /\ job' = None
    /\ IF command # None THEN Answer("ok") ELSE UNCHANGED command
    /\ WorldOnly /\ UNCHANGED <<service, process>>

(* The command is refused, or its job fails. *)
CommandFails ==
    /\ command # None /\ command.answer \in {"none", "taken"}
    /\ Answer("failed")
    /\ job' = None
    /\ WorldOnly /\ UNCHANGED <<service, process>>

ServiceStops ==
    /\ service = "Stopping"
    /\ service' = "Stopped"
    /\ WorldOnly /\ UNCHANGED <<process, job, command>>

(* systemd goes on to the second half of a restart. *)
RestartContinues ==
    /\ job = "restart" /\ service = "Stopped"
    /\ job' = "start" /\ service' = "Starting"
    /\ WorldOnly /\ UNCHANGED <<process, command>>

ServiceRuns ==
    /\ service = "Starting"
    /\ process < MaxProcesses
    /\ service' = "Running" /\ process' = process + 1
    /\ WorldOnly /\ UNCHANGED <<job, command>>

(* Sunshine exits. *)
ServiceDies ==
    /\ service \in {"Running", "Starting"}
    /\ service' = "Stopped"
    /\ WorldOnly /\ UNCHANGED <<process, job, command>>

LocalUser ==
    /\ \/ service = "Running" /\ service' = "Stopping"
       \/ service = "Stopped" /\ service' = "Starting"
    /\ WorldOnly /\ UNCHANGED <<process, job, command>>

(***************************************************************************)

ClockOnly == UNCHANGED <<mode, serviceVars, command, taskVars, call, result, issued>>

TimePasses == Tick /\ ClockOnly

MachineSleeps == Sleep /\ ClockOnly

Init ==
    /\ ClockInit
    /\ mode \in Modes
    /\ service \in {"Running", "Stopped"} /\ process = 0 /\ job = None
    /\ command = None
    /\ \E remaining \in Grants, reading \in FirstReadings :
          deadline = Received(remaining, reading)
    /\ received = Elapsed
    /\ call = Idle /\ result = None /\ issued = {}

Client ==
    \/ Begin \/ FirstQuery \/ Issue \/ Answered \/ AwaitStopped
    \/ SeenStopped \/ Confirm \/ QueryFails \/ CommandTimesOut \/ ControlTimesOut
    \/ SpawnFails \/ Dropped

World ==
    \/ WindowsTakes \/ SystemdTakes \/ JobDone \/ CommandFails \/ ServiceStops
    \/ RestartContinues \/ ServiceRuns \/ ServiceDies \/ LocalUser

(* What happens after the call is of no interest here. *)
Next == ~At("ended") /\ (Client \/ World \/ TimePasses \/ MachineSleeps)

Spec == Init /\ [][Next]_vars

(* The runtime's timers run with the active clock and are polled.  Nothing *)
(* is assumed of the service manager, nor of the queries.                  *)
Fair == WF_vars(TimePasses) /\ WF_vars(ControlTimesOut)

FairSpec == Spec /\ Fair

(***************************************************************************)
(* Properties                                                              *)
(***************************************************************************)

(* No command is given to the service manager once the task's budget, or   *)
(* that of the service command, is used up in real time: however long the  *)
(* machine sleeps between two steps, whatever the clocks read.             *)
CommandsWithinBudget ==
    \A c \in issued :
        /\ c.at - call.began < ControlBudget
        /\ c.at - received < deadline.remaining
        /\ c.at - received < MaxExecution

(* A restart is reported as done only when another process of Sunshine has *)
(* taken the place of the one before: not when half of it was done, not    *)
(* when the command failed and the old process was seen to run.            *)
RestartedIsNew ==
    result = "Running" /\ call.action = "Restart" => process > call.before

(* The single command lane is released: whatever the service manager does  *)
(* or fails to do, the call ends.                                          *)
CallEnds == InCall ~> At("ended")
=============================================================================
