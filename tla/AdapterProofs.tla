---------------------------- MODULE AdapterProofs ---------------------------
(***************************************************************************)
(* The adapter's service commands and pages of the log (src/adapter.rs).   *)
(*                                                                         *)
(* One service command keeps to its budgets in real time, and a restart    *)
(* that is reported as done has replaced the process: for any budgets,     *)
(* timeouts, number of polls, and however long the machine sleeps.         *)
(*                                                                         *)
(* Whoever follows the pages of the log has the end of one version of it,  *)
(* and no secret: for any window and limits, any number of readers, and    *)
(* whatever Sunshine writes.                                               *)
(***************************************************************************)
EXTENDS ServiceControl, LogPages, WellFoundedInduction, SequenceTheorems,
        TLAPS

Phases ==
    {"idle", "query", "command", "sent", "stopping", "stopped", "confirm", "ended"}

Stamps == Int \union {None}

Calls ==
    [phase : Phases, action : Actions \union {None}, verb : Verbs \union {None},
     first : ServiceStates \union {"Unknown", None}, polls : Int,
     start : Stamps, began : Stamps, since : Stamps, sent : Stamps, before : Stamps]

(* A start of the clock that was read when the period began, if at all. *)
ClocksOK ==
    /\ active \in Int /\ active >= 1
    /\ asleep \in Int /\ asleep >= 0
    /\ received \in Int /\ received >= 1 /\ received <= Elapsed
    /\ deadline.start \in {received, None}
    /\ deadline.remaining \in Int /\ deadline.remaining <= MaxExecution

ServiceTypeOK ==
    /\ mode \in {"Disabled", "Systemd", "Windows"}
    /\ service \in ServiceStates
    /\ process \in Int
    /\ job \in Verbs \union {None}
    /\ command \in Commands \union {None}
    /\ call \in Calls
    /\ issued \in SUBSET [verb : Verbs \union {None}, at : Int]

CallIsDated ==
    /\ At("idle") => issued = {}
    /\ issued # {} => call.began \in Int
    /\ InCall =>
          /\ call.began \in Int /\ call.began >= 1 /\ call.began <= Elapsed
          /\ call.start = call.began

BudgetInv == ServiceTypeOK /\ ClocksOK /\ CallIsDated /\ CommandsWithinBudget

(* The process of the beginning is not the one that runs, or will run.     *)
OldIsGone ==
    process > call.before \/ (process = call.before /\ service \in {"Stopped", "Starting"})

CommandIsAnswered ==
    /\ At("idle") => command = None /\ job = None /\ result = None
    /\ InCall =>
          /\ result = None
          /\ call.action \in Actions
          /\ mode \in {"Systemd", "Windows"}
          /\ call.before \in Int /\ process >= call.before
          /\ At("sent") <=> command # None

(* From where on the old process is known to be gone: when systemd is in   *)
(* the second half of its job, or says that it is done.                    *)
SystemdRestarts ==
    InCall /\ call.action = "Restart" /\ mode = "Systemd" =>
        /\ call.phase \in {"command", "sent", "confirm"}
        /\ At("command") => job = None
        /\ At("command") => call.verb = "restart"
        /\ command # None => command.verb = "restart"
        /\ job \in {"restart", "start", None}
        /\ job = "start" => OldIsGone
        /\ command # None /\ command.answer = "ok" => OldIsGone
        /\ At("confirm") => OldIsGone

(* When Windows has shown the service to be stopped. *)
WindowsRestarts ==
    InCall /\ call.action = "Restart" /\ mode = "Windows" =>
        /\ job = None
        /\ call.phase \in {"command", "sent", "confirm"} /\ call.verb # "stop" => OldIsGone
        /\ At("confirm") => call.verb # "stop"

RestartInv ==
    CommandIsAnswered /\ SystemdRestarts /\ WindowsRestarts /\ RestartedIsNew

(***************************************************************************)
(* The call                                                                *)
(***************************************************************************)

(* A call keeps what it began with, until it ends and beyond. *)
Continues ==
    /\ InCall
    /\ call' \in Calls
    /\ call'.phase # "idle"
    /\ call'.phase = "ended" \/ call'.start = call.start
    /\ call'.began = call.began
    /\ call'.action = call.action
    /\ call'.before = call.before

LEMMA EndingContinues ==
    ASSUME call \in Calls, InCall, NEW value, End(value)
    PROVE  Continues /\ call'.phase = "ended" /\ result' = value
<1>1. /\ call.action \in Actions \union {None}
      /\ call.began \in Stamps /\ call.before \in Stamps /\ None \in Stamps
  BY DEF Calls, Stamps
<1>2. call' = [phase |-> "ended", action |-> call.action, verb |-> None, first |-> None,
               polls |-> 0, start |-> None, began |-> call.began, since |-> None,
               sent |-> None, before |-> call.before]
  BY DEF End, Idle
<1>3. call' \in Calls
  BY <1>1, <1>2 DEF Calls, Phases
<1> QED
  BY <1>2, <1>3 DEF End, Continues

Later ==
    \/ FirstQuery \/ Issue \/ Answered \/ AwaitStopped \/ SeenStopped \/ Confirm
    \/ QueryFails \/ CommandTimesOut \/ ControlTimesOut \/ SpawnFails \/ Dropped

(* Every step of the client but the first continues a call. *)
LEMMA LaterContinues ==
    ASSUME ServiceTypeOK, ClocksOK, Later
    PROVE  Continues
<1>1. call \in Calls
  BY DEF ServiceTypeOK
<1>2. InCall
  BY DEF Later, FirstQuery, Issue, Answered, AwaitStopped, SeenStopped, Confirm, QueryFails,
         CommandTimesOut, ControlTimesOut, SpawnFails, Dropped, At, InCall
<1>3. Observations \subseteq ServiceStates \union {"Unknown", None}
  BY DEF Observations, ServiceTypeOK
<1>4. CASE \E value : End(value)
  BY <1>1, <1>2, <1>4, EndingContinues
<1>5. CASE FirstQuery /\ ~\E value : End(value)
  <2>1. PICK state \in Observations :
          call' = [call EXCEPT !.phase = "command", !.first = state,
                               !.verb = FirstVerb(call.action, state)]
    BY <1>5 DEF FirstQuery, GoOn
  <2>2. FirstVerb(call.action, state) \in Verbs
    BY DEF FirstVerb, Verbs
  <2> QED
    BY <1>1, <1>2, <1>3, <2>1, <2>2 DEF Continues, Calls, InCall, Phases
<1>6. CASE Issue /\ ~\E value : End(value)
  <2>1. call' = [call EXCEPT !.phase = "sent", !.sent = active]
    BY <1>6 DEF Issue, GoOn
  <2> QED
    BY <1>1, <1>2, <2>1 DEF Continues, Calls, InCall, Phases, ClocksOK, Stamps
<1>7. CASE Answered /\ ~\E value : End(value)
  <2>1. \/ call' = [call EXCEPT !.phase = "stopping", !.polls = 0]
        \/ call' = [call EXCEPT !.phase = "confirm", !.polls = 0]
    <3>1. call' = [call EXCEPT !.phase = IF HalfWay THEN "stopping" ELSE "confirm",
                               !.polls = 0]
      BY <1>7 DEF Answered, GoOn
    <3>2. CASE HalfWay
      BY <3>1, <3>2
    <3>3. CASE ~HalfWay
      BY <3>1, <3>3
    <3> QED
      BY <3>2, <3>3
  <2>2. ASSUME NEW phase \in {"stopping", "confirm"}, NEW polls \in Int,
               call' = [call EXCEPT !.phase = phase, !.polls = polls]
        PROVE  Continues
    BY <1>1, <1>2, <2>2 DEF Continues, Calls, InCall, Phases
  <2>3. 0 \in Int
    OBVIOUS
  <2> QED
    BY <2>1, <2>2, <2>3, Zenon
<1>8. CASE (AwaitStopped \/ Confirm) /\ ~\E value : End(value)
  <2>1. \/ call' = [call EXCEPT !.phase = "stopped"]
        \/ call' = [call EXCEPT !.polls = @ + 1]
    BY <1>8 DEF AwaitStopped, Confirm, GoOn
  <2> QED
    BY <1>1, <1>2, <2>1 DEF Continues, Calls, InCall, Phases
<1>9. CASE SeenStopped /\ ~\E value : End(value)
  <2>1. call' = [call EXCEPT !.phase = "command", !.verb = "start"]
    BY <1>9 DEF SeenStopped, GoOn
  <2> QED
    BY <1>1, <1>2, <2>1 DEF Continues, Calls, InCall, Phases, Verbs
<1> QED
  BY <1>4, <1>5, <1>6, <1>7, <1>8, <1>9
  DEF Later, QueryFails, CommandTimesOut, ControlTimesOut, SpawnFails, Dropped

(* The first step dates the call, or ends it. *)
LEMMA BeginDates ==
    ASSUME ServiceTypeOK, ClocksOK, Begin
    PROVE  /\ call' \in Calls
           /\ call'.phase # "idle" /\ call'.polls = 0
           /\ call'.phase = "command" => call'.verb \in Verbs
           /\ call'.phase # "ended" =>
                 /\ call'.start = call'.began /\ call'.began = Elapsed
                 /\ call'.before = process /\ call'.action \in Actions
                 /\ result' = result
                 /\ \/ mode = "Windows" /\ call'.phase = "query"
                    \/ /\ mode = "Systemd" /\ call'.phase = "command"
                       /\ call'.action = "Restart" => call'.verb = "restart"
           /\ call'.phase = "ended" => result' \in Errors
<1>1. PICK action \in Actions, late \in BOOLEAN, reading \in LaterReadings,
           start \in FirstReadings :
        LET begun == [Idle EXCEPT !.action = action, !.start = start, !.began = Elapsed,
                                  !.since = active, !.before = process] IN
        \/ End("ApiUnavailable")
        \/ End("UnsupportedCapability")
        \/ /\ start # None /\ mode = "Windows"
           /\ GoOn([begun EXCEPT !.phase = "query"])
        \/ /\ start # None /\ mode = "Systemd"
           /\ GoOn([begun EXCEPT !.phase = "command", !.verb = FirstVerb(action, None)])
  BY ZenonT(40) DEF Begin
<1>2. /\ Elapsed \in Int /\ active \in Int /\ process \in Int
      /\ start # None => start = Elapsed
  BY DEF ClocksOK, ServiceTypeOK, Elapsed, FirstReadings
<1>3. CASE End("ApiUnavailable") \/ End("UnsupportedCapability")
  <2>1. /\ call' = [phase |-> "ended", action |-> call.action, verb |-> None,
                    first |-> None, polls |-> 0, start |-> None, began |-> call.began,
                    since |-> None, sent |-> None, before |-> call.before]
        /\ result' \in Errors
    BY <1>3 DEF End, Idle, Errors
  <2>2. call' \in Calls
    BY <2>1 DEF ServiceTypeOK, Calls, Phases, Stamps
  <2> QED
    BY <2>1, <2>2
<1>4. CASE start # None /\ mode = "Windows" /\ ~End("ApiUnavailable")
           /\ ~End("UnsupportedCapability")
  <2>1. /\ call' = [phase |-> "query", action |-> action, verb |-> None, first |-> None,
                    polls |-> 0, start |-> Elapsed, began |-> Elapsed, since |-> active,
                    sent |-> None, before |-> process]
        /\ result' = result
    BY ZenonT(40), <1>1, <1>2, <1>4 DEF GoOn, Idle
  <2>2. call' \in Calls
    BY <1>1, <1>2, <2>1 DEF Calls, Phases, Stamps
  <2> QED
    BY <1>1, <1>4, <2>1, <2>2
<1>5. CASE start # None /\ mode = "Systemd" /\ ~End("ApiUnavailable")
           /\ ~End("UnsupportedCapability")
  <2>1. /\ call' = [phase |-> "command", action |-> action,
                    verb |-> FirstVerb(action, None), first |-> None, polls |-> 0,
                    start |-> Elapsed, began |-> Elapsed, since |-> active,
                    sent |-> None, before |-> process]
        /\ result' = result
    BY ZenonT(40), <1>1, <1>2, <1>5 DEF GoOn, Idle
  <2>2. /\ FirstVerb(action, None) \in Verbs
        /\ action = "Restart" => FirstVerb(action, None) = "restart"
    BY <1>5 DEF FirstVerb, Verbs
  <2>3. call' \in Calls
    BY <1>1, <1>2, <2>1, <2>2 DEF Calls, Phases, Stamps
  <2> QED
    BY <1>1, <1>5, <2>1, <2>2, <2>3
<1> QED
  BY <1>1, <1>3, <1>4, <1>5

(***************************************************************************)
(* Budgets                                                                 *)
(***************************************************************************)

LEMMA BudgetInitially == Init => BudgetInv
<1> SUFFICES ASSUME Init PROVE BudgetInv
  OBVIOUS
<1>1. ServiceTypeOK
  BY ServiceAssumption
  DEF Init, ServiceTypeOK, Idle, Calls, Phases, Stamps, ServiceStates, Commands
<1>2. ClocksOK
  BY DeadlineAssumption, ServiceAssumption
  DEF Init, ClockInit, ClocksOK, Elapsed, Received, Capped, FirstReadings
<1> QED
  BY <1>1, <1>2 DEF Init, BudgetInv, CallIsDated, CommandsWithinBudget, At, InCall, Idle

(* A command passes both checks only before the budgets end in real time:  *)
(* a clock that was not read at the beginning, or is not read now, or      *)
(* shows less, counts as one that has run out.                             *)
LEMMA ChecksBoundTime ==
    ASSUME BudgetInv, InCall, NEW late \in BOOLEAN, NEW reading \in LaterReadings,
           InBudget(late, reading)
    PROVE  /\ Elapsed - call.began < ControlBudget
           /\ Elapsed - received < deadline.remaining
           /\ Elapsed - received < MaxExecution
<1>1. /\ None \notin {call.start, reading} /\ reading >= call.start
      /\ reading - call.start < ControlBudget
  BY DeadlineAssumption, ServiceAssumption
  DEF InBudget, Spent, LaterReadings, BudgetInv, ClocksOK, CallIsDated, Elapsed
<1>2. /\ None \notin {deadline.start, reading}
      /\ reading - deadline.start < deadline.remaining
  BY <1>1, DeadlineAssumption
  DEF InBudget, Expired, Spent, LaterReadings, BudgetInv, ClocksOK, Elapsed
<1>3. reading = Elapsed
  BY <1>1 DEF LaterReadings, BudgetInv, CallIsDated
<1> QED
  BY <1>1, <1>2, <1>3, DeadlineAssumption
  DEF BudgetInv, CallIsDated, ClocksOK, Elapsed

(* Commands are well formed, whoever takes or answers them. *)
LEMMA TypesArePreserved ==
    ASSUME ServiceTypeOK, ClocksOK, Next
    PROVE  ServiceTypeOK'
<1>1. CASE Begin
  <2>1. call' \in Calls
    BY <1>1, BeginDates
  <2> QED
    BY <1>1, <2>1 DEF Begin, ClientOnly, serviceVars, ServiceTypeOK
<1>2. CASE Later
  <2>1. call' \in Calls
    BY <1>2, LaterContinues DEF Continues
  <2>2. UNCHANGED <<mode, service, process, job>>
    BY <1>2 DEF Later, FirstQuery, Issue, Answered, AwaitStopped, SeenStopped, Confirm,
                QueryFails, CommandTimesOut, ControlTimesOut, SpawnFails, Dropped,
                ClientOnly, serviceVars
  <2>3. CASE ~Issue
    <3>1. command' \in {command, None} /\ issued' = issued
      BY <1>2, <2>3 DEF Later, FirstQuery, Answered, AwaitStopped, SeenStopped, Confirm,
                        QueryFails, CommandTimesOut, ControlTimesOut, SpawnFails, Dropped
    <3> QED
      BY <2>1, <2>2, <3>1 DEF ServiceTypeOK
  <2>4. CASE Issue
    <3>1. \/ UNCHANGED <<command, issued>>
          \/ /\ command' = [verb |-> call.verb, answer |-> "none"]
             /\ issued' = issued \union {[verb |-> call.verb, at |-> Elapsed]}
      BY <2>4 DEF Issue
    <3> QED
      <4>1. CASE UNCHANGED <<command, issued>>
        BY <2>1, <2>2, <4>1 DEF ServiceTypeOK
      <4>2. CASE /\ command' = [verb |-> call.verb, answer |-> "none"]
                 /\ issued' = issued \union {[verb |-> call.verb, at |-> Elapsed]}
        <5>1. call.verb \in Verbs \union {None} /\ Elapsed \in Int
          BY DEF ServiceTypeOK, Calls, ClocksOK, Elapsed
        <5>2. command' \in Commands
          BY <4>2, <5>1 DEF Commands
        <5>3. issued' \in SUBSET [verb : Verbs \union {None}, at : Int]
          BY <4>2, <5>1 DEF ServiceTypeOK
        <5> QED
          BY <2>1, <2>2, <5>2, <5>3 DEF ServiceTypeOK
      <4> QED
        BY <3>1, <4>1, <4>2
  <2> QED
    BY <2>3, <2>4
<1>3. CASE World
  <2>1. UNCHANGED <<mode, call, issued>>
    BY <1>3 DEF World, WindowsTakes, SystemdTakes, JobDone, CommandFails, ServiceStops,
                RestartContinues, ServiceRuns, ServiceDies, LocalUser, WorldOnly
  <2>2. service' \in ServiceStates
    BY <1>3 DEF World, WindowsTakes, SystemdTakes, JobDone, CommandFails, ServiceStops,
                RestartContinues, ServiceRuns, ServiceDies, LocalUser, ServiceTypeOK,
                ServiceStates
  <2>3. process' \in Int
    BY <1>3 DEF World, WindowsTakes, SystemdTakes, JobDone, CommandFails, ServiceStops,
                RestartContinues, ServiceRuns, ServiceDies, LocalUser, ServiceTypeOK
  <2>4. job' \in Verbs \union {None}
    BY <1>3 DEF World, WindowsTakes, SystemdTakes, JobDone, CommandFails, ServiceStops,
                RestartContinues, ServiceRuns, ServiceDies, LocalUser, ServiceTypeOK,
                Pending, Commands, Verbs
  <2>5. \/ command' = command
        \/ /\ command # None
           /\ \/ command' = [command EXCEPT !.answer = "ok"]
              \/ command' = [command EXCEPT !.answer = "taken"]
              \/ command' = [command EXCEPT !.answer = "failed"]
    BY <1>3 DEF World, WindowsTakes, SystemdTakes, JobDone, CommandFails, ServiceStops,
                RestartContinues, ServiceRuns, ServiceDies, LocalUser, Pending, Answer
  <2>6. command' \in Commands \union {None}
    BY <2>5 DEF ServiceTypeOK, Commands
  <2> QED
    BY <2>1, <2>2, <2>3, <2>4, <2>6 DEF ServiceTypeOK
<1>4. CASE TimePasses \/ MachineSleeps
  BY <1>4 DEF TimePasses, MachineSleeps, ClockOnly, serviceVars, ServiceTypeOK
<1> QED
  BY <1>1, <1>2, <1>3, <1>4 DEF Next, Client, Later

(* Time goes on, and nothing that was written down changes. *)
LEMMA ClocksGoOn ==
    ASSUME ClocksOK, Next
    PROVE  ClocksOK' /\ Elapsed' >= Elapsed /\ Elapsed \in Int /\ Elapsed' \in Int
<1>1. UNCHANGED <<deadline, received>>
  BY DEF Next, Client, World, Begin, FirstQuery, Issue, Answered, AwaitStopped, SeenStopped,
         Confirm, QueryFails, CommandTimesOut, ControlTimesOut, SpawnFails, Dropped,
         ClientOnly, WindowsTakes, SystemdTakes, JobDone, CommandFails, ServiceStops,
         RestartContinues, ServiceRuns, ServiceDies, LocalUser, WorldOnly, TimePasses,
         MachineSleeps, ClockOnly, taskVars
<1>2. \/ active' = active /\ asleep' = asleep
      \/ active' = active + 1 /\ asleep' = asleep
      \/ active' = active /\ asleep' = asleep + 1
  BY DEF Next, Client, World, Begin, FirstQuery, Issue, Answered, AwaitStopped, SeenStopped,
         Confirm, QueryFails, CommandTimesOut, ControlTimesOut, SpawnFails, Dropped,
         ClientOnly, WindowsTakes, SystemdTakes, JobDone, CommandFails, ServiceStops,
         RestartContinues, ServiceRuns, ServiceDies, LocalUser, WorldOnly, TimePasses,
         MachineSleeps, Tick, Sleep, clockVars
<1> QED
  BY <1>1, <1>2 DEF ClocksOK, Elapsed

LEMMA BudgetIsKept ==
    ASSUME BudgetInv, Next
    PROVE  BudgetInv'
<1>1. ServiceTypeOK' /\ ClocksOK'
  BY TypesArePreserved, ClocksGoOn DEF BudgetInv
<1>2. UNCHANGED <<deadline, received>>
  BY DEF Next, Client, World, Begin, FirstQuery, Issue, Answered, AwaitStopped, SeenStopped,
         Confirm, QueryFails, CommandTimesOut, ControlTimesOut, SpawnFails, Dropped,
         ClientOnly, WindowsTakes, SystemdTakes, JobDone, CommandFails, ServiceStops,
         RestartContinues, ServiceRuns, ServiceDies, LocalUser, WorldOnly, TimePasses,
         MachineSleeps, ClockOnly, taskVars
<1>3. Elapsed' >= Elapsed /\ Elapsed \in Int /\ Elapsed' \in Int /\ Elapsed >= 1
  BY ClocksGoOn DEF BudgetInv, ClocksOK, Elapsed
<1>4. CASE Begin
  <2>1. issued = {} /\ issued' = issued
    BY <1>4 DEF Begin, BudgetInv, CallIsDated, At
  <2>2. UNCHANGED <<active, asleep>>
    BY <1>4 DEF Begin, ClientOnly, clockVars
  <2>3. /\ call'.phase # "idle"
        /\ call'.phase # "ended" => call'.start = call'.began /\ call'.began = Elapsed
    BY <1>4, BeginDates DEF BudgetInv
  <2> QED
    BY <1>1, <1>3, <2>1, <2>2, <2>3
    DEF BudgetInv, CallIsDated, CommandsWithinBudget, At, InCall, Elapsed
<1>5. CASE Later
  <2>1. Continues
    BY <1>5, LaterContinues DEF BudgetInv
  <2>2. CallIsDated'
    BY <1>3, <2>1 DEF BudgetInv, CallIsDated, Continues, At, InCall
  <2>3. CASE issued' = issued
    BY <1>1, <1>2, <2>1, <2>2, <2>3 DEF BudgetInv, CommandsWithinBudget, Continues
  <2>4. CASE issued' # issued
    <3>1. PICK late \in BOOLEAN, reading \in LaterReadings :
            /\ InBudget(late, reading)
            /\ issued' = issued \union {[verb |-> call.verb, at |-> Elapsed]}
      BY <1>5, <2>4 DEF Later, FirstQuery, Issue, Answered, AwaitStopped, SeenStopped,
                        Confirm, QueryFails, CommandTimesOut, ControlTimesOut, SpawnFails,
                        Dropped
    <3>2. /\ Elapsed - call.began < ControlBudget
          /\ Elapsed - received < deadline.remaining
          /\ Elapsed - received < MaxExecution
      BY <2>1, <3>1, ChecksBoundTime DEF Continues
    <3>3. CommandsWithinBudget'
      BY <1>2, <2>1, <3>1, <3>2 DEF BudgetInv, CommandsWithinBudget, Continues
    <3> QED
      BY <1>1, <2>2, <3>3 DEF BudgetInv
  <2> QED
    BY <2>3, <2>4
<1>6. CASE World \/ TimePasses \/ MachineSleeps
  <2>1. UNCHANGED <<call, issued>>
    BY <1>6 DEF World, WindowsTakes, SystemdTakes, JobDone, CommandFails, ServiceStops,
                RestartContinues, ServiceRuns, ServiceDies, LocalUser, WorldOnly,
                TimePasses, MachineSleeps, ClockOnly
  <2> QED
    BY <1>1, <1>2, <1>3, <2>1
    DEF BudgetInv, CallIsDated, CommandsWithinBudget, At, InCall
<1> QED
  BY <1>4, <1>5, <1>6 DEF Next, Client, Later

(* No command is given to the service manager once the budget of the task  *)
(* or of the service command is used up in real time (control_budget in    *)
(* adapter.rs, expired_with_elapsed_clock in engine.rs).                   *)
THEOREM CommandsStayWithinBudget == Spec => []CommandsWithinBudget
<1>1. BudgetInv /\ UNCHANGED vars => BudgetInv'
  BY DEF BudgetInv, ServiceTypeOK, ClocksOK, CallIsDated, CommandsWithinBudget, At, InCall,
         Elapsed, vars, clockVars, serviceVars, taskVars
<1>2. BudgetInv /\ [Next]_vars => BudgetInv'
  BY <1>1, BudgetIsKept
<1>3. BudgetInv => CommandsWithinBudget
  BY DEF BudgetInv
<1> QED
  BY <1>2, <1>3, BudgetInitially, PTL DEF Spec

(***************************************************************************)
(* Restarts                                                                *)
(***************************************************************************)

LEMMA RestartInitially == Init => RestartInv
BY DEF Init, RestartInv, CommandIsAnswered, SystemdRestarts, WindowsRestarts,
       RestartedIsNew, At, InCall, Idle

(* A call may end with any error, and with success once the old process is *)
(* gone.                                                                   *)
LEMMA EndKeepsRestart ==
    ASSUME ServiceTypeOK, RestartInv, InCall, NEW value, End(value), process' = process,
           value = "Running" /\ call.action = "Restart" => process > call.before
    PROVE  RestartInv'
<1>1. call'.phase = "ended" /\ result' = value /\ call'.action = call.action
      /\ call'.before = call.before
  BY EndingContinues DEF ServiceTypeOK, Continues
<1> QED
  BY <1>1 DEF RestartInv, CommandIsAnswered, SystemdRestarts, WindowsRestarts,
              RestartedIsNew, At, InCall

LEMMA BeginKeepsRestart ==
    ASSUME ServiceTypeOK, ClocksOK, RestartInv, Begin
    PROVE  RestartInv'
<1>1. /\ UNCHANGED <<mode, service, process, job, command>>
      /\ command = None /\ job = None /\ result = None
  BY DEF Begin, ClientOnly, serviceVars, RestartInv, CommandIsAnswered
<1>2. /\ call'.phase # "idle"
      /\ call'.phase # "ended" =>
            /\ call'.before = process /\ call'.action \in Actions /\ result' = result
            /\ \/ mode = "Windows" /\ call'.phase = "query"
               \/ /\ mode = "Systemd" /\ call'.phase = "command"
                  /\ call'.action = "Restart" => call'.verb = "restart"
      /\ call'.phase = "ended" => result' \in Errors
  BY BeginDates
<1>3. process \in Int
  BY DEF ServiceTypeOK
<1>4. CASE call'.phase = "ended"
  <2>1. result' # "Running"
    BY <1>2, <1>4 DEF Errors
  <2> QED
    BY <1>4, <2>1 DEF RestartInv, CommandIsAnswered, SystemdRestarts, WindowsRestarts,
                      RestartedIsNew, At, InCall
<1>5. CASE call'.phase # "ended"
  <2>1. /\ call'.before = process /\ call'.action \in Actions /\ result' = result
        /\ call'.phase \in {"query", "command"}
        /\ mode \in {"Systemd", "Windows"}
        /\ mode = "Windows" => call'.phase = "query"
        /\ mode = "Systemd" /\ call'.action = "Restart" =>
              call'.phase = "command" /\ call'.verb = "restart"
    BY <1>2, <1>5
  <2>2. RestartedIsNew'
    BY <1>1, <2>1, ServiceAssumption DEF RestartedIsNew, ServiceStates
  <2>3. CommandIsAnswered'
    BY <1>1, <1>3, <2>1 DEF CommandIsAnswered, At, InCall
  <2>4. SystemdRestarts'
    BY <1>1, <2>1, ServiceAssumption DEF SystemdRestarts, At, InCall, Verbs
  <2>5. WindowsRestarts'
    BY <1>1, <2>1 DEF WindowsRestarts, At, InCall
  <2> QED
    BY <2>2, <2>3, <2>4, <2>5 DEF RestartInv
<1> QED
  BY <1>4, <1>5

(* An observation of a stopped service shows that the old process is gone. *)
LEMMA StoppedIsGone ==
    ASSUME ServiceTypeOK, RestartInv, InCall, "Stopped" \in Observations
    PROVE  OldIsGone
BY DEF ServiceTypeOK, Observations, RestartInv, CommandIsAnswered, OldIsGone

(* The steps in which a call goes on. *)
LEMMA QueriesKeepRestart ==
    ASSUME ServiceTypeOK, RestartInv, FirstQuery \/ AwaitStopped \/ SeenStopped \/ Confirm,
           ~\E value : End(value)
    PROVE  RestartInv'
<1>1. UNCHANGED <<mode, service, process, job, command, result>>
  BY DEF FirstQuery, AwaitStopped, SeenStopped, Confirm, ClientOnly, GoOn, serviceVars
<1>2. call \in Calls
  BY DEF ServiceTypeOK
<1>3. CASE FirstQuery
  <2>1. PICK state \in Observations :
          /\ At("query")
          /\ call' = [call EXCEPT !.phase = "command", !.first = state,
                                  !.verb = FirstVerb(call.action, state)]
    BY <1>3 DEF FirstQuery, GoOn
  <2>2. CASE call.action = "Restart" /\ mode = "Windows"
    <3>1. FirstVerb(call.action, state) # "stop" => OldIsGone
      BY <2>1, <2>2, StoppedIsGone DEF FirstVerb, At, InCall
    <3> QED
      BY <1>1, <1>2, <2>1, <2>2, <3>1
      DEF Calls, RestartInv, CommandIsAnswered, SystemdRestarts, WindowsRestarts,
          RestartedIsNew, OldIsGone, At, InCall
  <2>3. CASE call.action # "Restart" \/ mode # "Windows"
    BY <1>1, <1>2, <2>1, <2>3
    DEF Calls, RestartInv, CommandIsAnswered, SystemdRestarts, WindowsRestarts,
        RestartedIsNew, OldIsGone, At, InCall
  <2> QED
    BY <2>2, <2>3
<1>4. CASE AwaitStopped
  <2>1. /\ At("stopping")
        /\ \/ call' = [call EXCEPT !.phase = "stopped"]
           \/ call' = [call EXCEPT !.polls = @ + 1]
    BY <1>4 DEF AwaitStopped, GoOn
  <2> QED
    BY <1>1, <1>2, <2>1
    DEF Calls, RestartInv, CommandIsAnswered, SystemdRestarts, WindowsRestarts,
        RestartedIsNew, OldIsGone, At, InCall
<1>5. CASE SeenStopped
  <2>1. /\ At("stopped")
        /\ "Stopped" \in Observations
        /\ call' = [call EXCEPT !.phase = "command", !.verb = "start"]
    BY <1>5 DEF SeenStopped, GoOn
  <2>2. OldIsGone
    BY <2>1, StoppedIsGone DEF At, InCall
  <2> QED
    BY <1>1, <1>2, <2>1, <2>2
    DEF Calls, RestartInv, CommandIsAnswered, SystemdRestarts, WindowsRestarts,
        RestartedIsNew, OldIsGone, At, InCall
<1>6. CASE Confirm
  <2>1. At("confirm") /\ call' = [call EXCEPT !.polls = @ + 1]
    BY <1>6 DEF Confirm, GoOn
  <2> QED
    BY <1>1, <1>2, <2>1
    DEF Calls, RestartInv, CommandIsAnswered, SystemdRestarts, WindowsRestarts,
        RestartedIsNew, OldIsGone, At, InCall
<1> QED
  BY <1>3, <1>4, <1>5, <1>6

LEMMA CommandsKeepRestart ==
    ASSUME ServiceTypeOK, RestartInv, Issue \/ Answered, ~\E value : End(value)
    PROVE  RestartInv'
<1>1. UNCHANGED <<mode, service, process, job, result>>
  BY DEF Issue, Answered, ClientOnly, GoOn, serviceVars
<1>2. call \in Calls
  BY DEF ServiceTypeOK
<1>3. CASE Issue
  <2>1. /\ At("command")
        /\ command' = [verb |-> call.verb, answer |-> "none"]
        /\ call' = [call EXCEPT !.phase = "sent", !.sent = active]
    BY <1>3 DEF Issue, GoOn
  <2>2. command' # None
    <3>1. command' \in Commands
      BY <1>2, <2>1 DEF Calls, Commands
    <3> QED
      BY <3>1, ServiceAssumption
  <2> QED
    BY <1>1, <1>2, <2>1, <2>2
    DEF Calls, RestartInv, CommandIsAnswered, SystemdRestarts, WindowsRestarts,
        RestartedIsNew, OldIsGone, At, InCall
<1>4. CASE Answered
  <2>1. /\ At("sent")
        /\ command.answer = "ok" /\ command' = None
        /\ HalfWay => call'.phase = "stopping"
        /\ ~HalfWay => call'.phase = "confirm"
        /\ call'.action = call.action /\ call'.before = call.before
        /\ call'.verb = call.verb
    BY <1>2, <1>4 DEF Answered, GoOn, Succeeded, Calls
  <2>2. HalfWay \/ ~HalfWay
    OBVIOUS
  <2> QED
    BY <1>1, <2>1, <2>2
    DEF HalfWay, RestartInv, CommandIsAnswered, SystemdRestarts, WindowsRestarts,
        RestartedIsNew, OldIsGone, At, InCall
<1> QED
  BY <1>3, <1>4

(* The steps in which a call ends. *)
LEMMA EndsKeepRestart ==
    ASSUME ServiceTypeOK, ClocksOK, RestartInv, Later, NEW value, End(value)
    PROVE  RestartInv'
<1>1. InCall /\ process' = process
  BY LaterContinues
  DEF Continues, Later, FirstQuery, Issue, Answered, AwaitStopped, SeenStopped, Confirm,
      QueryFails, CommandTimesOut, ControlTimesOut, SpawnFails, Dropped, ClientOnly,
      serviceVars
<1>2. call' # [call EXCEPT !.phase = "command"] /\ result' = value
  <2>1. call'.phase = "ended" /\ result' = value
    BY <1>1, EndingContinues DEF ServiceTypeOK
  <2> QED
    BY <2>1 DEF ServiceTypeOK, Calls
<1>3. value = "Running" /\ call.action = "Restart" => process > call.before
  <2> SUFFICES ASSUME value = "Running", call.action = "Restart"
               PROVE  process > call.before
    OBVIOUS
  <2>1. result # "Running"
    BY <1>1, ServiceAssumption DEF RestartInv, CommandIsAnswered, ServiceStates
  <2>2. call'.phase = "ended"
    BY <1>1, EndingContinues DEF ServiceTypeOK
  <2>3. \E state \in Observations : At("confirm") /\ state = Expected /\ End(state)
    BY <1>2, <2>1
    DEF Later, FirstQuery, AlreadyThere, Issue, Answered, AwaitStopped, SeenStopped,
        Confirm, QueryFails, CommandTimesOut, ControlTimesOut, SpawnFails, Dropped, End,
        GoOn, Errors
  <2>4. service = "Running"
    BY <2>3 DEF Observations, Expected
  <2>5. OldIsGone
    BY <1>1, <2>3
    DEF RestartInv, CommandIsAnswered, SystemdRestarts, WindowsRestarts, At
  <2> QED
    BY <2>4, <2>5 DEF OldIsGone
<1> QED
  BY <1>1, <1>3, EndKeepsRestart

(* What the operating system, the service and its user do: an old process  *)
(* that is gone stays gone.                                                *)
LEMMA WorldKeepsRestart ==
    ASSUME ServiceTypeOK, RestartInv, World, ~At("ended")
    PROVE  RestartInv'
<1>1. UNCHANGED <<mode, call, result>>
  BY DEF World, WindowsTakes, SystemdTakes, JobDone, CommandFails, ServiceStops,
         RestartContinues, ServiceRuns, ServiceDies, LocalUser, WorldOnly
<1>2. /\ process' \in Int /\ process' >= process
      /\ process' = process /\ service \in {"Stopped", "Starting"} =>
            service' \in {"Stopped", "Starting"} \/ SystemdTakes
      /\ process' # process => process' > process
  BY DEF World, WindowsTakes, SystemdTakes, JobDone, CommandFails, ServiceStops,
         RestartContinues, ServiceRuns, ServiceDies, LocalUser, ServiceTypeOK
<1>3. ASSUME InCall, ~SystemdTakes PROVE OldIsGone => OldIsGone'
  BY <1>1, <1>2, <1>3
  DEF OldIsGone, ServiceTypeOK, RestartInv, CommandIsAnswered
<1>4. \/ command' = command
      \/ /\ command # None /\ command' # None
         /\ command'.verb = command.verb
  <2>1. ASSUME NEW answer \in {"ok", "taken", "failed"}, command \in Commands,
               command' = [command EXCEPT !.answer = answer]
        PROVE  command' # None /\ command'.verb = command.verb
    <3>1. command' \in Commands /\ command'.verb = command.verb
      BY <2>1 DEF Commands
    <3> QED
      BY <3>1, ServiceAssumption
  <2> QED
    BY <2>1
    DEF World, WindowsTakes, SystemdTakes, JobDone, CommandFails, ServiceStops,
        RestartContinues, ServiceRuns, ServiceDies, LocalUser, Pending, Answer,
        ServiceTypeOK
<1>5. CommandIsAnswered'
  <2>1. At("idle") => command' = None /\ job' = None
    BY <1>4, ServiceAssumption
    DEF RestartInv, CommandIsAnswered, World, WindowsTakes, SystemdTakes, JobDone,
        CommandFails, ServiceStops, RestartContinues, ServiceRuns, ServiceDies, LocalUser,
        Pending, Verbs, At
  <2> QED
    BY <1>1, <1>2, <1>4, <2>1 DEF RestartInv, CommandIsAnswered, ServiceTypeOK, At, InCall
<1>6. RestartedIsNew'
  BY <1>1, ServiceAssumption
  DEF RestartInv, CommandIsAnswered, RestartedIsNew, InCall, At, ServiceStates
<1>7. SystemdRestarts'
  <2> SUFFICES ASSUME InCall, call.action = "Restart", mode = "Systemd"
               PROVE  SystemdRestarts'
    BY <1>1 DEF SystemdRestarts, InCall
  <2>1. ~SystemdTakes /\ OldIsGone => OldIsGone'
    BY <1>3
  <2>2. CASE UNCHANGED <<job, command>> /\ ~SystemdTakes
    BY <1>1, <2>1, <2>2 DEF RestartInv, SystemdRestarts, At, InCall
  <2>3. CASE WindowsTakes
    BY <2>3 DEF WindowsTakes
  <2>4. CASE SystemdTakes
    <3>1. /\ command # None /\ job' = command.verb
          /\ command' = [command EXCEPT !.answer = "taken"]
      BY <2>4 DEF SystemdTakes, Pending, Answer
    <3>2. command'.answer = "taken"
      BY <3>1 DEF ServiceTypeOK, Commands
    <3>3. At("sent")
      BY <3>1 DEF RestartInv, CommandIsAnswered
    <3> QED
      BY <1>1, <1>4, <2>1, <3>1, <3>2, <3>3 DEF RestartInv, SystemdRestarts, At, InCall
  <2>5. CASE JobDone /\ ~SystemdTakes
    <3>1. job # None /\ job' = None
      BY <2>5 DEF JobDone
    <3>2. job = "start"
      BY <2>5 DEF JobDone, RestartInv, SystemdRestarts
    <3> QED
      BY <1>1, <1>4, <2>1, <2>5, <3>1, <3>2, ServiceAssumption
      DEF RestartInv, SystemdRestarts, At, InCall, Verbs
  <2>6. CASE CommandFails /\ ~SystemdTakes
    <3>1. command' = [command EXCEPT !.answer = "failed"] /\ job' = None /\ command # None
      BY <2>6 DEF CommandFails, Answer
    <3>2. command'.answer = "failed"
      BY <3>1 DEF ServiceTypeOK, Commands
    <3> QED
      BY <1>1, <1>4, <2>1, <2>6, <3>1, <3>2, ServiceAssumption
      DEF RestartInv, SystemdRestarts, At, InCall, Verbs
  <2>7. CASE RestartContinues
    <3>1. job = "restart" /\ job' = "start" /\ service' = "Starting" /\ process' = process
          /\ command' = command
      BY <2>7 DEF RestartContinues
    <3>2. OldIsGone'
      BY <1>1, <3>1 DEF RestartInv, CommandIsAnswered, OldIsGone, ServiceTypeOK
    <3>3. ~At("command")
      BY <3>1, ServiceAssumption DEF RestartInv, SystemdRestarts, Verbs
    <3> QED
      BY <1>1, <2>1, <3>1, <3>2, <3>3 DEF RestartInv, SystemdRestarts, At, InCall
  <2> QED
    BY <2>2, <2>3, <2>4, <2>5, <2>6, <2>7
    DEF World, ServiceStops, ServiceRuns, ServiceDies, LocalUser
<1>8. WindowsRestarts'
  <2> SUFFICES ASSUME InCall, call.action = "Restart", mode = "Windows"
               PROVE  WindowsRestarts'
    BY <1>1 DEF WindowsRestarts, InCall
  <2>1. job' = None
    BY ServiceAssumption
    DEF RestartInv, WindowsRestarts, World, WindowsTakes, SystemdTakes, JobDone,
        CommandFails, ServiceStops, RestartContinues, ServiceRuns, ServiceDies, LocalUser,
        Verbs
  <2>2. ~SystemdTakes
    BY DEF SystemdTakes
  <2> QED
    BY <1>1, <1>3, <2>1, <2>2 DEF RestartInv, WindowsRestarts, At, InCall
<1> QED
  BY <1>5, <1>6, <1>7, <1>8 DEF RestartInv

(* A restart is reported as done only when another process of Sunshine has *)
(* taken the place of the one before, under systemd and under Windows      *)
(* (control_inner in adapter.rs).                                          *)
THEOREM RestartsAreNew == Spec => []RestartedIsNew
<1> DEFINE Inv == ServiceTypeOK /\ ClocksOK /\ RestartInv
<1>1. Init => Inv
  BY BudgetInitially, RestartInitially DEF BudgetInv
<1>2. Inv /\ [Next]_vars => Inv'
  <2> SUFFICES ASSUME Inv, [Next]_vars PROVE Inv'
    OBVIOUS
  <2>1. CASE Next
    <3>1. ServiceTypeOK' /\ ClocksOK'
      BY <2>1, TypesArePreserved, ClocksGoOn
    <3>2. RestartInv'
      <4>1. CASE Begin
        BY <4>1, BeginKeepsRestart
      <4>2. CASE Later /\ \E value : End(value)
        BY <4>2, EndsKeepRestart
      <4>3. CASE Later /\ ~\E value : End(value)
        <5>1. \/ FirstQuery \/ AwaitStopped \/ SeenStopped \/ Confirm
              \/ Issue \/ Answered
          BY <4>3 DEF Later, QueryFails, CommandTimesOut, ControlTimesOut, SpawnFails,
                      Dropped
        <5> QED
          BY <4>3, <5>1, QueriesKeepRestart, CommandsKeepRestart
      <4>4. CASE World
        BY <2>1, <4>4, WorldKeepsRestart DEF Next
      <4>5. CASE TimePasses \/ MachineSleeps
        BY <4>5 DEF TimePasses, MachineSleeps, ClockOnly, serviceVars, RestartInv,
                    CommandIsAnswered, SystemdRestarts, WindowsRestarts, RestartedIsNew,
                    OldIsGone, At, InCall
      <4> QED
        BY <2>1, <4>1, <4>2, <4>3, <4>4, <4>5 DEF Next, Client, Later
    <3> QED
      BY <3>1, <3>2
  <2>2. CASE UNCHANGED vars
    BY <2>2 DEF vars, clockVars, serviceVars, taskVars, ServiceTypeOK, ClocksOK, Elapsed,
                RestartInv, CommandIsAnswered, SystemdRestarts, WindowsRestarts,
                RestartedIsNew, OldIsGone, At, InCall
  <2> QED
    BY <2>1, <2>2
<1>3. Inv => RestartedIsNew
  BY DEF RestartInv
<1> QED
  BY <1>1, <1>2, <1>3, PTL DEF Spec

(***************************************************************************)
(* The order of a call                                                     *)
(***************************************************************************)

(* One call gives each command at most once, and more than one only to     *)
(* restart a Windows service: a stop, and no sooner than that a start.     *)
CommandsAreSingle ==
    \A c, d \in issued :
        c = d \/ /\ mode = "Windows" /\ call.action = "Restart"
                 /\ {c.verb, d.verb} = {"stop", "start"}
                 /\ c.verb = "stop" => c.at <= d.at

OnlyStops == \A c \in issued : c.verb = "stop"

(* What was given when, and how many queries were made.                    *)
CallIsOrdered ==
    /\ call.polls \in 0..Polls
    /\ At("stopping") => call.polls < Polls
    /\ At("idle") \/ At("query") => issued = {}
    /\ At("command") =>
          /\ call.verb \in Verbs
          /\ \/ issued = {}
             \/ /\ OnlyStops /\ call.verb = "start"
                /\ call.action = "Restart" /\ mode = "Windows"
    /\ At("sent") /\ HalfWay => OnlyStops
    /\ At("stopping") \/ At("stopped") => HalfWay /\ OnlyStops
    /\ \A c \in issued : c.at <= Elapsed
    /\ CommandsAreSingle

(* A bound on the client's moves in a call: stages of at most Polls + 1    *)
(* moves each, with those of a Windows restart before the others.          *)
Stopping(c) == c.action = "Restart" /\ mode = "Windows" /\ c.verb = "stop"

Stage(c) ==
    CASE c.phase = "query" -> 7
      [] c.phase = "command" -> IF Stopping(c) THEN 6 ELSE 2
      [] c.phase = "sent" -> IF Stopping(c) THEN 5 ELSE 1
      [] c.phase = "stopping" -> 4
      [] c.phase = "stopped" -> 3
      [] OTHER -> 0

PollsLeft(c) == IF c.phase \in {"stopping", "confirm"} THEN Polls - c.polls ELSE 0

MovesLeft(c) == Stage(c) * (Polls + 1) + PollsLeft(c)

(* Whatever the service manager answers, no move of control_inner takes    *)
(* the call back to where it was: it comes closer to its end.              *)
CallAdvances == [][InCall /\ InCall' => MovesLeft(call') < MovesLeft(call)]_call

(* A call has no more moves than this ahead of it.                         *)
CallIsBounded == InCall => MovesLeft(call) \in 0 .. 7 * (Polls + 1)

LEMMA StageIs ==
    \A c :
        /\ c.phase = "query" => Stage(c) = 7
        /\ c.phase = "command" => Stage(c) = IF Stopping(c) THEN 6 ELSE 2
        /\ c.phase = "sent" => Stage(c) = IF Stopping(c) THEN 5 ELSE 1
        /\ c.phase = "stopping" => Stage(c) = 4
        /\ c.phase = "stopped" => Stage(c) = 3
        /\ c.phase = "confirm" => Stage(c) = 0
BY DEF Stage

(* A later stage is fewer moves away from the end, however often the       *)
(* service is still asked in it.                                           *)
LEMMA LowerStage ==
    ASSUME NEW c, NEW d, Stage(c) \in 0..7, Stage(d) \in 0..7, Stage(d) < Stage(c),
           c.polls \in 0..Polls, d.polls \in 0..Polls
    PROVE  MovesLeft(d) < MovesLeft(c)
<1>1. Polls \in Nat
  BY ServiceAssumption
<1> DEFINE p == PollsLeft(c)
           q == PollsLeft(d)
           i == Stage(c)
           j == Stage(d)
<1>2. p \in 0..Polls /\ q \in 0..Polls
  BY <1>1 DEF PollsLeft
<1>3. i \in 0..7 /\ j \in 0..7 /\ j < i
  OBVIOUS
<1>4. MovesLeft(c) = i * (Polls + 1) + p /\ MovesLeft(d) = j * (Polls + 1) + q
  BY DEF MovesLeft
<1> HIDE DEF i, j, p, q
<1>5. j * (Polls + 1) + Polls < i * (Polls + 1)
  <2>1. ASSUME NEW k \in 0..7, i = k PROVE j * (Polls + 1) + Polls < k * (Polls + 1)
    <3>1. i \in {0, 1, 2, 3, 4, 5, 6, 7} /\ j \in {0, 1, 2, 3, 4, 5, 6, 7}
      BY <1>3
    <3> QED BY <1>1, <1>3, <2>1, <3>1
  <2> QED BY <1>3, <2>1
<1>6. i * (Polls + 1) \in Int /\ j * (Polls + 1) \in Int
  BY <1>1, <1>3
<1> QED BY <1>1, <1>2, <1>4, <1>5, <1>6

(* A move of the client that gives no command. *)
LEMMA QuietMove ==
    ASSUME ServiceTypeOK, ClocksOK, CallIsOrdered, InCall,
           UNCHANGED <<mode, active, asleep, issued>>,
           call'.action = call.action, call'.polls \in 0..Polls,
           call'.phase \notin {"idle", "query", "sent"},
           call'.phase = "stopping" => call'.polls < Polls,
           call'.phase = "command" =>
               /\ call'.verb \in Verbs
               /\ \/ issued = {}
                  \/ OnlyStops /\ call'.verb = "start" /\ HalfWay,
           call'.phase \in {"stopping", "stopped"} =>
               HalfWay /\ OnlyStops /\ call'.verb = call.verb
    PROVE  CallIsOrdered'
<1>1. CommandsAreSingle'
  BY DEF CallIsOrdered, CommandsAreSingle
<1>2. \A c \in issued' : c.at <= Elapsed'
  BY DEF CallIsOrdered, Elapsed
<1>3. OnlyStops' <=> OnlyStops
  BY DEF OnlyStops
<1> QED BY <1>1, <1>2, <1>3 DEF CallIsOrdered, At, HalfWay

LEMMA EndIsOrdered ==
    ASSUME ServiceTypeOK, ClocksOK, CallIsOrdered, InCall,
           UNCHANGED <<mode, active, asleep, issued>>, NEW value, End(value)
    PROVE  CallIsOrdered' /\ ~InCall'
<1>1. /\ call'.phase = "ended" /\ call'.action = call.action /\ call'.polls = 0
  BY DEF End, Idle
<1>2. 0 \in 0..Polls
  BY ServiceAssumption
<1> QED BY <1>1, <1>2, QuietMove DEF InCall

(* Every move of the client keeps the order, and uses up one of its moves. *)
LEMMA MovesAreOrdered ==
    ASSUME ServiceTypeOK, ClocksOK, CallIsOrdered, Later
    PROVE  /\ CallIsOrdered'
           /\ InCall' => MovesLeft(call') < MovesLeft(call)
<1>1. call \in Calls /\ InCall /\ UNCHANGED <<mode, active, asleep>>
  BY DEF ServiceTypeOK, Later, FirstQuery, Issue, Answered, AwaitStopped, SeenStopped,
         Confirm, QueryFails, CommandTimesOut, ControlTimesOut, SpawnFails, Dropped, At,
         InCall, ClientOnly, clockVars
<1>2. call.polls \in 0..Polls /\ Polls \in Nat /\ Polls > 0 /\ 0 \in 0..Polls
  BY ServiceAssumption DEF CallIsOrdered
<1>3. CASE \E value : End(value)
  <2>1. call'.phase = "ended"
    BY <1>3 DEF End, Idle
  <2>2. CASE Issue
    <3>1. \/ issued' = issued
          \/ call' = [call EXCEPT !.phase = "sent", !.sent = active]
      BY <2>2 DEF Issue, GoOn
    <3>2. call' # [call EXCEPT !.phase = "sent", !.sent = active]
      BY <1>1, <2>1 DEF Calls
    <3> QED BY <1>1, <1>3, <3>1, <3>2, EndIsOrdered
  <2>3. CASE ~Issue
    <3>1. issued' = issued
      BY <2>3 DEF Later, FirstQuery, Answered, AwaitStopped, SeenStopped, Confirm,
                  QueryFails, CommandTimesOut, ControlTimesOut, SpawnFails, Dropped
    <3> QED BY <1>1, <1>3, <3>1, EndIsOrdered
  <2> QED BY <2>2, <2>3
<1>4. CASE FirstQuery /\ ~\E value : End(value)
  <2>1. PICK state \in Observations :
          /\ call' = [call EXCEPT !.phase = "command", !.first = state,
                                  !.verb = FirstVerb(call.action, state)]
          /\ call.phase = "query" /\ issued' = issued
    BY <1>4 DEF FirstQuery, GoOn, At
  <2>2. FirstVerb(call.action, state) \in Verbs
    BY DEF FirstVerb, Verbs
  <2>3. /\ call'.phase = "command" /\ call'.action = call.action
        /\ call'.polls = call.polls /\ call'.verb \in Verbs
    BY <1>1, <2>1, <2>2 DEF Calls
  <2>4. issued = {}
    BY <2>1 DEF CallIsOrdered, At
  <2>5. CallIsOrdered'
    BY <1>1, <1>2, <2>1, <2>3, <2>4, QuietMove
  <2>6. Stage(call) = 7 /\ Stage(call') \in {2, 6}
    BY <2>1, <2>3, StageIs
  <2>7. MovesLeft(call') < MovesLeft(call)
    BY <1>2, <2>3, <2>6, LowerStage
  <2> QED BY <2>5, <2>7
<1>5. CASE Issue /\ ~\E value : End(value)
  <2>1. /\ call' = [call EXCEPT !.phase = "sent", !.sent = active]
        /\ call.phase = "command"
        /\ issued' = issued \union {[verb |-> call.verb, at |-> Elapsed]}
    BY <1>5 DEF Issue, GoOn, At
  <2>2. /\ call'.phase = "sent" /\ call'.action = call.action
        /\ call'.polls = call.polls /\ call'.verb = call.verb
    BY <1>1, <2>1 DEF Calls
  <2>3. /\ call.verb \in Verbs
        /\ \/ issued = {}
           \/ /\ OnlyStops /\ call.verb = "start"
              /\ call.action = "Restart" /\ mode = "Windows"
    BY <2>1 DEF CallIsOrdered, At
  <2>4. Elapsed \in Int /\ Elapsed' = Elapsed
    BY <1>1 DEF ClocksOK, Elapsed
  <2>5. \A c \in issued' : c.at <= Elapsed'
    BY <2>1, <2>4 DEF CallIsOrdered
  <2>6. CommandsAreSingle'
    <3>1. CASE issued = {}
      BY <2>1, <3>1 DEF CommandsAreSingle
    <3>2. CASE issued # {}
      BY <1>1, <2>1, <2>2, <2>3, <3>2 DEF CommandsAreSingle, CallIsOrdered, OnlyStops
    <3> QED BY <3>1, <3>2
  <2>7. HalfWay' => OnlyStops'
    BY <2>1, <2>2, <2>3 DEF HalfWay, OnlyStops
  <2>8. CallIsOrdered'
    BY <1>2, <2>2, <2>5, <2>6, <2>7 DEF CallIsOrdered, At
  <2>9. Stopping(call') <=> Stopping(call)
    BY <2>2 DEF Stopping
  <2>10. \/ Stage(call) = 6 /\ Stage(call') = 5
         \/ Stage(call) = 2 /\ Stage(call') = 1
    BY <2>1, <2>2, <2>9, StageIs
  <2>11. MovesLeft(call') < MovesLeft(call)
    BY <1>2, <2>2, <2>10, LowerStage
  <2> QED BY <2>8, <2>11
<1>6. CASE Answered /\ ~\E value : End(value)
  <2>1. /\ call' = [call EXCEPT !.phase = IF HalfWay THEN "stopping" ELSE "confirm",
                                !.polls = 0]
        /\ call.phase = "sent" /\ issued' = issued
    BY <1>6 DEF Answered, GoOn, At
  <2>2. /\ call'.phase = IF HalfWay THEN "stopping" ELSE "confirm"
        /\ call'.action = call.action /\ call'.polls = 0 /\ call'.verb = call.verb
    BY <1>1, <2>1 DEF Calls
  <2>3. HalfWay => OnlyStops
    BY <2>1 DEF CallIsOrdered, At
  <2>4. CallIsOrdered'
    BY <1>1, <1>2, <2>1, <2>2, <2>3, QuietMove
  <2>5. \/ Stage(call) = 5 /\ Stage(call') = 4
        \/ Stage(call) = 1 /\ Stage(call') = 0
    BY <2>1, <2>2, StageIs DEF HalfWay, Stopping
  <2>6. MovesLeft(call') < MovesLeft(call)
    BY <1>2, <2>2, <2>5, LowerStage
  <2> QED BY <2>4, <2>6
<1>7. CASE AwaitStopped /\ call' = [call EXCEPT !.phase = "stopped"]
  <2>1. /\ call'.phase = "stopped" /\ call'.action = call.action
        /\ call'.polls = call.polls /\ call'.verb = call.verb
        /\ call.phase = "stopping" /\ issued' = issued
    BY <1>1, <1>7 DEF Calls, AwaitStopped, At
  <2>2. HalfWay /\ OnlyStops
    BY <2>1 DEF CallIsOrdered, At
  <2>3. CallIsOrdered'
    BY <1>1, <1>2, <2>1, <2>2, QuietMove
  <2>4. Stage(call) = 4 /\ Stage(call') = 3
    BY <2>1, StageIs
  <2>5. MovesLeft(call') < MovesLeft(call)
    BY <1>2, <2>1, <2>4, LowerStage
  <2> QED BY <2>3, <2>5
<1>8. CASE /\ AwaitStopped \/ Confirm
           /\ call' = [call EXCEPT !.polls = @ + 1]
           /\ call.phase = "confirm" => call.polls < Polls
           /\ call.phase = "stopping" => call.polls + 1 # Polls
  <2>1. /\ call'.phase = call.phase /\ call'.action = call.action
        /\ call'.polls = call.polls + 1 /\ call'.verb = call.verb
        /\ call.phase \in {"stopping", "confirm"} /\ issued' = issued
    BY <1>1, <1>8 DEF Calls, AwaitStopped, Confirm, At
  <2>2. call.phase = "stopping" => HalfWay /\ OnlyStops /\ call.polls < Polls
    BY <2>1 DEF CallIsOrdered, At
  <2>3. /\ call'.polls \in 0..Polls
        /\ call.phase = "stopping" => call'.polls < Polls
    BY <1>2, <1>8, <2>1, <2>2
  <2>4. CallIsOrdered'
    BY <1>1, <2>1, <2>2, <2>3, QuietMove
  <2>5. Stage(call') = Stage(call) /\ Stage(call) \in {0, 4}
    BY <2>1, StageIs
  <2>6. PollsLeft(call) = Polls - call.polls /\ PollsLeft(call') = Polls - call'.polls
    BY <2>1 DEF PollsLeft
  <2>7. MovesLeft(call') < MovesLeft(call)
    BY <1>2, <2>1, <2>5, <2>6 DEF MovesLeft
  <2> QED BY <2>4, <2>7
<1>9. CASE SeenStopped /\ ~\E value : End(value)
  <2>1. /\ call' = [call EXCEPT !.phase = "command", !.verb = "start"]
        /\ call.phase = "stopped" /\ issued' = issued
    BY <1>9 DEF SeenStopped, GoOn, At
  <2>2. /\ call'.phase = "command" /\ call'.action = call.action
        /\ call'.polls = call.polls /\ call'.verb = "start"
    BY <1>1, <2>1 DEF Calls
  <2>3. HalfWay /\ OnlyStops
    BY <2>1 DEF CallIsOrdered, At
  <2>4. CallIsOrdered'
    BY <1>1, <1>2, <2>1, <2>2, <2>3, QuietMove DEF Verbs
  <2>5. Stage(call) = 3 /\ Stage(call') = 2
    BY <2>1, <2>2, StageIs DEF Stopping
  <2>6. MovesLeft(call') < MovesLeft(call)
    BY <1>2, <2>2, <2>5, LowerStage
  <2> QED BY <2>4, <2>6
<1>10. Confirm /\ ~(\E value : End(value)) =>
          call' = [call EXCEPT !.polls = @ + 1] /\ call.phase = "confirm" /\ call.polls < Polls
  BY DEF Confirm, GoOn, At
<1>11. AwaitStopped =>
          /\ call.phase = "stopping"
          /\ \/ call' = [call EXCEPT !.phase = "stopped"]
             \/ call' = [call EXCEPT !.polls = @ + 1] /\ call.polls + 1 # Polls
  BY DEF AwaitStopped, GoOn, At
<1> QED
  BY <1>3, <1>4, <1>5, <1>6, <1>7, <1>8, <1>9, <1>10, <1>11
  DEF Later, QueryFails, CommandTimesOut, ControlTimesOut, SpawnFails, Dropped

(* So does every step; the world and the clocks leave the call alone.      *)
LEMMA StepsAreOrdered ==
    ASSUME ServiceTypeOK, ClocksOK, CallIsOrdered, [Next]_vars
    PROVE  /\ CallIsOrdered'
           /\ call' # call /\ InCall /\ InCall' => MovesLeft(call') < MovesLeft(call)
<1>1. CASE Begin
  <2>1. /\ call'.phase \in {"ended", "query", "command"} /\ call'.polls = 0
        /\ call'.phase = "command" => call'.verb \in Verbs
    BY <1>1, BeginDates
  <2>2. At("idle") /\ issued = {} /\ issued' = {}
    BY <1>1 DEF Begin, CallIsOrdered
  <2>3. 0 \in 0..Polls
    BY ServiceAssumption
  <2> QED BY <2>1, <2>2, <2>3 DEF CallIsOrdered, CommandsAreSingle, At, InCall
<1>2. CASE Later
  BY <1>2, MovesAreOrdered
<1>3. CASE World \/ TimePasses \/ MachineSleeps \/ UNCHANGED vars
  <2>1. UNCHANGED <<mode, call, issued>>
    BY <1>3 DEF World, WindowsTakes, SystemdTakes, JobDone, CommandFails, ServiceStops,
                RestartContinues, ServiceRuns, ServiceDies, LocalUser, WorldOnly,
                TimePasses, MachineSleeps, ClockOnly, vars
  <2>2. Elapsed \in Int /\ Elapsed' \in Int /\ Elapsed <= Elapsed'
    <3>1. CASE UNCHANGED vars
      BY <3>1 DEF vars, clockVars, ClocksOK, Elapsed
    <3>2. CASE Next
      BY <3>2, ClocksGoOn
    <3> QED BY <3>1, <3>2
  <2>3. \A c \in issued : c.at \in Int
    BY DEF ServiceTypeOK
  <2>4. \A c \in issued' : c.at <= Elapsed'
    BY <2>1, <2>2, <2>3 DEF CallIsOrdered
  <2>5. CommandsAreSingle' /\ (OnlyStops' <=> OnlyStops) /\ (HalfWay' <=> HalfWay)
    BY <2>1 DEF CallIsOrdered, CommandsAreSingle, OnlyStops, HalfWay
  <2> QED BY <2>1, <2>4, <2>5 DEF CallIsOrdered, At
<1> QED BY <1>1, <1>2, <1>3 DEF Next, Client, Later

(* The inductive invariant of a call's order. *)
OrderInv == ServiceTypeOK /\ ClocksOK /\ CallIsOrdered

LEMMA OrderInvariance ==
    /\ Init => OrderInv
    /\ OrderInv /\ [Next]_vars => OrderInv'
<1>1. Init => OrderInv
  <2> SUFFICES ASSUME Init PROVE CallIsOrdered
    BY BudgetInitially DEF BudgetInv, OrderInv
  <2> QED BY ServiceAssumption
          DEF Init, Idle, CallIsOrdered, CommandsAreSingle, At
<1>2. ASSUME OrderInv, [Next]_vars PROVE OrderInv'
  <2>1. ServiceTypeOK' /\ ClocksOK'
    <3>1. CASE Next
      BY <1>2, <3>1, TypesArePreserved, ClocksGoOn DEF OrderInv
    <3>2. CASE UNCHANGED vars
      BY <1>2, <3>2 DEF OrderInv, vars, clockVars, serviceVars, taskVars, ServiceTypeOK,
                        ClocksOK, Elapsed
    <3> QED BY <1>2, <3>1, <3>2
  <2> QED BY <1>2, <2>1, StepsAreOrdered DEF OrderInv
<1> QED BY <1>1, <1>2

(* One call of control_inner gives each command at most once: never two    *)
(* restarts, and a start after a stop only to restart a Windows service.   *)
THEOREM CommandsStaySingle == Spec => []CommandsAreSingle
<1>1. OrderInv => CommandsAreSingle
  BY DEF OrderInv, CallIsOrdered
<1> QED BY <1>1, OrderInvariance, PTL DEF Spec

(* The loops of control_inner, and the way from the stop to the start of a *)
(* restart, never lead back: every move of a call uses up one of those it  *)
(* has left, whatever the service manager and the local user do.           *)
THEOREM CallsAdvance == Spec => CallAdvances
<1>1. OrderInv /\ [Next]_vars =>
          [InCall /\ InCall' => MovesLeft(call') < MovesLeft(call)]_call
  BY StepsAreOrdered DEF OrderInv
<1> QED BY <1>1, OrderInvariance, PTL DEF Spec, CallAdvances

(* A call begins with at most seven stages of Polls + 1 moves.             *)
THEOREM CallsAreBounded == Spec => []CallIsBounded
<1>1. ASSUME OrderInv, InCall PROVE MovesLeft(call) \in 0 .. 7 * (Polls + 1)
  <2>1. call.polls \in 0..Polls /\ Polls \in Nat
    BY <1>1, ServiceAssumption DEF OrderInv, CallIsOrdered
  <2>2. call.phase \in Phases \ {"idle", "ended"}
    BY <1>1 DEF OrderInv, ServiceTypeOK, Calls, InCall
  <2>3. \/ PollsLeft(call) = 0 /\ Stage(call) \in {1, 2, 3, 5, 6, 7}
        \/ PollsLeft(call) = Polls - call.polls /\ Stage(call) \in {0, 4}
    BY <2>2, StageIs DEF Phases, PollsLeft
  <2> QED BY <2>1, <2>3 DEF MovesLeft
<1>2. OrderInv => CallIsBounded
  BY <1>1 DEF CallIsBounded
<1> QED BY <1>2, OrderInvariance, PTL DEF Spec

(***************************************************************************)
(* Induction, and what FlattenSeq, Min and Max of the community modules    *)
(* yield                                                                   *)
(***************************************************************************)

(* Induction over a set of numbers: the least one that is missing would    *)
(* have a predecessor.                                                     *)
LEMMA SetInduction ==
    ASSUME NEW T, 0 \in T, \A n \in Nat : n \in T => n + 1 \in T
    PROVE  Nat \subseteq T
<1> DEFINE missing == Nat \ T
           R == OpToRel(<, Nat)
<1>1. SUFFICES ASSUME missing # {} PROVE FALSE
  OBVIOUS
<1>2. IsWellFoundedOn(R, Nat)
  BY NatLessThanWellFounded
<1>3. \A a, b \in Nat : a < b => <<a, b>> \in R
  BY DEF OpToRel
<1> HIDE DEF R
<1>4. PICK x \in missing : \A y \in missing : ~(<<y, x>> \in R)
  <2>1. missing \subseteq Nat
    OBVIOUS
  <2> HIDE DEF missing
  <2> QED BY <1>1, <1>2, <2>1, WFMin
<1>5. x # 0 /\ x \in Nat /\ x - 1 \in Nat /\ x - 1 < x
  BY <1>4
<1>6. x - 1 \in T
  BY <1>3, <1>4, <1>5
<1> QED
  BY <1>4, <1>5, <1>6

(* g holds what the first n sequences are flattened to. *)
Flattening(g, seqs, n) ==
    g = [i \in 1..n |-> IF i = 1 THEN seqs[i] ELSE g[i-1] \o seqs[i]]

LEMMA FlatteningMeans ==
    ASSUME NEW g, NEW seqs, NEW n \in Nat, Flattening(g, seqs, n)
    PROVE  \A i \in 1..n : g[i] = IF i = 1 THEN seqs[1] ELSE g[i-1] \o seqs[i]
<1> DEFINE e == [i \in 1..n |-> IF i = 1 THEN seqs[i] ELSE g[i-1] \o seqs[i]]
<1>1. \A i \in 1..n : e[i] = IF i = 1 THEN seqs[1] ELSE g[i-1] \o seqs[i]
  OBVIOUS
<1>2. g = e
  BY DEF Flattening
<1> HIDE DEF e
<1> QED BY <1>1, <1>2

LEMMA FlatteningFrom ==
    ASSUME NEW seqs, NEW n \in Nat, NEW g, DOMAIN g = 1..n, g = [i \in 1..n |-> g[i]],
           \A i \in 1..n : g[i] = IF i = 1 THEN seqs[1] ELSE g[i-1] \o seqs[i]
    PROVE  Flattening(g, seqs, n)
<1> DEFINE e == [i \in 1..n |-> IF i = 1 THEN seqs[i] ELSE g[i-1] \o seqs[i]]
<1>1. \A i \in 1..n : g[i] = e[i]
  OBVIOUS
<1>2. DOMAIN e = 1..n /\ e = [i \in 1..n |-> e[i]]
  OBVIOUS
<1>3. g = e
  <2> HIDE DEF e
  <2> QED BY <1>1, <1>2
<1> QED BY <1>3 DEF Flattening

(* FlattenSeq defines the function it speaks of. *)
LEMMA FlatteningExists ==
    ASSUME NEW seqs, NEW n \in Nat
    PROVE  \E g : Flattening(g, seqs, n)
<1> DEFINE T == {k \in Nat : \E g : Flattening(g, seqs, k)}
<1>0. \A k : k \in T <=> k \in Nat /\ \E g : Flattening(g, seqs, k)
  BY Zenon
<1> HIDE DEF T
<1>1. 0 \in T
  <2> DEFINE g == [i \in 1..0 |-> 0]
  <2>1. DOMAIN g = 1..0 /\ g = [i \in 1..0 |-> g[i]] /\ \A i \in 1..0 : FALSE
    OBVIOUS
  <2> HIDE DEF g
  <2>2. Flattening(g, seqs, 0)
    BY <2>1, FlatteningFrom
  <2> QED BY <1>0, <2>2
<1>2. ASSUME NEW k \in Nat, k \in T
      PROVE  k + 1 \in T
  <2>1. PICK g : Flattening(g, seqs, k)
    BY <1>0, <1>2
  <2>2. \A i \in 1..k : g[i] = IF i = 1 THEN seqs[1] ELSE g[i-1] \o seqs[i]
    BY <2>1, FlatteningMeans
  <2> DEFINE last == IF k = 0 THEN seqs[1] ELSE g[k] \o seqs[k+1]
  <2>0. last = IF k = 0 THEN seqs[1] ELSE g[k] \o seqs[k+1]
    OBVIOUS
  <2> HIDE DEF last
  <2> DEFINE h == [i \in 1..(k+1) |-> IF i <= k THEN g[i] ELSE last]
  <2>3. /\ DOMAIN h = 1..(k+1) /\ h = [i \in 1..(k+1) |-> h[i]]
        /\ h[k + 1] = last
        /\ \A i \in 1..k : h[i] = g[i]
    <3>1. DOMAIN h = 1..(k+1)
      OBVIOUS
    <3>2. h[k + 1] = last
      OBVIOUS
    <3>3. \A i \in 1..k : h[i] = g[i]
      OBVIOUS
    <3>4. h = [i \in 1..(k+1) |-> h[i]]
      OBVIOUS
    <3> QED BY <3>1, <3>2, <3>3, <3>4
  <2> HIDE DEF h
  <2>4. ASSUME NEW i \in 1..(k+1)
        PROVE  h[i] = IF i = 1 THEN seqs[1] ELSE h[i-1] \o seqs[i]
    <3>1. CASE i = k + 1 /\ k = 0
      BY <2>0, <2>3, <3>1
    <3>2. CASE i = k + 1 /\ k # 0
      <4>1. k \in 1..k /\ i - 1 = k /\ i # 1
        BY <3>2
      <4>2. h[i - 1] = g[k]
        BY <2>3, <4>1
      <4> QED BY <2>0, <2>3, <3>2, <4>1, <4>2
    <3>3. CASE i # k + 1
      <4>1. i \in 1..k /\ (i = 1 \/ i - 1 \in 1..k)
        BY <3>3
      <4>2. h[i] = g[i] /\ (i # 1 => h[i - 1] = g[i - 1])
        BY <2>3, <4>1
      <4> QED BY <2>2, <4>1, <4>2
    <3> QED BY <3>1, <3>2, <3>3
  <2>5. k + 1 \in Nat
    OBVIOUS
  <2>6. Flattening(h, seqs, k + 1)
    BY <2>3, <2>4, <2>5, FlatteningFrom
  <2> QED BY <1>0, <2>5, <2>6
<1>3. n \in T
  BY <1>1, <1>2, SetInduction
<1> QED
  BY <1>0, <1>3

(* A set of sequences that holds the empty one and is closed under         *)
(* concatenation holds what a sequence of its members is flattened to.     *)
LEMMA FlattenedIn ==
    ASSUME NEW S, <<>> \in S, \A s, t \in S : s \o t \in S,
           NEW seqs \in Seq(S)
    PROVE  FlattenSeq(seqs) \in S
<1> DEFINE n == Len(seqs)
           f == CHOOSE g : Flattening(g, seqs, n)
<1>1. n \in Nat /\ \A i \in 1..n : seqs[i] \in S
  BY LenProperties, ElementOfSeq
<1>2. CASE n = 0
  BY <1>2, EmptySeq DEF FlattenSeq
<1>3. CASE n > 0
  <2>1. FlattenSeq(seqs) = f[n]
    BY <1>3 DEF FlattenSeq, Flattening
  <2>2. Flattening(f, seqs, n)
    BY <1>1, FlatteningExists
  <2> HIDE DEF f, n
  <2>3. \A i \in 1..n : f[i] = IF i = 1 THEN seqs[1] ELSE f[i-1] \o seqs[i]
    BY <1>1, <2>2, FlatteningMeans
  <2> DEFINE T == {k \in Nat : k \in 1..n => f[k] \in S}
  <2>4. 0 \in T
    OBVIOUS
  <2>5. ASSUME NEW k \in Nat, k \in T
        PROVE  k + 1 \in T
    <3>1. SUFFICES ASSUME k + 1 \in 1..n PROVE f[k + 1] \in S
      OBVIOUS
    <3>2. CASE k = 0
      BY <1>1, <2>3, <3>1, <3>2
    <3>3. CASE k > 0
      <4>1. k \in 1..n /\ k + 1 # 1 /\ (k + 1) - 1 = k
        BY <1>1, <3>1, <3>3
      <4>2. f[k] \in S /\ seqs[k + 1] \in S
        BY <1>1, <2>5, <3>1, <4>1
      <4>3. f[k + 1] = f[k] \o seqs[k + 1]
        BY <2>3, <3>1, <4>1
      <4> QED BY <4>2, <4>3
    <3> QED BY <3>2, <3>3
  <2>6. n \in T
    <3> HIDE DEF T
    <3> QED BY <1>1, <2>4, <2>5, SetInduction
  <2> QED BY <1>1, <1>3, <2>1, <2>6
<1> QED BY <1>1, <1>2, <1>3

(* The least and the greatest of a set of numbers exist. *)
LEMMA LeastExists ==
    ASSUME NEW S, S \subseteq Nat, S # {}
    PROVE  Min(S) \in S /\ \A y \in S : Min(S) <= y
<1> DEFINE R == OpToRel(<, Nat)
<1>1. IsWellFoundedOn(R, Nat)
  BY NatLessThanWellFounded
<1>2. \A a, b \in Nat : a < b => <<a, b>> \in R
  BY DEF OpToRel
<1> HIDE DEF R
<1>3. PICK x \in S : \A y \in S : ~(<<y, x>> \in R)
  BY <1>1, WFMin
<1>4. ASSUME NEW y \in S PROVE x <= y
  <2>1. x \in Nat /\ y \in Nat /\ ~(y < x)
    BY <1>2, <1>3
  <2> QED BY <2>1
<1> QED
  BY <1>4 DEF Min

LEMMA GreatestExists ==
    ASSUME NEW n \in Nat, NEW S, S \subseteq 0..n, S # {}
    PROVE  Max(S) \in S /\ \A y \in S : y <= Max(S)
<1> DEFINE T == {n - x : x \in S}
<1>1. T \subseteq Nat /\ T # {}
  <2>1. \A x \in S : n - x \in Nat
    OBVIOUS
  <2>2. PICK x \in S : TRUE
    OBVIOUS
  <2>3. n - x \in T
    OBVIOUS
  <2> QED BY <2>1, <2>3
<1>2. Min(T) \in T /\ \A y \in T : Min(T) <= y
  <2> HIDE DEF T
  <2> QED BY <1>1, LeastExists
<1>3. PICK x \in S : Min(T) = n - x
  BY <1>2
<1>4. \A y \in S : y <= x
  <2> SUFFICES ASSUME NEW y \in S PROVE y <= x
    OBVIOUS
  <2>1. n - y \in T
    OBVIOUS
  <2> HIDE DEF T
  <2> QED BY <1>2, <1>3, <2>1
<1>5. \A y \in S : x >= y
  BY <1>4
<1>6. Max(S) \in S /\ \A y \in S : Max(S) >= y
  BY <1>5 DEF Max
<1> QED
  BY <1>6

(***************************************************************************)
(* Texts                                                                   *)
(***************************************************************************)

(* What may leave the computer: whole characters and no secret. *)
Servable == {t \in Seq(Bytes) : WellCoded(t) /\ \A i \in DOMAIN t : t[i] # "secret"}

(* A part of a text. *)
LEMMA PartOf ==
    ASSUME NEW text \in Seq(Bytes), NEW m \in Nat, m > 0, NEW n \in Nat, n <= Len(text)
    PROVE  /\ SubSeq(text, m, n) \in Seq(Bytes)
           /\ Len(SubSeq(text, m, n)) = IF m <= n THEN n - m + 1 ELSE 0
           /\ \A i \in 1 .. n - m + 1 : SubSeq(text, m, n)[i] = text[m + i - 1]
<1>1. \A i \in m..n : text[i] \in Bytes
  BY ElementOfSeq, LenProperties
<1> QED BY <1>1, SubSeqProperties

LEMMA JoinedTexts ==
    ASSUME NEW s \in Seq(Bytes), NEW t \in Seq(Bytes), WellCoded(s), WellCoded(t)
    PROVE  s \o t \in Seq(Bytes) /\ WellCoded(s \o t)
<1> DEFINE r == s \o t
<1>1. /\ r \in Seq(Bytes) /\ DOMAIN r = 1..(Len(s) + Len(t))
      /\ DOMAIN s = 1..Len(s) /\ DOMAIN t = 1..Len(t) /\ Len(s) \in Nat /\ Len(t) \in Nat
      /\ \A i \in 1..(Len(s) + Len(t)) : r[i] = IF i <= Len(s) THEN s[i] ELSE t[i - Len(s)]
  BY ConcatProperties, LenProperties
<1> HIDE DEF r
<1>2. ASSUME NEW i \in DOMAIN r, r[i] = "tail"
      PROVE  i > 1 /\ r[i - 1] = "head"
  <2>1. CASE i <= Len(s)
    <3>1. i \in DOMAIN s /\ s[i] = "tail"
      BY <1>1, <1>2, <2>1
    <3>2. i > 1 /\ s[i - 1] = "head"
      BY <3>1 DEF WellCoded
    <3>3. i - 1 \in 1..(Len(s) + Len(t)) /\ i - 1 <= Len(s)
      BY <1>1, <2>1, <3>2
    <3> QED BY <1>1, <3>2, <3>3
  <2>2. CASE ~(i <= Len(s))
    <3>1. i - Len(s) \in DOMAIN t /\ t[i - Len(s)] = "tail"
      BY <1>1, <1>2, <2>2
    <3>2. i - Len(s) > 1 /\ t[(i - Len(s)) - 1] = "head"
      BY <3>1 DEF WellCoded
    <3>3. /\ i - 1 \in 1..(Len(s) + Len(t)) /\ ~(i - 1 <= Len(s)) /\ i > 1
          /\ (i - Len(s)) - 1 = (i - 1) - Len(s)
      BY <1>1, <2>2, <3>2
    <3> QED BY <1>1, <3>2, <3>3
  <2> QED BY <2>1, <2>2
<1>3. WellCoded(r)
  BY <1>2 DEF WellCoded
<1> QED BY <1>1, <1>3 DEF r

LEMMA JoinedMarks ==
    ASSUME NEW s \in Seq(Bytes), NEW t \in Seq(Bytes), Marked(s), Marked(t)
    PROVE  Marked(s \o t)
<1> DEFINE r == s \o t
           n == Len(s)
<1>1. /\ DOMAIN r = 1..(n + Len(t)) /\ DOMAIN s = 1..n /\ DOMAIN t = 1..Len(t)
      /\ n \in Nat /\ Len(t) \in Nat
      /\ \A i \in 1..(n + Len(t)) : r[i] = IF i <= n THEN s[i] ELSE t[i - n]
  BY ConcatProperties, LenProperties
<1> HIDE DEF r, n
<1>2. ASSUME NEW i \in DOMAIN r, r[i] = "secret"
      PROVE  \E j \in DOMAIN r :
                /\ r[j] = "marker"
                /\ \A k \in DOMAIN r :
                      r[k] = "newline" => ~(i < k /\ k < j) /\ ~(j < k /\ k < i)
  <2>1. CASE i <= n
    <3>1. i \in DOMAIN s /\ s[i] = "secret"
      BY <1>1, <1>2, <2>1
    <3>2. PICK j \in DOMAIN s :
              /\ s[j] = "marker"
              /\ \A k \in DOMAIN s :
                    s[k] = "newline" => ~(i < k /\ k < j) /\ ~(j < k /\ k < i)
      BY <3>1 DEF Marked
    <3>3. j \in DOMAIN r /\ r[j] = "marker"
      BY <1>1, <3>2
    <3>4. ASSUME NEW k \in DOMAIN r, r[k] = "newline", (i < k /\ k < j) \/ (j < k /\ k < i)
          PROVE  FALSE
      <4>1. k \in DOMAIN s /\ s[k] = "newline"
        BY <1>1, <3>1, <3>4
      <4> QED BY <3>2, <3>4, <4>1
    <3> QED BY <3>3, <3>4
  <2>2. CASE ~(i <= n)
    <3>1. i - n \in DOMAIN t /\ t[i - n] = "secret"
      BY <1>1, <1>2, <2>2
    <3>2. PICK j \in DOMAIN t :
              /\ t[j] = "marker"
              /\ \A k \in DOMAIN t :
                    t[k] = "newline" => ~(i - n < k /\ k < j) /\ ~(j < k /\ k < i - n)
      BY <3>1 DEF Marked
    <3>3. j + n \in DOMAIN r /\ r[j + n] = "marker"
      BY <1>1, <3>2
    <3>4. ASSUME NEW k \in DOMAIN r, r[k] = "newline",
                 (i < k /\ k < j + n) \/ (j + n < k /\ k < i)
          PROVE  FALSE
      <4>1. k - n \in DOMAIN t /\ t[k - n] = "newline"
        BY <1>1, <3>1, <3>2, <3>4
      <4>2. (i - n < k - n /\ k - n < j) \/ (j < k - n /\ k - n < i - n)
        BY <1>1, <3>1, <3>2, <3>4
      <4> QED BY <3>2, <4>1, <4>2
    <3> QED BY <3>3, <3>4
  <2> QED BY <2>1, <2>2
<1> QED BY <1>2 DEF Marked, r

(* What follows a newline is as sound as the text. *)
LEMMA AfterNewline ==
    ASSUME NEW text \in Seq(Bytes), WellCoded(text), Marked(text),
           NEW o \in DOMAIN text, text[o] = "newline",
           NEW rest \in Seq(Bytes), Len(rest) = Len(text) - o,
           \A i \in DOMAIN rest : rest[i] = text[o + i]
    PROVE  WellCoded(rest) /\ Marked(rest)
<1>1. /\ DOMAIN text = 1..Len(text) /\ DOMAIN rest = 1..Len(rest)
      /\ Len(text) \in Nat /\ Len(rest) \in Nat
  BY LenProperties
<1>2. ASSUME NEW i \in DOMAIN rest, rest[i] = "tail"
      PROVE  i > 1 /\ rest[i - 1] = "head"
  <2>1. o + i \in DOMAIN text /\ text[o + i] = "tail"
    BY <1>1, <1>2
  <2>2. text[(o + i) - 1] = "head"
    BY <2>1 DEF WellCoded
  <2>3. i # 1
    BY <1>1, <2>2
  <2>4. i - 1 \in DOMAIN rest /\ o + (i - 1) = (o + i) - 1 /\ i > 1
    BY <1>1, <2>3
  <2> QED BY <2>2, <2>4
<1>3. ASSUME NEW i \in DOMAIN rest, rest[i] = "secret"
      PROVE  \E j \in DOMAIN rest :
                /\ rest[j] = "marker"
                /\ \A k \in DOMAIN rest :
                      rest[k] = "newline" => ~(i < k /\ k < j) /\ ~(j < k /\ k < i)
  <2>1. o + i \in DOMAIN text /\ text[o + i] = "secret"
    BY <1>1, <1>3
  <2>2. PICK j \in DOMAIN text :
            /\ text[j] = "marker"
            /\ \A k \in DOMAIN text :
                  text[k] = "newline" => ~(o + i < k /\ k < j) /\ ~(j < k /\ k < o + i)
    BY <2>1 DEF Marked
  <2>3. j > o
    <3>1. ~(j < o /\ o < o + i)
      BY <2>2
    <3>2. j # o
      BY <2>2
    <3> QED BY <1>1, <3>1, <3>2
  <2>4. j - o \in DOMAIN rest /\ o + (j - o) = j
    BY <1>1, <2>3
  <2>5. ASSUME NEW k \in DOMAIN rest, rest[k] = "newline",
               (i < k /\ k < j - o) \/ (j - o < k /\ k < i)
        PROVE  FALSE
    <3>1. o + k \in DOMAIN text /\ text[o + k] = "newline"
      BY <1>1, <2>5
    <3>2. (o + i < o + k /\ o + k < j) \/ (j < o + k /\ o + k < o + i)
      BY <1>1, <2>5
    <3> QED BY <2>2, <3>1, <3>2
  <2> QED BY <2>2, <2>4, <2>5
<1> QED BY <1>2, <1>3 DEF WellCoded, Marked

(* Nothing to see in an empty text. *)
LEMMA EmptyText == <<>> \in Seq(Bytes) /\ WellCoded(<<>>) /\ Marked(<<>>) /\ <<>> \in Servable
<1>1. <<>> \in Seq(Bytes) /\ \A i \in DOMAIN <<>> : FALSE
  OBVIOUS
<1> QED BY <1>1, Zenon DEF WellCoded, Marked, Servable

(***************************************************************************)
(* The window, its lines and its pages                                     *)
(***************************************************************************)

LEMMA WindowIsSound ==
    ASSUME NEW text \in Seq(Bytes), WellCoded(text), Marked(text)
    PROVE  /\ Retained(text) \in Seq(Bytes)
           /\ WellCoded(Retained(text)) /\ Marked(Retained(text))
<1>1. CASE ~(Len(text) > Window)
  BY <1>1 DEF Retained
<1>2. CASE Len(text) > Window
  <2> DEFINE from == Len(text) - Window + 1
             window == SubSeq(text, from, Len(text))
             line == Min(Ends(window))
             rest == SubSeq(window, line + 1, Len(window))
  <2>1. Len(text) \in Nat /\ Window \in Nat /\ Window > 0 /\ DOMAIN text = 1..Len(text)
    BY LenProperties, LogAssumption
  <2>2. from \in Nat /\ from > 0 /\ Len(text) - from + 1 = Window
    BY <1>2, <2>1
  <2>3. /\ window \in Seq(Bytes) /\ Len(window) = Window /\ DOMAIN window = 1..Window
        /\ \A i \in 1..Window : window[i] = text[from + i - 1]
    <3> HIDE DEF from
    <3>1. /\ window \in Seq(Bytes) /\ Len(window) = Window
          /\ \A i \in 1..Window : window[i] = text[from + i - 1]
      BY <2>1, <2>2, PartOf
    <3> QED BY <3>1, LenProperties
  <2>4. Retained(text) = rest
    BY <1>2 DEF Retained, Cut
  <2> HIDE DEF window, from
  <2>5. Ends(window) \subseteq Nat /\ Window \in Ends(window)
    BY <2>1, <2>3 DEF Ends
  <2>6. line \in Ends(window)
    BY <2>5, LeastExists
  <2>7. line \in 1..Window /\ (window[line] = "newline" \/ line = Window)
    BY <2>3, <2>6 DEF Ends
  <2> HIDE DEF line
  <2>8. /\ rest \in Seq(Bytes) /\ Len(rest) = Window - line
        /\ \A i \in 1..(Window - line) : rest[i] = window[line + i]
    <3>1. line + 1 \in Nat /\ line + 1 > 0 /\ Window - (line + 1) + 1 = Window - line
      BY <2>1, <2>7
    <3>2. /\ rest \in Seq(Bytes)
          /\ Len(rest) = IF line + 1 <= Window THEN Window - (line + 1) + 1 ELSE 0
          /\ \A i \in 1 .. Window - (line + 1) + 1 : rest[i] = window[(line + 1) + i - 1]
      BY <2>1, <2>3, <3>1, PartOf
    <3>3. Len(rest) = Window - line
      BY <2>1, <2>7, <3>1, <3>2
    <3>4. \A i \in 1..(Window - line) : (line + 1) + i - 1 = line + i
      BY <2>1, <2>7
    <3> QED BY <3>1, <3>2, <3>3, <3>4
  <2>9. DOMAIN rest = 1..(Window - line)
    BY <2>8, LenProperties
  <2> HIDE DEF rest
  <2>10. CASE line = Window
    <3>1. rest = <<>>
      BY <2>1, <2>8, <2>10, EmptySeq
    <3> QED BY <2>4, <3>1, EmptyText
  <2>11. CASE line # Window
    <3> DEFINE o == Len(text) - Window + line
    <3>1. o \in DOMAIN text /\ o = from + line - 1
      BY <1>2, <2>1, <2>7 DEF from
    <3>2. text[o] = "newline"
      BY <2>3, <2>7, <2>11, <3>1
    <3>3. Len(rest) = Len(text) - o
      BY <2>1, <2>7, <2>8
    <3>4. ASSUME NEW i \in DOMAIN rest PROVE rest[i] = text[o + i]
      <4>1. i \in 1..(Window - line) /\ line + i \in 1..Window
        BY <2>1, <2>7, <2>9
      <4>2. from + (line + i) - 1 = o + i
        BY <2>1, <2>7, <4>1 DEF from
      <4> QED BY <2>3, <2>8, <4>1, <4>2
    <3> HIDE DEF o
    <3> QED BY <2>4, <2>8, <3>1, <3>2, <3>3, <3>4, AfterNewline
  <2> QED BY <2>10, <2>11
<1> QED BY <1>1, <1>2

(* A line begins after a newline, or with the text, and has none inside.   *)
LEMMA LineBegins ==
    ASSUME NEW text \in Seq(Bytes), NEW end \in Ends(text)
    PROVE  /\ end \in 1..Len(text) /\ Len(text) \in Nat
           /\ text[end] = "newline" \/ end = Len(text)
           /\ LineStart(text, end) \in 1..end
           /\ LineStart(text, end) = 1 \/ text[LineStart(text, end) - 1] = "newline"
<1> DEFINE S == {0} \union {i \in Ends(text) : i < end}
<1>1. end \in 1..Len(text) /\ Len(text) \in Nat /\ (text[end] = "newline" \/ end = Len(text))
  BY LenProperties DEF Ends
<1>2. Ends(text) \subseteq 1..Len(text)
  BY LenProperties DEF Ends
<1>3. S \subseteq 0..(end - 1) /\ S # {} /\ end - 1 \in Nat
  BY <1>1, <1>2
<1>4. Max(S) \in S
  <2> HIDE DEF S
  <2> QED BY <1>3, GreatestExists
<1>5. LineStart(text, end) = 1 + Max(S)
  BY DEF LineStart
<1>6. Max(S) \in 0..(end - 1)
  BY <1>3, <1>4
<1>7. Max(S) # 0 => text[Max(S)] = "newline"
  BY <1>1, <1>4 DEF Ends
<1> HIDE DEF S
<1>8. 1 + Max(S) \in 1..end /\ (1 + Max(S)) - 1 = Max(S) /\ (1 + Max(S) = 1 <=> Max(S) = 0)
  BY <1>1, <1>6
<1> QED BY <1>1, <1>5, <1>7, <1>8

(* A line is withheld, or has whole characters and no secret. *)
LEMMA ShownIsServable ==
    ASSUME NEW text \in Seq(Bytes), WellCoded(text), Marked(text), NEW end \in Ends(text)
    PROVE  Shown(Line(text, end)) \in Servable
<1> DEFINE line == Line(text, end)
<1>0. PICK a \in Nat : a = LineStart(text, end)
  BY LineBegins
<1>1. /\ end \in Nat /\ end <= Len(text) /\ Len(text) \in Nat
      /\ DOMAIN text = 1..Len(text)
      /\ 1 <= a /\ a <= end
  BY <1>0, LineBegins, LenProperties
<1>8. text[end] = "newline" \/ end = Len(text)
  BY LineBegins
<1>9. a = 1 \/ text[a - 1] = "newline"
  BY <1>0, LineBegins
<1>2. /\ line \in Seq(Bytes) /\ Len(line) = end - a + 1
      /\ \A i \in 1..(end - a + 1) : line[i] = text[a + i - 1]
  <2>1. line = SubSeq(text, a, end)
    BY <1>0 DEF Line
  <2>2. a > 0
    BY <1>1
  <2> HIDE DEF line
  <2> QED BY <1>1, <2>1, <2>2, PartOf
<1>3. DOMAIN line = 1..(end - a + 1)
  BY <1>2, LenProperties
<1> HIDE DEF line
<1>4. ASSUME NEW i \in DOMAIN line, line[i] = "tail"
      PROVE  i > 1 /\ line[i - 1] = "head"
  <2>0. i \in 1..(end - a + 1)
    BY <1>3
  <2>1. a + i - 1 \in DOMAIN text /\ text[a + i - 1] = "tail"
    BY <1>1, <1>2, <1>4, <2>0
  <2>2. a + i - 1 > 1 /\ text[(a + i - 1) - 1] = "head"
    BY <2>1 DEF WellCoded
  <2>3. ASSUME i = 1 PROVE FALSE
    <3>1. (a + i - 1) - 1 = a - 1 /\ (a + i - 1 > 1 => a # 1)
      BY <2>3
    <3> QED BY <1>9, <2>2, <3>1
  <2>4. i - 1 \in 1..(end - a + 1) /\ i > 1 /\ a + (i - 1) - 1 = (a + i - 1) - 1
    BY <1>1, <2>0, <2>3
  <2> QED BY <1>2, <2>2, <2>4
<1>5. ASSUME ~Sensitive(line), NEW i \in DOMAIN line, line[i] = "secret"
      PROVE  FALSE
  <2> DEFINE p == a + i - 1
  <2>0. i \in 1..(end - a + 1)
    BY <1>3
  <2>6. p \in Nat /\ p \in 1..Len(text) /\ a <= p /\ p <= end
    BY <1>1, <2>0
  <2>7. line[i] = text[p]
    BY <1>2, <2>0
  <2> HIDE DEF p
  <2>1. p \in DOMAIN text /\ text[p] = "secret"
    BY <1>1, <1>5, <2>6, <2>7
  <2>2. PICK j \in DOMAIN text :
            /\ text[j] = "marker"
            /\ \A k \in DOMAIN text :
                  text[k] = "newline" => ~(p < k /\ k < j) /\ ~(j < k /\ k < p)
    BY <2>1 DEF Marked
  <2>3. CASE j < a
    <3>1. j \in 1..Len(text)
      BY <1>1
    <3>2. a # 1 /\ a - 1 \in DOMAIN text /\ a - 1 < p /\ (j # a - 1 => j < a - 1)
      BY <1>1, <2>3, <2>6, <3>1
    <3>3. text[a - 1] = "newline" /\ j # a - 1
      BY <1>9, <2>2, <3>2
    <3> QED BY <2>2, <3>2, <3>3
  <2>4. CASE j > end
    <3>1. j \in 1..Len(text)
      BY <1>1
    <3>4. end # Len(text)
      <4>1. j <= Len(text) /\ j \in Nat /\ end \in Nat
        BY <1>1, <3>1
      <4> SUFFICES ASSUME end = Len(text) PROVE FALSE
        OBVIOUS
      <4>2. j <= end
        BY <4>1
      <4> QED BY <2>4, <4>1, <4>2
    <3>5. end \in DOMAIN text
      BY <1>1
    <3>6. p # end => p < end
      BY <1>1, <2>6
    <3>2. end # Len(text) /\ end \in DOMAIN text /\ (p # end => p < end)
      BY <3>4, <3>5, <3>6
    <3>3. text[end] = "newline" /\ p # end
      BY <1>8, <2>1, <3>2
    <3> QED BY <2>2, <2>4, <3>2, <3>3
  <2>5. CASE a <= j /\ j <= end
    <3>1. j - a + 1 \in 1..(end - a + 1) /\ a + (j - a + 1) - 1 = j
      BY <1>1, <2>5
    <3>2. line[j - a + 1] = "marker"
      BY <1>2, <2>2, <3>1
    <3> QED BY <1>3, <1>5, <3>1, <3>2 DEF Sensitive
  <2> QED BY <1>1, <2>3, <2>4, <2>5
<1>6. CASE ~Sensitive(line)
  <2>1. Shown(line) = line
    BY <1>6 DEF Shown
  <2> QED BY <1>2, <1>4, <1>5, <1>6, <2>1 DEF Servable, WellCoded, line
<1>7. CASE Sensitive(line)
  <2> DEFINE w == <<"withheld", "newline">>
  <2>1. /\ w \in Seq(Bytes) /\ DOMAIN w = 1..2
        /\ w[1] = "withheld" /\ w[2] = "newline"
    BY DEF Bytes
  <2>2. Shown(line) = w
    BY <1>7 DEF Shown
  <2> HIDE DEF w
  <2>3. \A i \in DOMAIN w : w[i] # "tail" /\ w[i] # "secret"
    BY <2>1
  <2> QED BY <2>1, <2>2, <2>3 DEF Servable, WellCoded, line
<1> QED BY <1>6, <1>7

LEMMA RedactedIsServable ==
    ASSUME NEW text \in Seq(Bytes), WellCoded(text), Marked(text)
    PROVE  Redacted(text) \in Servable
<1> DEFINE shown == [i \in DOMAIN text |->
                        IF i \in Ends(text) THEN Shown(Line(text, i)) ELSE <<>>]
<1>1. \A i \in DOMAIN text : shown[i] \in Servable
  BY ShownIsServable, EmptyText
<1>2. DOMAIN text = 1..Len(text) /\ Len(text) \in Nat
  BY LenProperties
<1>3. shown \in [1..Len(text) -> Servable]
  BY <1>1, <1>2
<1> HIDE DEF shown
<1>4. shown \in Seq(Servable)
  BY <1>2, <1>3, SeqDef
<1>5. \A s, t \in Servable : s \o t \in Servable
  <2> SUFFICES ASSUME NEW s \in Servable, NEW t \in Servable
               PROVE  s \o t \in Servable
    OBVIOUS
  <2>1. s \o t \in Seq(Bytes) /\ WellCoded(s \o t)
    BY JoinedTexts DEF Servable
  <2>2. \A i \in DOMAIN (s \o t) : (s \o t)[i] # "secret"
    <3>1. /\ DOMAIN (s \o t) = 1..(Len(s) + Len(t))
          /\ DOMAIN s = 1..Len(s) /\ DOMAIN t = 1..Len(t) /\ Len(s) \in Nat /\ Len(t) \in Nat
          /\ \A i \in 1..(Len(s) + Len(t)) :
                (s \o t)[i] = IF i <= Len(s) THEN s[i] ELSE t[i - Len(s)]
      BY <2>1, ConcatProperties, LenProperties DEF Servable
    <3>2. \A i \in 1..(Len(s) + Len(t)) :
              i \in 1..Len(s) \/ (~(i <= Len(s)) /\ i - Len(s) \in 1..Len(t))
      BY <3>1
    <3>3. (\A i \in DOMAIN s : s[i] # "secret") /\ (\A i \in DOMAIN t : t[i] # "secret")
      BY DEF Servable
    <3> QED BY <3>1, <3>2, <3>3
  <2> QED BY <2>1, <2>2 DEF Servable
<1>6. FlattenSeq(shown) \in Servable
  BY <1>4, <1>5, EmptyText, FlattenedIn
<1> QED BY <1>6 DEF Redacted, shown

(* A page ends where it is asked to, if that is between two characters,    *)
(* begins between two characters, and has room for one if its limit has.   *)
LEMMA PageIsWhole ==
    ASSUME NEW text \in Servable, NEW limit \in Nat, NEW before \in 0..Len(text),
           before = 0 \/ Boundary(text, before)
    PROVE  LET page == Page(text, limit, before) IN
           /\ page.start \in 0..before
           /\ page.start = 0 \/ Boundary(text, page.start)
           /\ page.text = SubSeq(text, page.start + 1, before)
           /\ limit > 1 /\ before > 0 => page.start < before
<1> DEFINE a == IF before > limit THEN before - limit ELSE 0
           start == RoundedUp(text, a, before)
<1>1. /\ text \in Seq(Bytes) /\ Len(text) \in Nat /\ DOMAIN text = 1..Len(text)
      /\ WellCoded(text)
  BY LenProperties DEF Servable
<1>2. RoundedDown(text, before) = before
  <2>1. \A i \in 0..before :
            (/\ i = 0 \/ Boundary(text, i)
             /\ \A j \in i + 1 .. before : ~Boundary(text, j)) => i = before
    <3> SUFFICES ASSUME NEW i \in 0..before, i # before, ~Boundary(text, before),
                        before # 0
                 PROVE  FALSE
      BY <1>1
    <3> QED OBVIOUS
  <2>2. /\ before \in 0..before
        /\ before = 0 \/ Boundary(text, before)
        /\ \A j \in before + 1 .. before : ~Boundary(text, j)
    BY <1>1
  <2> QED BY <2>1, <2>2 DEF RoundedDown
<1>3. /\ a \in Nat /\ a \in 0..before /\ before \in Nat /\ before <= Len(text)
      /\ limit > 1 /\ before > 0 => a = 0 \/ a + 1 < before
  BY <1>1
<1> HIDE DEF a
<1>4. a < before /\ ~Boundary(text, a) => Boundary(text, a + 1) /\ a > 0
  <2> SUFFICES ASSUME a < before, ~Boundary(text, a)
               PROVE  Boundary(text, a + 1) /\ a > 0
    OBVIOUS
  <2>1. a + 1 \in DOMAIN text /\ text[a + 1] = "tail"
    <3>1. a + 1 \in DOMAIN text
      BY <1>1, <1>3
    <3>2. text[a + 1] = "tail"
      BY DEF Boundary
    <3> QED BY <3>1, <3>2
  <2>2. a + 1 > 1 /\ text[(a + 1) - 1] = "head"
    BY <1>1, <2>1 DEF WellCoded
  <2>3. CASE a + 1 = Len(text)
    BY <1>3, <2>2, <2>3 DEF Boundary
  <2>4. CASE a + 1 # Len(text) /\ text[(a + 1) + 1] = "tail"
    <3>4. a < before /\ before <= Len(text) /\ before \in Nat /\ a \in Nat
      BY <1>3
    <3>5. a + 1 # Len(text)
      BY <2>4
    <3>6. PICK n \in Nat : n = Len(text)
      BY <1>1
    <3>7. a + 1 # n /\ a < n
      BY <3>4, <3>5, <3>6
    <3>8. (a + 1) + 1 \in 1..n /\ ((a + 1) + 1) - 1 = a + 1
      BY <3>4, <3>7
    <3>1. (a + 1) + 1 \in DOMAIN text /\ ((a + 1) + 1) - 1 = a + 1
      BY <1>1, <3>6, <3>8
    <3>2. text[a + 1] = "head"
      BY <1>1, <2>4, <3>1 DEF WellCoded
    <3> QED BY <2>1, <3>2
  <2>5. CASE text[(a + 1) + 1] # "tail"
    BY <1>3, <2>2, <2>5 DEF Boundary
  <2> QED BY <2>3, <2>4, <2>5
<1>5. \E i \in a..before :
          /\ i = before \/ Boundary(text, i)
          /\ \A j \in a .. i - 1 : ~Boundary(text, j)
  <2>1. CASE a = before \/ Boundary(text, a)
    BY <1>3, <2>1
  <2>2. CASE a # before /\ ~Boundary(text, a)
    <3>1. a + 1 \in a..before /\ Boundary(text, a + 1) /\ \A j \in a..(a + 1) - 1 : j = a
      BY <1>3, <1>4, <2>2
    <3> QED BY <2>2, <3>1
  <2> QED BY <2>1, <2>2
<1>6. /\ start \in a..before
      /\ start = before \/ Boundary(text, start)
      /\ \A j \in a .. start - 1 : ~Boundary(text, j)
  BY <1>5 DEF RoundedUp
<1> HIDE DEF start
<1>7. start \in 0..before /\ (start = 0 \/ Boundary(text, start))
  BY <1>3, <1>6
<1>8. limit > 1 /\ before > 0 => start < before
  <2> SUFFICES ASSUME limit > 1, before > 0, start = before PROVE FALSE
    BY <1>7
  <2>1. CASE a = 0
    <3>1. a \in a..start - 1
      BY <2>1, <1>7
    <3>2. ~Boundary(text, a)
      BY <1>6, <3>1
    <3> QED BY <1>4, <2>1, <3>2
  <2>2. CASE a # 0 /\ a + 1 < before
    <3>1. a \in a..start - 1 /\ a + 1 \in a..start - 1 /\ a < before
      BY <1>3, <2>2
    <3> QED BY <1>4, <1>6, <3>1
  <2> QED BY <1>3, <2>1, <2>2
<1>9. Page(text, limit, before) = [start |-> start, text |-> SubSeq(text, start + 1, before)]
  BY <1>2 DEF Page, start, a
<1> QED BY <1>7, <1>8, <1>9

(***************************************************************************)
(* What someone reads                                                      *)
(***************************************************************************)

(* Sunshine and the adapter hold only well-coded texts in which a secret   *)
(* is given away on its own line; the reader holds the end of one redacted *)
(* version from a character's first byte on.                               *)
LogInv ==
    /\ log \in Seq(Bytes) /\ WellCoded(log) /\ Marked(log)
    /\ kept # <<>> => kept[1] \in Seq(Bytes) /\ WellCoded(kept[1]) /\ Marked(kept[1])
    /\ reader \in [revision : Servable, before : Nat, text : Seq(Bytes)]
    /\ reader.before <= Len(reader.revision)
    /\ reader.before = 0 \/ Boundary(reader.revision, reader.before)
    /\ reader.text = SubSeq(reader.revision, reader.before + 1, Len(reader.revision))

(* The end of a text, byte by byte; and it grows by what comes before it.  *)
LEMMA EndOf ==
    ASSUME NEW text \in Seq(Bytes), NEW b \in 0..Len(text)
    PROVE  LET end == SubSeq(text, b + 1, Len(text)) IN
           /\ end \in Seq(Bytes) /\ Len(end) = Len(text) - b /\ DOMAIN end = 1..(Len(text) - b)
           /\ \A i \in 1..(Len(text) - b) : end[i] = text[b + i]
<1> DEFINE end == SubSeq(text, b + 1, Len(text))
<1>1. Len(text) \in Nat /\ b \in Nat /\ b <= Len(text)
  BY LenProperties
<1>2. b + 1 \in Nat /\ b + 1 > 0 /\ Len(text) - (b + 1) + 1 = Len(text) - b
  BY <1>1
<1>3. /\ end \in Seq(Bytes)
      /\ Len(end) = IF b + 1 <= Len(text) THEN Len(text) - (b + 1) + 1 ELSE 0
      /\ \A i \in 1 .. Len(text) - (b + 1) + 1 : end[i] = text[(b + 1) + i - 1]
  BY <1>1, <1>2, PartOf
<1> HIDE DEF end
<1>4. Len(end) = Len(text) - b
  BY <1>1, <1>3
<1>5. \A i \in 1..(Len(text) - b) : (b + 1) + i - 1 = b + i
  BY <1>1
<1>6. DOMAIN end = 1..Len(end)
  BY <1>3, LenProperties
<1> QED BY <1>2, <1>3, <1>4, <1>5, <1>6 DEF end

LEMMA EndGrows ==
    ASSUME NEW text \in Seq(Bytes), NEW b \in 0..Len(text), NEW s \in 0..b
    PROVE  SubSeq(text, s + 1, b) \o SubSeq(text, b + 1, Len(text))
               = SubSeq(text, s + 1, Len(text))
<1> DEFINE part == SubSeq(text, s + 1, b)
           end == SubSeq(text, b + 1, Len(text))
           whole == SubSeq(text, s + 1, Len(text))
<1>1. Len(text) \in Nat /\ b \in Nat /\ b <= Len(text) /\ s \in Nat /\ s <= b
  BY LenProperties
<1>2. /\ end \in Seq(Bytes) /\ Len(end) = Len(text) - b
      /\ \A i \in 1..(Len(text) - b) : end[i] = text[b + i]
  BY EndOf
<1>3. /\ whole \in Seq(Bytes) /\ Len(whole) = Len(text) - s
      /\ \A i \in 1..(Len(text) - s) : whole[i] = text[s + i]
  <2>1. s \in 0..Len(text)
    BY <1>1
  <2> QED BY <2>1, EndOf
<1>4. s + 1 \in Nat /\ s + 1 > 0 /\ b - (s + 1) + 1 = b - s
  BY <1>1
<1>5. /\ part \in Seq(Bytes)
      /\ Len(part) = IF s + 1 <= b THEN b - (s + 1) + 1 ELSE 0
      /\ \A i \in 1 .. b - (s + 1) + 1 : part[i] = text[(s + 1) + i - 1]
  BY <1>1, <1>4, PartOf
<1> HIDE DEF part, end, whole
<1>6. Len(part) = b - s
  BY <1>1, <1>5
<1>7. ASSUME NEW i \in 1..(b - s) PROVE part[i] = text[s + i]
  <2>1. (s + 1) + i - 1 = s + i
    BY <1>1
  <2> QED BY <1>4, <1>5, <2>1
<1>8. /\ part \o end \in Seq(Bytes) /\ Len(part \o end) = Len(text) - s
      /\ \A i \in 1..(Len(text) - s) :
            (part \o end)[i] = IF i <= b - s THEN part[i] ELSE end[i - (b - s)]
  <2>1. /\ part \o end \in Seq(Bytes) /\ Len(part \o end) = Len(part) + Len(end)
        /\ \A i \in 1..(Len(part) + Len(end)) :
              (part \o end)[i] = IF i <= Len(part) THEN part[i] ELSE end[i - Len(part)]
    BY <1>2, <1>5, ConcatProperties
  <2>2. (b - s) + (Len(text) - b) = Len(text) - s
    BY <1>1
  <2> QED BY <1>2, <1>6, <2>1, <2>2
<1>9. ASSUME NEW i \in 1..(Len(text) - s) PROVE (part \o end)[i] = whole[i]
  <2>1. CASE i <= b - s
    <3>1. i \in 1..(b - s)
      BY <1>1, <2>1
    <3> QED BY <1>3, <1>7, <1>8, <2>1, <3>1
  <2>2. CASE ~(i <= b - s)
    <3>1. i - (b - s) \in 1..(Len(text) - b) /\ b + (i - (b - s)) = s + i
      BY <1>1, <2>2
    <3>2. (part \o end)[i] = end[i - (b - s)]
      BY <1>8, <2>2
    <3> QED BY <1>2, <1>3, <3>1, <3>2
  <2> QED BY <2>1, <2>2
<1>10. part \o end = whole
  BY <1>3, <1>8, <1>9, SeqEqual
<1> QED BY <1>10 DEF part, end, whole

(* Nothing is written, kept or read at first. *)
LEMMA LogInitially == LogInit => LogInv
<1> SUFFICES ASSUME LogInit PROVE LogInv
  OBVIOUS
<1>1. log = <<>> /\ kept = <<>> /\ reader = Nothing
  BY DEF LogInit
<1>2. reader = [revision |-> <<>>, before |-> 0, text |-> <<>>]
  BY <1>1 DEF Nothing
<1>3. SubSeq(<<>>, 0 + 1, Len(<<>>)) = <<>> /\ 0 <= Len(<<>>)
  OBVIOUS
<1>4. reader \in [revision : Servable, before : Nat, text : Seq(Bytes)]
  BY <1>2, EmptyText
<1> QED BY <1>1, <1>2, <1>3, <1>4, EmptyText DEF LogInv

(* The last page of what can be served, and the page before what was read. *)
LEMMA LatestIsRead ==
    ASSUME LogInv, NEW limit \in PageLimits, ReadLatest(limit)
    PROVE  LogInv'
<1> DEFINE window == Retained(log)
           text == Redacted(window)
           page == Page(text, limit, Len(text))
<1>1. window \in Seq(Bytes) /\ WellCoded(window) /\ Marked(window)
  BY WindowIsSound DEF LogInv
<1>2. text \in Servable
  <2> HIDE DEF window
  <2> QED BY <1>1, RedactedIsServable
<1>3. /\ kept' = <<window>> /\ log' = log
      /\ reader' = reader
         \/ reader' = [revision |-> text, before |-> page.start, text |-> page.text]
  BY DEF ReadLatest
<1>4. kept'[1] = window
  BY <1>3
<1> HIDE DEF text, window
<1>5. text \in Seq(Bytes) /\ Len(text) \in Nat /\ Len(text) \in 0..Len(text)
  BY <1>2, LenProperties DEF Servable
<1>6. /\ page.start \in 0..Len(text)
      /\ page.start = 0 \/ Boundary(text, page.start)
      /\ page.text = SubSeq(text, page.start + 1, Len(text))
  BY <1>2, <1>5, PageIsWhole, LogAssumption DEF Boundary
<1> HIDE DEF page
<1>7. page.text \in Seq(Bytes)
  BY <1>5, <1>6, EndOf
<1>8. CASE reader' = reader
  BY <1>1, <1>3, <1>4, <1>8 DEF LogInv
<1>9. CASE reader' = [revision |-> text, before |-> page.start, text |-> page.text]
  <2>1. /\ reader'.revision = text /\ reader'.before = page.start /\ reader'.text = page.text
        /\ reader' \in [revision : Servable, before : Nat, text : Seq(Bytes)]
    <3>1. page.start \in Nat
      BY <1>6
    <3> QED BY <1>2, <1>7, <1>9, <3>1, Zenon
  <2>2. reader'.before <= Len(text)
    BY <1>5, <1>6, <2>1
  <2> QED BY <1>1, <1>3, <1>4, <1>6, <2>1, <2>2 DEF LogInv
<1> QED BY <1>3, <1>8, <1>9

(* An older page, of the version the cursor names, ends where the pages    *)
(* read so far begin.                                                      *)
LEMMA OlderIsRead ==
    ASSUME LogInv, NEW limit \in PageLimits, ReadOlder(limit)
    PROVE  LogInv'
<1> DEFINE text == Redacted(kept[1])
           b == reader.before
           page == Page(text, limit, b)
<1>1. /\ text = reader.revision /\ log' = log /\ kept' = kept
      /\ reader' = [reader EXCEPT !.before = page.start, !.text = page.text \o @]
  BY DEF ReadOlder, Current
<1>2. /\ reader \in [revision : Servable, before : Nat, text : Seq(Bytes)]
      /\ b <= Len(reader.revision)
      /\ b = 0 \/ Boundary(reader.revision, b)
      /\ reader.text = SubSeq(reader.revision, b + 1, Len(reader.revision))
  BY DEF LogInv
<1> HIDE DEF text
<1>3. text \in Servable /\ text \in Seq(Bytes) /\ Len(text) \in Nat /\ b \in Nat
  <2>1. text \in Servable /\ b \in Nat
    BY <1>1, <1>2
  <2> QED BY <2>1, LenProperties DEF Servable
<1> HIDE DEF b
<1>4. b \in 0..Len(text)
  BY <1>1, <1>2, <1>3
<1>5. /\ page.start \in 0..b
      /\ page.start = 0 \/ Boundary(text, page.start)
      /\ page.text = SubSeq(text, page.start + 1, b)
  <2>1. limit \in Nat /\ (b = 0 \/ Boundary(text, b))
    BY <1>1, <1>2, LogAssumption
  <2> QED BY <1>3, <1>4, <2>1, PageIsWhole
<1> HIDE DEF page
<1>6. page.start \in 0..Len(text) /\ page.start \in Nat /\ page.start <= Len(text)
  BY <1>3, <1>4, <1>5
<1>7. page.text \o reader.text = SubSeq(text, page.start + 1, Len(text))
  BY <1>1, <1>2, <1>3, <1>4, <1>5, EndGrows
<1>8. page.text \o reader.text \in Seq(Bytes)
  BY <1>3, <1>6, <1>7, EndOf
<1>9. /\ reader'.revision = text /\ reader'.before = page.start
      /\ reader'.text = page.text \o reader.text
      /\ reader' \in [revision : Servable, before : Nat, text : Seq(Bytes)]
  BY <1>1, <1>2, <1>6, <1>8
<1> QED BY <1>1, <1>5, <1>6, <1>7, <1>9 DEF LogInv

(* Reading, forgetting and writing keep the invariant. *)
LEMMA LogInvIsKept == LogInv /\ [LogNext]_logVars => LogInv'
<1> SUFFICES ASSUME LogInv, [LogNext]_logVars PROVE LogInv'
  OBVIOUS
<1>1. ASSUME NEW limit \in PageLimits, ReadLatest(limit) PROVE LogInv'
  BY <1>1, LatestIsRead
<1>2. ASSUME NEW limit \in PageLimits, ReadOlder(limit) PROVE LogInv'
  BY <1>2, OlderIsRead
<1>3. ASSUME Forget PROVE LogInv'
  BY <1>3 DEF Forget, LogInv
<1>4. ASSUME NEW line \in LogLines, Write(line) PROVE LogInv'
  <2>1. line \in Seq(Bytes) /\ WellCoded(line) /\ Marked(line)
    BY LogAssumption
  <2>2. log \o line \in Seq(Bytes) /\ WellCoded(log \o line) /\ Marked(log \o line)
    BY <2>1, JoinedTexts, JoinedMarks DEF LogInv
  <2>3. (log' = log \o line \/ log' = line) /\ kept' = kept /\ reader' = reader
    BY <1>4 DEF Write
  <2>4. log' \in Seq(Bytes) /\ WellCoded(log') /\ Marked(log')
    BY <2>1, <2>2, <2>3
  <2> QED BY <2>3, <2>4 DEF LogInv
<1>5. CASE UNCHANGED logVars
  BY <1>5 DEF LogInv, logVars
<1> QED BY <1>1, <1>2, <1>3, <1>4, <1>5 DEF LogNext

(* At any time a reader has the end of one redacted version of the log,    *)
(* and the adapter the window of a text in which secrets are marked.       *)
THEOREM LogInvHolds == LogSpec => []LogInv
  BY LogInitially, LogInvIsKept, PTL DEF LogSpec

(* The end of a well-coded text begins with a whole character. *)
LEMMA InvIsContiguous == LogInv => PagesAreContiguous
<1> SUFFICES ASSUME LogInv PROVE PagesAreContiguous
  OBVIOUS
<1> DEFINE text == reader.revision
           b == reader.before
<1>1. /\ text \in Servable /\ b \in Nat /\ b <= Len(text)
      /\ b = 0 \/ Boundary(text, b)
      /\ reader.text = SubSeq(text, b + 1, Len(text))
  BY DEF LogInv
<1> HIDE DEF text, b
<1>2. /\ text \in Seq(Bytes) /\ WellCoded(text) /\ Len(text) \in Nat
      /\ DOMAIN text = 1..Len(text)
  BY <1>1, LenProperties DEF Servable
<1>3. b \in 0..Len(text)
  BY <1>1, <1>2
<1>4. ASSUME reader.text # <<>> PROVE Head(reader.text) # "tail"
  <2>1. /\ reader.text \in Seq(Bytes) /\ Len(reader.text) = Len(text) - b
        /\ \A i \in 1..(Len(text) - b) : reader.text[i] = text[b + i]
    BY <1>1, <1>2, <1>3, EndOf
  <2>2. Len(text) - b # 0
    BY <1>4, <2>1, EmptySeq
  <2>0. PICK n \in Nat : n = Len(text)
    BY <1>2
  <2>7. b \in Nat /\ b <= n /\ n - b # 0
    BY <1>1, <2>0, <2>2
  <2>8. 1 \in 1..(n - b) /\ b # n /\ b + 1 \in 1..n
    BY <2>7
  <2>3. 1 \in 1..(Len(text) - b) /\ b # Len(text) /\ b + 1 \in 1..Len(text)
    BY <2>0, <2>8
  <2>4. Head(reader.text) = text[b + 1]
    BY <1>4, <2>1, <2>3, HeadTailProperties
  <2>5. CASE b = 0
    <3>1. b + 1 \in DOMAIN text /\ ~(b + 1 > 1)
      BY <1>2, <2>3, <2>5
    <3> QED BY <1>2, <2>4, <3>1 DEF WellCoded
  <2>6. CASE b # 0
    BY <1>1, <2>3, <2>4, <2>6 DEF Boundary
  <2> QED BY <2>5, <2>6
<1>5. ASSUME b > 0, NEW limit \in PageLimits, limit > 1
      PROVE  Page(text, limit, b).start < b
  BY <1>1, <1>3, <1>5, PageIsWhole, LogAssumption
<1> QED BY <1>1, <1>4, <1>5 DEF PagesAreContiguous, text, b

(* Following the cursors of log_page gives, whatever is appended, replaced *)
(* or read by others in between, the end of one version of the log without *)
(* gap, overlap or broken character, and a page of two bytes or more gets  *)
(* further.                                                                *)
THEOREM PagesStayContiguous == LogSpec => []PagesAreContiguous
  BY LogInvHolds, InvIsContiguous, PTL

(* The redacted version the reader follows has no secret. *)
LEMMA InvWithholds == LogInv => SecretsAreWithheld
<1> SUFFICES ASSUME LogInv, NEW i \in DOMAIN reader.text
             PROVE  reader.text[i] # "secret"
  BY DEF SecretsAreWithheld
<1> DEFINE text == reader.revision
           b == reader.before
<1>1. /\ text \in Servable /\ b \in Nat /\ b <= Len(text)
      /\ reader.text = SubSeq(text, b + 1, Len(text))
  BY DEF LogInv
<1> HIDE DEF text, b
<1>2. text \in Seq(Bytes) /\ Len(text) \in Nat /\ DOMAIN text = 1..Len(text)
  BY <1>1, LenProperties DEF Servable
<1>3. b \in 0..Len(text)
  BY <1>1, <1>2
<1>4. /\ DOMAIN reader.text = 1..(Len(text) - b)
      /\ \A j \in 1..(Len(text) - b) : reader.text[j] = text[b + j]
  BY <1>1, <1>2, <1>3, EndOf
<1>5. i \in 1..(Len(text) - b) /\ b + i \in 1..Len(text)
  BY <1>2, <1>3, <1>4
<1>6. text[b + i] # "secret"
  BY <1>1, <1>2, <1>5 DEF Servable
<1> QED BY <1>4, <1>5, <1>6

(* Wherever the window cuts the log, log_page serves no byte of a line     *)
(* that may carry a secret: the line that lost its beginning is dropped    *)
(* before the rest is redacted.                                            *)
THEOREM SecretsStayWithheld == LogSpec => []SecretsAreWithheld
  BY LogInvHolds, InvWithholds, PTL
=============================================================================
