----------------------------- MODULE Sunshine ------------------------------
(***************************************************************************)
(* What the engine reads from and asks of the local Sunshine, as operators *)
(* over a state of that program: which reads refuse a command, which       *)
(* intent is saved before an effect, what the effect does when it lands,   *)
(* and which readback confirms it.  No module state of its own.            *)
(*                                                                         *)
(* Sunshine itself is not part of the client: Apply and the World are how  *)
(* the client's code expects it to behave.  A revision is the SHA-256 of   *)
(* the content and is taken to be injective, so a configuration or an      *)
(* application list stands for its own revision.                           *)
(***************************************************************************)
EXTENDS Records, Naturals, FiniteSets, Sequences

CONSTANTS
    OpIds,          \* operation IDs
    Tasks,          \* [id, command, expected, target, value]
    Values,         \* values of a setting
    AppRefs,        \* application fingerprints
    Clients,        \* UUIDs of paired clients
    MaxApps,        \* 256: applications the adapter can represent
    MaxGeneration   \* bound on the number of Sunshine processes

Commands ==
    {"Read", "PatchConfig", "SaveConfig", "Restart", "SaveApplication",
     "DeleteApplication", "SideEffect", "SubmitPairingPin",
     "SetClientEnabled", "UnpairClient", "UnpairAllClients", "ControlService"}

(* Settings the Manager may change, and settings only the local user does. *)
Config == [managed : Values, local : Values]

Generations == 0 .. MaxGeneration

ClientStates == {"absent", "enabled", "disabled"}

WorldStates ==
    [config : Config, apps : Seq(AppRefs), clients : [Clients -> ClientStates],
     service : {"Running", "Stopped"}, generation : Generations]

(* Task::validate: what a command carries is of the kind it needs. *)
WellFormed(task) ==
    /\ task.id \in OpIds
    /\ task.command \in Commands
    /\ task.command \in {"PatchConfig", "SaveConfig"} => task.value \in Values
    /\ task.command \in {"PatchConfig", "Restart"} => task.expected \in Config
    /\ task.command = "SaveApplication" =>
          task.value \in AppRefs /\ task.target \in AppRefs \union {None}
    /\ task.command = "DeleteApplication" => task.target \in AppRefs
    /\ task.command \in {"SetClientEnabled", "UnpairClient"} => task.target \in Clients
    /\ task.command = "SetClientEnabled" => task.value \in {"enabled", "disabled"}
    /\ task.command = "ControlService" => task.value \in {"Start", "Stop", "Restart"}

ASSUME TaskAssumption ==
    /\ \A t \in Tasks : WellFormed(t)
    /\ None \notin Tasks \union AppRefs
    /\ None \notin Nat
    /\ None \notin Reports
    /\ Values # {}
    /\ MaxApps \in Nat
    /\ MaxGeneration \in Nat

Mutates(task) == task.command # "Read"

(***************************************************************************)
(* Readings                                                                *)
(***************************************************************************)

Occurrences(apps, ref) == Cardinality({i \in DOMAIN apps : apps[i] = ref})

(* Sunshine lists two applications the client could not tell apart. *)
Ambiguous(apps) == \E i, j \in DOMAIN apps : i # j /\ apps[i] = apps[j]

(* The PID and birth time of Sunshine, when they can be established. *)
SampledGenerations(world) ==
    {None} \union IF world.service = "Running" THEN {world.generation} ELSE {}

SaveConflicts(apps, target, ref) ==
    \/ target = None /\ Len(apps) >= MaxApps
    \/ ref # target /\ Occurrences(apps, ref) > 0

TargetFound(apps, target) == target = None \/ Occurrences(apps, target) = 1

(* The engine's reads before it commits to an effect: "Proceed", or the    *)
(* report that ends the operation.  The predicted result of a saved        *)
(* application may be too large for a report.                              *)
CheckOutcomes(task, world) ==
    CASE task.command = "Read" -> {"Read"}
      [] task.command \in {"PatchConfig", "Restart"} ->
            IF world.config = task.expected THEN {"Proceed"} ELSE {"Conflict"}
      [] task.command \in {"SaveApplication", "DeleteApplication"} ->
            IF Ambiguous(world.apps) THEN {"Rejected.ResourceConflict"}
            ELSE IF world.apps # task.expected \/ ~TargetFound(world.apps, task.target)
            THEN {"Conflict"}
            ELSE IF task.command = "DeleteApplication" THEN {"Proceed"}
            ELSE IF SaveConflicts(world.apps, task.target, task.value)
            THEN {"Rejected.ResourceConflict"}
            ELSE {"Proceed", "Rejected.ResultTooLarge"}
      [] OTHER -> {"Proceed"}

(* Commands that read Sunshine before they save an intent. *)
Checked(task) ==
    task.command \in {"Read", "PatchConfig", "Restart", "SaveConfig",
                      "SaveApplication", "DeleteApplication"}

CheckedTwice(task) == task.command \in {"PatchConfig", "Restart"}

(***************************************************************************)
(* Intents                                                                 *)
(***************************************************************************)

Effect(kind, target, before) ==
    [kind |-> kind, target |-> target, before |-> before]

(* The intent saved for task, given the configuration it read and the      *)
(* generation it sampled.                                                  *)
Intent(task, config, generation) ==
    CASE task.command = "PatchConfig" ->
            Effect("Save", [task.expected EXCEPT !.managed = task.value], None)
      [] task.command = "SaveConfig" ->
            Effect("Save", [config EXCEPT !.managed = task.value], None)
      [] task.command = "Restart" ->
            IF generation = None THEN Effect("Restart", None, None)
            ELSE Effect("RestartObserved", task.expected, generation)
      [] task.command = "SaveApplication" ->
            Effect("SaveApplication", task.value, task.target)
      [] task.command = "DeleteApplication" ->
            Effect("DeleteApplication", task.target, None)
      [] task.command = "SetClientEnabled" ->
            Effect("SetPairedClientEnabled",
                   [client |-> task.target, state |-> task.value], None)
      [] task.command = "UnpairClient" ->
            Effect("UnpairClient", task.target, None)
      [] task.command = "UnpairAllClients" ->
            Effect("UnpairAllClients", None, None)
      [] task.command = "ControlService" ->
            Effect("ControlService", task.value, generation)
      [] OTHER -> Effect("Unobservable", None, None)

Intents ==
    {Intent(t, c, g) : t \in Tasks, c \in Config, g \in Generations \union {None}}

(* The adapter reads again before the write of these commands, and answers *)
(* ResourceConflict when what it sees is not what the task expects.        *)
Guarded(task) ==
    task.command \in {"PatchConfig", "SaveApplication", "DeleteApplication"}

(* save_guarded saves a backup and then reads a second time. *)
GuardedTwice(task) == task.command = "PatchConfig"

GuardHolds(task, world) ==
    IF task.command = "PatchConfig" THEN world.config = task.expected
    ELSE /\ ~Ambiguous(world.apps)
         /\ world.apps = task.expected
         /\ TargetFound(world.apps, task.target)
         /\ task.command = "SaveApplication" =>
               ~SaveConflicts(world.apps, task.target, task.value)

(* A backup of the configuration is written before it is replaced. *)
BackedUp(task) == task.command \in {"PatchConfig", "SaveConfig"}

(* The position sent with an application request; 0 appends. *)
Position(task, world) ==
    IF ~Guarded(task) \/ task.command = "PatchConfig" \/ task.target = None THEN 0
    ELSE CHOOSE i \in DOMAIN world.apps : world.apps[i] = task.target

(***************************************************************************)
(* What Sunshine does with a request that reaches it (external)            *)
(***************************************************************************)

Restarted(world) ==
    [world EXCEPT !.service = "Running", !.generation = @ + 1]

Apply(effect, position, world) ==
    CASE effect.kind = "Save" -> [world EXCEPT !.config = effect.target]
      [] effect.kind \in {"Restart", "RestartObserved"} ->
            IF world.service = "Running" THEN Restarted(world) ELSE world
      [] effect.kind = "SaveApplication" ->
            IF position = 0 THEN [world EXCEPT !.apps = Append(@, effect.target)]
            ELSE IF position \in DOMAIN world.apps
            THEN [world EXCEPT !.apps[position] = effect.target]
            ELSE world
      [] effect.kind = "DeleteApplication" ->
            IF position \in DOMAIN world.apps
            THEN [world EXCEPT !.apps =
                    SubSeq(@, 1, position - 1) \o SubSeq(@, position + 1, Len(@))]
            ELSE world
      [] effect.kind = "SetPairedClientEnabled" ->
            IF world.clients[effect.target.client] = "absent" THEN world
            ELSE [world EXCEPT !.clients[effect.target.client] = effect.target.state]
      [] effect.kind = "UnpairClient" ->
            [world EXCEPT !.clients[effect.target] = "absent"]
      [] effect.kind = "UnpairAllClients" ->
            [world EXCEPT !.clients = [c \in Clients |-> "absent"]]
      [] effect.kind = "ControlService" ->
            CASE effect.target = "Stop" -> [world EXCEPT !.service = "Stopped"]
              [] effect.target = "Start" /\ world.service = "Running" -> world
              [] OTHER -> Restarted(world)
      [] OTHER -> world

(* What it means, in Sunshine, that an intent has been fulfilled.          *)
Fulfilled(effect, world) ==
    CASE effect.kind = "Save" -> world.config = effect.target
      [] effect.kind = "RestartObserved" ->
            world.generation > effect.before /\ world.config = effect.target
      [] effect.kind = "SaveApplication" ->
            \E i \in DOMAIN world.apps : world.apps[i] = effect.target
      [] effect.kind = "DeleteApplication" ->
            \A i \in DOMAIN world.apps : world.apps[i] # effect.target
      [] effect.kind = "SetPairedClientEnabled" ->
            world.clients[effect.target.client] = effect.target.state
      [] effect.kind = "UnpairClient" -> world.clients[effect.target] = "absent"
      [] effect.kind = "UnpairAllClients" ->
            \A c \in Clients : world.clients[c] = "absent"
      [] effect.kind = "ControlService" ->
            /\ world.service = IF effect.target = "Stop" THEN "Stopped" ELSE "Running"
            /\ effect.target = "Restart" => effect.before # None
            /\ effect.target = "Restart" => world.generation > effect.before
      [] OTHER -> FALSE

(***************************************************************************)
(* Reconciliation                                                          *)
(***************************************************************************)

(* Effects confirmed by two readings; the others by one. *)
ReadTwice(effect) == effect.kind \in {"RestartObserved", "ControlService"}

(* Mutated forms: any running process proves a restart, any list without   *)
(* the old application proves that the new one was saved, any answer about *)
(* the clients or the service proves the change.                           *)
ConfirmedByAnyProcess(effect, first, second, generation) ==
    CASE effect.kind = "RestartObserved" ->
            generation # None /\ second.config = effect.target
      [] OTHER -> FALSE

ConfirmedByAnyAnswer(effect, first, second, generation) ==
    effect.kind # "Unobservable"

(* first and second are Sunshine at the two readings (the same state when  *)
(* there is one), generation the sample taken at the reading that has one. *)
Confirmed(effect, first, second, generation) ==
    CASE effect.kind = "Save" -> second.config = effect.target
      [] effect.kind = "RestartObserved" ->
            /\ generation \notin {None, effect.before}
            /\ second.config = effect.target
      [] effect.kind = "SaveApplication" ->
            /\ ~Ambiguous(second.apps)
            /\ Occurrences(second.apps, effect.target) = 1
            /\ \/ effect.before \in {None, effect.target}
               \/ Occurrences(second.apps, effect.before) = 0
      [] effect.kind = "DeleteApplication" ->
            ~Ambiguous(second.apps) /\ Occurrences(second.apps, effect.target) = 0
      [] effect.kind = "SetPairedClientEnabled" ->
            second.clients[effect.target.client] = effect.target.state
      [] effect.kind = "UnpairClient" -> second.clients[effect.target] = "absent"
      [] effect.kind = "UnpairAllClients" ->
            \A c \in Clients : second.clients[c] = "absent"
      [] effect.kind = "ControlService" ->
            /\ first.service = IF effect.target = "Stop" THEN "Stopped" ELSE "Running"
            /\ effect.target = "Restart" =>
                  effect.before # None /\ generation \notin {None, effect.before}
      [] OTHER -> FALSE

(* process_generation is sampled at the first of the two readings of a     *)
(* restart, and at the second one of a service command.                    *)
Samples(effect, first, second) ==
    IF effect.kind = "RestartObserved" THEN SampledGenerations(first)
    ELSE SampledGenerations(second)

SuccessOf(effect) ==
    CASE effect.kind = "Save" -> "ConfigSaved"
      [] effect.kind = "RestartObserved" -> "RestartAcknowledged"
      [] effect.kind = "SaveApplication" -> "ApplicationSaved"
      [] effect.kind = "DeleteApplication" -> "ApplicationDeleted"
      [] effect.kind = "ControlService" -> "ServiceControlled"
      [] OTHER -> "PairedClientUpdated"

UncertaintyOf(effect) ==
    CASE effect.kind \in {"Restart", "RestartObserved"} -> "Unknown.RestartNotConfirmed"
      [] effect.kind = "ControlService" -> "Unknown.ServiceTransitionNotConfirmed"
      [] effect.kind = "Unobservable" -> "Unknown.SideEffectNotConfirmed"
      [] OTHER -> "Unknown.EffectNotConfirmed"
============================================================================
