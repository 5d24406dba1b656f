----------------------------- MODULE MCExecutor ----------------------------
(* Tasks for the runs of Executor: one set per family of commands.         *)
EXTENDS ExecutorRefinement

CONSTANTS o1, o2, a1, a2, c1

Settings(m, l) == [managed |-> m, local |-> l]

MCTask(id, command, expected, target, value) ==
    [id |-> id, command |-> command, expected |-> expected,
     target |-> target, value |-> value]

(* Tasks that claim one operation ID: a guarded patch and an overwrite of  *)
(* the same setting, a read, two effects that cannot be read back, and     *)
(* three changes of a client, which the local user changes too.            *)
OneIdTasks ==
    {MCTask(o1, "PatchConfig", Settings(0, 0), None, 1),
     MCTask(o1, "SaveConfig", None, None, 1),
     MCTask(o1, "Read", None, None, None),
     MCTask(o1, "SubmitPairingPin", None, None, None),
     MCTask(o1, "SideEffect", None, None, None),
     MCTask(o1, "SetClientEnabled", None, c1, "disabled"),
     MCTask(o1, "UnpairClient", None, c1, None),
     MCTask(o1, "UnpairAllClients", None, None, None)}

(* A restart tied to a revision that the local user may also change, and   *)
(* restarting or stopping the service, under one operation ID.             *)
ProcessTasks ==
    {MCTask(o1, "Restart", Settings(0, 0), None, None),
     MCTask(o1, "ControlService", None, None, "Restart"),
     MCTask(o1, "ControlService", None, None, "Stop")}

(* Replacing a1 by a2, or deleting a1, in the list <<a1>>, and a read that *)
(* competes with either for the one free record.                           *)
ApplicationTasks ==
    {MCTask(o1, "SaveApplication", <<a1>>, a1, a2),
     MCTask(o1, "DeleteApplication", <<a1>>, a1, None),
     MCTask(o2, "Read", None, None, None)}

OneApp == <<a1>>

(* Lists the local user may install: reordered, emptied, ambiguous. *)
AppLists == {<<a1>>, <<a2, a1>>, <<>>, <<a1, a1>>}

NoApps == <<>>
============================================================================
