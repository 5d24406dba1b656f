----------------------------- MODULE MCAdapter ------------------------------
(***************************************************************************)
(* Service commands and log pages of the adapter for TLC.  The adapter     *)
(* does one thing at a time and the two share no state, so that a          *)
(* behaviour is about the one or about the other.                          *)
(***************************************************************************)
EXTENDS ServiceControl, LogPages

VARIABLE part

MCLogLines ==
    {<<"plain", "newline">>, <<"head", "tail", "newline">>,
     <<"marker", "secret", "newline">>}

MCInit ==
    /\ part \in {"service", "logs"}
    /\ Init /\ LogInit
    /\ part = "logs" => mode = "Disabled" /\ service = "Stopped"

MCNext ==
    \/ part = "service" /\ Next /\ UNCHANGED <<logVars, part>>
    \/ part = "logs" /\ LogNext /\ UNCHANGED <<vars, part>>

MCSpec ==
    /\ MCInit /\ [][MCNext]_<<vars, logVars, part>>
    /\ WF_vars(part = "service" /\ TimePasses)
    /\ WF_vars(part = "service" /\ ControlTimesOut)
=============================================================================
