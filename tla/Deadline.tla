------------------------------ MODULE Deadline ------------------------------
(***************************************************************************)
(* ExecutionDeadline (src/engine.rs) and the clocks it compares.           *)
(*                                                                         *)
(*   active      tokio's Instant, which stands still while the machine     *)
(*               sleeps                                                    *)
(*   asleep      time spent asleep; elapsed_clock.rs reads both together,  *)
(*               and a reading may fail or start over                      *)
(*   the system clock, which anyone may set at any time: what is left of   *)
(*               it is whether it shows expires_at or later ("late")       *)
(***************************************************************************)
EXTENDS Integers

CONSTANTS
    None,
    MaxExecution,   \* 90 s: what a task may ask for at most
    \* Bounds
    MaxActive,
    MaxSleep

ASSUME DeadlineAssumption ==
    /\ {MaxExecution, MaxActive, MaxSleep} \subseteq Nat
    /\ None \notin Int

VARIABLES active, asleep

clockVars == <<active, asleep>>

(* Time since the machine was booted, which was before this process. *)
Elapsed == active + asleep

(* elapsed_clock::milliseconds() when something starts, and afterwards. *)
FirstReadings == {None, Elapsed}

LaterReadings == {None, 0, Elapsed}

(* Mutated form: what the Manager grants is not capped. *)
Uncapped(remaining) == remaining

Capped(remaining) == IF remaining < MaxExecution THEN remaining ELSE MaxExecution

(* ExecutionDeadline::received *)
Received(remaining, reading) ==
    [remaining |-> Capped(remaining),
     until |-> active + Capped(remaining),
     start |-> reading]

(* Mutated form: a reading that fails is not held against the task. *)
SpentIfRead(start, reading, limit) ==
    /\ None \notin {start, reading}
    /\ reading < start \/ reading - start >= limit

(* The limit is used up by an elapsed clock that read start and reading; a *)
(* clock that cannot be read, or runs backwards, is taken to have used it. *)
Spent(start, reading, limit) ==
    None \notin {start, reading} => reading < start \/ reading - start >= limit

(* expired_with_elapsed_clock *)
Expired(deadline, late, reading) ==
    \/ late
    \/ active >= deadline.until
    \/ Spent(deadline.start, reading, deadline.remaining)

(***************************************************************************)

ClockInit == active = 1 /\ asleep = 0

Tick ==
    /\ active < MaxActive
    /\ active' = active + 1
    /\ UNCHANGED asleep

(* The machine is suspended and wakes up again. *)
Sleep ==
    /\ asleep < MaxSleep
    /\ asleep' = asleep + 1
    /\ UNCHANGED active
=============================================================================
