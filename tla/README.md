# sunshine-manager-client in TLA+

The client runs beside a local Sunshine. It receives tasks from a Manager over a
WebSocket session, executes them against Sunshine's HTTPS API and the local
service manager, and reports what happened. Sunshine offers no transactions, no
compare-and-set and no request IDs, so almost all of the client's difficulty is in
one place: to act at most once and never to report what it does not know, through
lost answers, local edits, failed writes, deadlines and crashes.

This directory holds TLA+ modules translated from `src/src`, the TLC
configurations that check them on small instances, and TLAPS proofs of the main
results for every value of the constants. Paths below are relative to `src/`.

- [1 The system](#1-the-system)
- [2 Modules](#2-modules)
- [3 What the runs check](#3-what-the-runs-check)
- [4 Bounds and fairness](#4-bounds-and-fairness)
- [5 What is proved](#5-what-is-proved)
- [6 Abstractions and what is left out](#6-abstractions-and-what-is-left-out)
- [7 Findings](#7-findings)
- [8 Plan](#8-plan)

## 1 The system

### Components

**Execution engine** (`src/engine.rs`). State: a journal behind a tokio mutex, an
adapter, the capabilities of this platform. Operations: `deliver_before` (a task to
execute or only to inspect), `acknowledge_final` (a receipt of the Manager),
`pending_results` (what to report after a reconnection), `observe_configuration`.
Every delivery holds the mutex from its first load to its last save, so the engine
is one serial lane, but each `await` inside it lets the world move. Correct when an
operation ID causes at most one request, a request is preceded by a durable intent,
refusals and successes are true, verdicts never contradict one another, and the
mutex is always released.

**Execution deadline** (`src/engine.rs`, `src/elapsed_clock.rs`). A budget given by
the Manager, measured by a monotonic clock, a clock that also counts suspend, and
the wall clock; the first to run out, or any that cannot be read, expires it.

**File journal** (`src/journal.rs`; Linux, macOS). State: one private file per
operation ID, an inventory `ids`/`active` in memory, a `poisoned` flag, an advisory
lock. Operations: open, load, create, replace, pending_results. Hard: a write that
fails after its rename has changed the disk and nobody knows. Correct when the
memory is what a restart would rebuild, limits hold on disk, and history is never
rewritten.

**Windows journal** (`src/windows_journal.rs`, `src/storage/sqlite.rs`). The same
trait over rows of one SQLite table; `load` reads the row and not the inventory, and
the inventory is rebuilt from a name query with a LIMIT.

**Protected storage** (`src/storage.rs`, `src/windows_storage.rs`). Atomic, private
documents and archives. Seen from above: a write succeeds, fails, or fails after it
installed the new content.

**Sunshine adapter** (`src/adapter.rs`). Reads and writes of configuration,
applications, paired clients and logs over HTTPS; guards before writes
(`save_guarded`, application positions), backups, and a budget check immediately
before each request (`require_effect_budget`). Holds no durable state. Hard: what it
read may be stale when its request lands, and a request may land after the client
stopped waiting for it.

**Service controller** (`src/adapter.rs`) starts, stops and restarts the local
service; on Windows by a stop, a poll and a start, all of it within 45 seconds and the
task's own deadline. State: the running call. Hard: the service manager may answer late,
never, or with a failure, anyone may start or stop the service in between, and the call may
be cancelled at every `await`. Correct when no command is given out of time, a restart is
reported only if it happened, and the call always ends.

**Log paging** (`logs`, `log_page` in `src/adapter.rs`). State: the retained window of the
last read. Hard: the log grows or is replaced between two pages, others read it too, and the
window may begin inside a line or a character. Correct when pages fit together and no part of
a line with a secret is served.

**Process identity** (`src/process_identity.rs`) identifies the Sunshine process by
PID and birth time, or cannot.

**Manager session** (`src/transport.rs`). State: reports computed (`completed`),
deliveries running (`active`), receipts being saved (`acknowledging`), the heartbeat.
Hard: receipts race redeliveries and inspections, the session may end at any time,
shutdown has 30 seconds, and the configuration in a heartbeat comes from a monitor
(`src/provisioning.rs`) that reads Sunshine while tasks change it.

**Provisioning** (`src/provisioning.rs`). Pairing with the Manager: key, enrollment,
identity and bootstrap documents; answers may be lost and the process may die
between two documents.

**Command line** (`src/main.rs`, `src/cli.rs`), **Windows service wrapper**
(`src/windows_service.rs`), and scripts for packaging and releases (`deploy`, `packaging`, `scripts`).

### How they interact

```
Manager --WebSocket-- transport --deliver/acknowledge (mutex)--> engine
                                                                   |
                               journal (files | SQLite) <--save----+
                                                                   |
                     Sunshine <--HTTPS-- adapter <----read/effect--+
                 local service <-- service controller, process identity
```

The local user changes Sunshine at the same time and is seen only through readings.
`PROJECT.json` lists the hazards of this arrangement at the lines where they bite,
with the properties that address each.

## 2 Modules

| Module | Models | Source |
|---|---|---|
| `Records` | execution records, kinds of reports, which replacement of a record is legal, which results are owed | `engine.rs`, `journal.rs` |
| `Journal` | the file journal | `journal.rs` |
| `WindowsJournal` | the SQLite journal | `windows_journal.rs`, `storage/sqlite.rs` |
| `Sunshine` | operators: readings that refuse a command, intents, guards, what a request does, readback | `engine.rs`, `adapter.rs`; Sunshine itself is external |
| `Executor` | the engine, composed with `Journal` (`INSTANCE`) and `Sunshine` | `engine.rs`, `adapter.rs` |
| `EffectLedger` | abstract specification: what the engine promises about an operation ID | - |
| `ExecutorRefinement` | the refinement mapping from `Executor` to `EffectLedger` | - |
| `Transport` | the Manager session, with the engine cut down to the steps a session can tell apart | `transport.rs`, `engine.rs`; the Manager is external |
| `Provisioning` | pairing, replacement and the commands that change local documents | `provisioning.rs`, `cli.rs`, `storage.rs`; the Manager is external |
| `Deadline` | the execution deadline and the three clocks it compares | `engine.rs`, `elapsed_clock.rs`; the clocks themselves are external |
| `ServiceControl` | one service command, extending `Deadline` | `adapter.rs`; the service managers are external |
| `LogPages` | reading a log page by page | `adapter.rs`; the writer of the log is external |
| `Heartbeat` | the configuration a heartbeat reports: monitor, tasks, sessions | `transport.rs`, `provisioning.rs`; Sunshine and the Manager are external |
| `MCJournal`, `MCExecutor`, `MCProvisioning`, `MCAdapter` | tasks, codes, lines and values for TLC; `MCAdapter` checks `ServiceControl` and `LogPages` in one run | - |
| `TransportRefinement` | the refinement mapping from `Transport` to `EffectLedger` | - |
| `JournalProofs`, `WindowsProofs`, `ExecutorProofs`, `HeartbeatProofs`, `ProvisioningProofs` | theorems about the module each is named after | - |
| `AdapterProofs` | theorems about `ServiceControl` and `LogPages` | - |
| `TransportProofs` | theorems about `Transport`, and its refinement of `EffectLedger` | - |
| `LedgerProofs` | the refinement of `EffectLedger` by `Executor`, and its use of `Journal` (an instance of `JournalProofs`) | - |

Definitions marked *Mutated form* are plausible mistakes; nothing in a
specification uses them. Each property is shown to fail when the corresponding
definition is replaced by such a form.

### Executor

State and code:

| TLA+ | Code |
|---|---|
| `disk`, `ids`, `active`, `poisoned`, `opened` | the journal, see `Journal` |
| `lane` | the task behind `Executor::journal.lock()`: `step` is the await it has reached, `rec` its `ExecutionRecord`, `seen` what it has read, `position` the index sent with an application request, `attempt` the restart loop, `bounded` whether it is under the 90-second limit of `execute_bounded`, `volatile` the `volatile_read` flag, `deadline` the execution deadline |
| `sunshine` | Sunshine's configuration, application list, clients, service state, and the number of its process |
| `flight`, `answer` | HTTP requests the client has sent and their answers, which outlive the client's wait |
| `posts`, `told`, `goal`, `closed` | history only: requests sent, verdicts returned, intents fulfilled, operations the Manager finalized. No guard reads them |

Steps of the lane follow the code's awaits:

| Action | Code |
|---|---|
| `Deliver` | `deliver_before` up to the first await: load, fingerprint, tombstone, final report, saved intent, uncertain report, inspection only, create, full journal |
| `Begin` | `execute_bounded`'s deadline check and the choice of the command's path |
| `Check`, `Recheck` | the readings before the intent, with their refusals |
| `Intend` | sampling the process, the deadline check of `remember`, the save of the intent |
| `Guard("guard")`, `Guard("guardAgain")` | the adapter's readings before a guarded write |
| `Post`, `PostSkipped` | the request leaves, or the budget or the backup stops it |
| `Await` | an answer, a broken connection or the request's timeout |
| `Reconcile`, `Conclude` | `reconcile`: one or two readings, ten attempts after a restart request |
| `Timeout` | the 90-second limit cancels `execute` at any await |
| `Expire` | a clock of the deadline runs out, at any moment |
| `Acknowledge` | `acknowledge_final` |
| `Open`, `Crash` | start of the process; its death, or the abort at shutdown |
| `Land`, `Lose`, `Edit` | the world: a request takes effect (possibly after the client gave up), is lost, the local user changes something |

Every place where the code saves a record (`finish`, `remember`, `acknowledge_final`)
lets the journal fail, before or after the file was installed, and a report that
could not be saved is returned as `Unknown.PersistenceFailure` (`Returned`).

### Journal and WindowsJournal

The operators `Create` and `Replace` take the outcome the caller sees. `FailedWrite`
is the case in which the caller is told of a failure while the file may or may not be
installed. In `WindowsJournal`, `Names` is the bounded name query and `Loaded` reads the
row: the two differ exactly when the query was truncated. Both modules have a
next-state relation of their own in which the caller may try any record, which is
more than the engine does.

### EffectLedger

One line per operation ID: a task claims it, the effect is committed to, at most one
request is performed, one verdict is entered and may be told repeatedly, the Manager
closes it. `ExecutorRefinement` reads the ledger off the durable records: the owner
is the fingerprint on disk, *committed* an intent on disk, the verdict a final report on
disk. A crash, a failed write or a reading is then a stutter, or the same ledger
step as a successful one. `TransportRefinement` reads owner, intent, verdict and end off the journal
of `Transport` in the same way, but what was told is what the Manager itself knows, at the far end of
two channels; requests to Sunshine do not occur there and count as none.

### Transport

| TLA+ | Code |
|---|---|
| `run`, `cause` | where `run()` is: process not started, between sessions, in a session, in `shutdown()`, returned; and the error it returned |
| `active`, `completed`, `acknowledging` | the fields of `ExecutionState`; the spawned tasks behind the `JoinHandle`s have a `phase` |
| `disk`, `poisoned` | the journal |
| `toManager`, `toClient` | messages on the way in this WebSocket session; a reconnection empties them |
| `known`, `busy`, `deliveries` | the Manager: the report it has accepted, the operation it believes to be running, tasks sent |
| `faulted`, `begun` | history: the journal failed; operations this process began |

| Action | Code |
|---|---|
| `Start`, `Crash` | the journal is opened and `run()` collects `pending_results`; the process dies |
| `Connect`, `Disconnect` | `connect`, Hello, all unconfirmed results; a closed socket, a failed send, a silent peer |
| `OnMessage` | the first branch of the `select!`: tasks, receipts, revocation, and the protocol errors that end `run()` |
| `OnExecuted`, `OnReceiptSaved(i)`, `OnTick` | the other branches |
| `Lock`, `Remember`, `Finish` | the spawned delivery: it takes the mutex, saves the intent, saves the report |
| `SaveReceipt(i)` | the spawned `acknowledge_final`, which needs the mutex as well |
| `Stop`, `DrainedInTime`, `NotDrained` | `shutdown()`, its clean end, and its end by an error or after 30 seconds |

The engine is `Executor` without readings and requests: what is left is which report may
come next, when the mutex is held, and what is on disk when. An operation ID
stands for its task and fingerprint. The Manager is assumed well behaved: one task at
a time, inspection only of an operation it sent before and believes to be over, every
result confirmed, no task for an operation it has closed.

### Provisioning

`identity`, `bootstrap`, `settings` are the three documents. `command` is the pairing
command that holds the maintenance lock and the step it has reached; every step ends
at a network wait or a durable write, and `Interrupt` (crash, timeout, Ctrl-C) may come at
each. `posts` are enrollment requests on their way, which may land after the client
gave up. `editor` is an operator's `config edit`, which reads without the lock. `running`
is the identity the service was started with. `issued`, `valid`, `registered` are the
Manager: one valid code per device; a new code revokes the device's credential at
once (`docs/configuration.md:147`); enrolling consumes the code. A code is a random secret, so
that a command is given only codes that were issued. `rotated`, `accepted` and `login` are history.

`Pair`, `Resume`, `Replace`, `Rebootstrap`, `Validate` are `execute_pair`; `Preflight` is `pair`;
`Resolve`, `Probe`, `Enroll`, `Persist`, `Clear` are `provision`; `Edit`, `SaveEdit`, `Apply`,
`UpdateCredentials`, `ConfigInit`, `Import` are the other commands that write;
`RunService` is the start of `run`.

### Deadline and ServiceControl

`active` is the clock of tokio's `Instant`, which stands still during suspend; `asleep` the
time spent suspended; `Elapsed`, their sum, is what `elapsed_clock::milliseconds` reads,
if it can be read. The system clock may be set by anyone, so that all that is left of it is
whether it shows the expiry. A reading is therefore chosen from `LaterReadings`
(the truth, nothing, or a clock that started over) each time the code takes one, and
`late` is chosen freely.

| TLA+ | Code |
|---|---|
| `call` | the future of `LocalServiceController::control`: `phase` is the await it has reached, `first` is `windows_state`, `polls` the round of the current loop, `start` is `started`, `since` and `sent` begin the two timeouts |
| `command` | the running `systemctl` or `sc.exe`, which outlives a call that is dropped only as far as the operating system has taken it |
| `service`, `process`, `job` | the Sunshine service, the number of its process, and what systemd is still doing |
| `issued`, `received` | history: the commands given, with the real time at which they were |

| Action | Code |
|---|---|
| `Begin` | `control_service`, `require_effect_budget`, `control` to its first await |
| `FirstQuery` | the `status()` before a Windows command, and what is done if the state is already there |
| `Issue` | `control_budget` and the spawn: they have no await between them |
| `Answered` | the exit of the command, and where the call goes on |
| `AwaitStopped`, `SeenStopped` | the polling between the halves of a Windows restart, and the query after it |
| `Confirm` | the 15 polls and the last query for the expected state |
| `QueryFails`, `CommandTimesOut`, `SpawnFails`, `ControlTimesOut` | the errors and time limits |
| `Dropped` | the 90-second limit of the engine, or the end of the process |

`systemctl restart` answers when its job is done, `sc.exe stop` when the stop was taken: the
external actions `WindowsTakes`, `SystemdTakes` and `JobDone` say so, and the client's two ways of
restarting are right because of it.

### LogPages

`log` is Sunshine's file, `kept` the field `log_snapshot`, `reader` someone who follows the
cursors. Text is a sequence of kinds of bytes, just enough to tell a newline, the two bytes of a
character, the word that marks a line and the secret behind it. `Cut` drops the first line of a
full window; `Redacted` puts each line out at the byte that ends it, a marked one as the notice
(`Shown`); and `Page` finds the character boundaries. The reader's history is one text, and what was
read of it so far.

### Heartbeat

An `Instant` is the number of mutations whose end `run()` has seen (`joined`): the code
compares `observed_at` and `mutation_completed` with each other and with nothing else, and
the 30 seconds of freshness are the step `Age`. `monitor` is the loop in `run` of
`src/provisioning.rs`, `observation` the watch channel, `lastSnapshot` and `completed` what the
session keeps, and `told` and `news` what the Manager has received. Configurations carry a
version, by which the properties know the newer one; the code sees only `content`.

## 3 What the runs check

| Run | Distinct states | Shows |
|---|---|---|
| `Journal` | 1,329 | any sequence of creates, replaces, failed writes and restarts with three IDs, room for two, one of them unacknowledged: memory matches disk (`InventoryMatchesDisk`), the client never locks itself out (`ReopenWithinLimits`), owed results are offered again (`OwedResultsArePending`), nothing is rewritten (`HistoryIsPermanent`) |
| `WindowsJournal` | 26,649 | with three rows and a query that returns two: an ID forgotten by the inventory is still protected (`HistoryIsPermanent`), nothing is invented (`InventoryIsSound`) |
| `WindowsTruncatedScan` | - | violation, see [Findings](#7-findings) |
| `ExecutorConfig` | 60,254 | tasks of every kind claim one operation ID (a guarded patch, an overwrite, a read, a PIN, enabling and unpairing a client or all of them, an effect that cannot be read back), with local edits: at most one request, intent first, true refusals, one verdict, durable verdicts, resolvable uncertainty, witnessed success, closed is over; every delivery releases the mutex (`DeliveryEnds`); `Executor` implements `EffectLedger` (`ImplementsLedger`) |
| `ExecutorProcess` | 486,978 | a restart is acknowledged only for a newer process with the expected configuration, and a service transition only if it happened after the intent, while the local user edits, stops and restarts (`SuccessIsWitnessed`) |
| `ExecutorApplications` | 539,044 | two operations and room for one record: replacing and deleting an application by position in a list that the user reorders, empties or makes ambiguous, and a read that goes on unrecorded; a request of one may land after the other is over. Success is witnessed, the engine never offers an illegal write (`WritesAreLegal`), only receipts close (`ClosedByTheManager`) |
| `TransportSession` | 633,942 | one operation through broken sessions, duplicated tasks, inspections, repeated receipts, a failing journal, a shutdown and a crash: an unsettled final result is held (`FinalResultsAreHeld`), the Manager is never told two (`OneFinalResult`), the Manager closes first (`ManagerClosesFirst`), a clean shutdown leaves nothing undecided (`CleanShutdownIsSettled`), and a final result is confirmed in the end, unless `run()` ends (`ResultsAreConfirmed`) |
| `TransportLateReceipt`, `TransportReceiptRace` | - | violations, see [Findings](#7-findings) |
| `Provisioning` | 308,675 | a credential the Manager accepted is never lost (`AcceptedCredentialIsKept`), what counts as enrolled was accepted and is not displaced by a late request (`EnrolledIsAccepted`), no edit undoes a login (`LoginIsCurrent`), the service's identity stays (`RunsWithItsIdentity`), resuming completes what the Manager accepted (`PairingCompletes`) |
| `Adapter` | 737,346 | one service command: none is given out of the two budgets (`CommandsWithinBudget`), a restart reported is a new process (`RestartedIsNew`), the call ends (`CallEnds`). A log read in pages: they are the end of one version of the log, without gaps (`PagesAreContiguous`), and hold no secret (`SecretsAreWithheld`) |
| `Heartbeat` | 766,830 | no heartbeat takes the Manager behind a result (`NeverBehindAResult`), and when all is quiet the last one shows Sunshine's configuration (`HeartbeatsCatchUp`) |

`SuccessIsWitnessed` says precisely what a success means here: the state the intent
aims at held at some moment *after the intent became durable*. It does not say that
the client's own request caused it, which the code cannot know (the local user may
have made the same change), nor that it still holds. It is checked in every run
whose readback differs because the evidence does: equality of a revision, a process
generation, an occurrence count, a service state, or Sunshine's answer.

## 4 Bounds and fairness

- One or two operation IDs, and two tasks that share an ID or compete for Sunshine.
  Records of different IDs do not interact except through the limits of the journal
  (`ExecutorApplications`, `Journal`) and through Sunshine (`ExecutorApplications`).
  A third contender repeats one of the two.
- Settings have two values: what was expected and something else. A configuration
  is a pair, the settings the Manager may write and those it may not.
- `MaxGeneration` = 2: the process before, the one the request starts, and one that
  somebody else started. It bounds `Land` and `Edit`.
- `RestartAttempts` = 2 (10 in the code): first and last attempt.
- `MaxRecords`, `MaxIdentities`: 1 and 2 (4,096 and 1,000,000 in the code), so that the
  limits are reached; `MaxApps` = 2 (256).
- `ScanLimit` (4,098 in the code) is one less than the number of rows.
- `posts` is not bounded in the guards: it is at most 1 because the property holds.
- `Transport`: two starts of the process, two sessions each, two tasks for the operation,
  two messages per direction, two receipts at once. A result lost with a session, a
  task repeated in the next one, a receipt that overlaps a second delivery, and all of it
  across a crash fit in. The last session of a process does not disconnect, which is
  what "the Manager can be reached again" means. One operation: `run()` holds at
  most one execution, and a task for another operation is a protocol error.
- `Provisioning`: a first code, its successor and a code of another device; two
  credentials (a pairing and its replacement; beyond, `fresh_credential` fails as if entropy were
  missing); two requests on the way at once; two faults of any kind, so that a lost answer may
  meet a crash. Inputs are one per code, with different endpoints and logins.
- `Adapter`: budgets of 2 for the service command, 1 for one run of `systemctl` or `sc.exe`,
  grants of 2 and 4 capped at 3, two units of suspend: either budget may be the tighter one, and
  each may run out during an await or while the machine sleeps. `MaxActive` stops the clock after
  the last timeout can have come; `Begin` leaves room for it. Two polls (15 in the code)
  are a first and a last one, two processes the old and the new one. Logs of 8 bytes and a window of 5,
  with lines of 2 and 3, make the window begin before, in and after every line and character;
  page limits below, at and above a line. A page limit of 1 cannot hold a character of two
  bytes: the page is then empty, and `PagesAreContiguous` asks progress only of limits above 1. How
  small a limit the protocol admits is not decided in this repository.
- `Heartbeat`: two contents, so that a local edit may restore the old one; two versions beyond the
  first, two deliveries and two faults: a slow reading may span a mutation and a session.
- Deadlock is checked in every run but those of `Transport` and `Adapter`, where `run()` returns,
  or the call, and nothing is left to do.

`FairSpec` of `Executor` adds `WF_vars(Step)`: the lane takes its next step if one stays possible.
The code justifies it because every await it stands for ends by itself: an HTTP
request within 15 seconds (75 for a pairing PIN), a service command within its own
limit, and all of `execute` within 90. `Step` contains for each await the outcome in
which nothing came back, and no fairness is assumed of Sunshine, of requests in flight, of
the Manager, of the deadline or of `Timeout`. The time limit is not what makes the
property true, it is a second line of defence.

`FairSpec` of `Transport` assumes that the runtime polls a task that can proceed (deliveries,
receipts, the branches of the `select!`, the heartbeat, which ticks every 15 seconds), that
`shutdown()` ends (it has 30 seconds), and of the environment that the process is started
again, the Manager can be reached again and reads what it is sent. Nothing is assumed
of the Manager's tasks. `ResultsAreConfirmed` is conditional on `run()` not having
ended: the service manager does not restart some of its exits.

The heartbeat's fairness is for the case that the journal works (`SoundTick`): a
failing journal is never something that has to happen, and once it fails `run()` ends.

`MCSpec` of `MCAdapter` assumes that the active clock goes on and that the runtime polls the
45-second timeout of `control` when it is over; nothing is assumed of the service manager, of
queries, or of suspend. `FairSpec` of `Heartbeat` assumes that the monitor's loop and
the session are polled, that requests to Sunshine and sends to the Manager end (both have timeouts),
that a delivery ends (`DeliveryEnds`), and that the process is started again.

`FairSpec` of `Provisioning` assumes that a command goes on unless interrupted, that requests
arrive, and that whoever administers the client resumes a pairing that is not over, as
`docs/troubleshooting.md:11` tells them to. Interruptions and failed writes are finitely many.

## 5 What is proved

The proofs hold for every set of tasks, operations, codes and values and for every limit that
satisfies the named assumptions of the modules. They say little: limits are numbers, budgets are not negative,
and

- `TaskAssumption` (`Sunshine`): tasks are well-formed, as `Task::validate` makes sure;
- `ExecutorAssumption`: application lists are lists, and the limits of the journal and the number of
  attempts after a restart are natural numbers;
- `ServiceAssumption`: a wait for the service asks at least once (15 times in the code);
- `LogAssumption`: what Sunshine writes at once is a sequence of bytes in UTF-8 (any other log is refused
  as a whole), whoever writes a secret writes the word that marks it on the same line with it, which is
  what `log_page` relies on, and the window is not empty;
- `TransportAssumption`: there are finitely many operations, so that a session can begin with all unconfirmed results,
  and `None` is no operation, no report and no status;
- `NoRecordAssumption` (`Transport`) and `NoDocumentAssumption` (`Provisioning`): the values that
  stand for *no record*, *no document* and *unreadable* are not records or documents. TLC evaluates these for the instances
  it checks.

Every invariant that a passing run checks is a theorem; so are all action properties and the
refinement.

`JournalProofs`:

- `JournalTypeCorrect` and `InventoryIsExact` (`InventoryMatchesDisk`): types and an exact
  inventory are inductive together (`JournalInv`).
- `HistoryIsKept` (`HistoryIsPermanent`). `create` decides from the inventory and not from
  the directory, so that it overwrites nothing needs `InventoryMatchesDisk` before the step.
- `LimitsHoldOnDisk` (`ReopenWithinLimits`). A failed create may install a file that the
  inventory does not count; but it decided with an exact inventory, so there was
  room for one more, and afterwards the journal is poisoned and creates nothing.
- `OwedResultsAreOffered` (`OwedResultsArePending`). `pending_results` walks the inventory, so this
  is the exact inventory once more: the operations it counts as active are those on disk that no receipt closed.

`WindowsProofs`: `WindowsInventoryIsSound` (`InventoryIsSound`) from the types of the rows and the
inventory, and `WindowsHistoryIsKept` (`HistoryIsPermanent`), for any scan limit: `create` and
`replace` decide from the row itself, and that is why the truncated query costs no history.

Two more theorems mark out the finding of `WindowsTruncatedScan`, from `ScanInv`: the names the query
returns are always in the inventory (`ScanIsCovered`: rows are never deleted, so a row the query returns now
was returned, if it was there, by every query before), and the inventory is within the limits.
`WindowsReopens`: `open` never refuses a table that the journal itself wrote.
`ScannedResultsAreOffered`: no result that the query returns is missed, and with at most as many rows as the query
returns, none at all (`OwedResultsArePending`).

`AdapterProofs`, about one service command: `CommandsStayWithinBudget` (`CommandsWithinBudget`) from `BudgetInv`: the call's
`start` is the real time at which it began, a deadline that could be read at first holds the real
time of its reception, and real time never goes back; so a reading that passes `Spent` is the truth or
would have failed. `RestartsAreNew` (`RestartedIsNew`) from `RestartInv`, which says for each phase of a
restart what must have happened to the service (`OldIsGone`): on Windows once a query has shown it
stopped, on systemd once the job is in its second half or has answered. From there on a running
service has a new process, whoever started it.

A third invariant, `CallIsOrdered`, says what was given when: nothing before the first query, only the stop of a Windows
restart before its start. `CommandsStaySingle` (`CommandsAreSingle`): a call never gives a command twice, and two only
as such a stop and start. `CallsAdvance` and `CallsAreBounded`: `MovesLeft`, at most seven stages of
`Polls + 1` moves, goes down with every move of the call, so that no loop leads back.

`AdapterProofs`, about the pages of a log: `PagesStayContiguous` (`PagesAreContiguous`) and `SecretsStayWithheld`
(`SecretsAreWithheld`) from `LogInv`: the log and the kept window are well-coded and marked, and the reader holds
the end of one text that can be served (`Servable`: well-coded, without a secret), from a character boundary on.
The argument:

- `Cut` keeps both marks and codes, because it begins behind the end of a line: the secret and the word that
  marks it are dropped together or kept together.
- `Redacted` is a concatenation over all bytes. `FlattenedIn` says that a set that holds every piece, and with two
  texts also their concatenation, holds the whole. It is an induction, over the set of lengths for
  which it fails (`SetInduction`, from the library's least-element theorem), since the induction
  theorems that take an operator cannot be used here.
- A page ends where the last one begins, because a boundary rounds to itself; and it is not empty when the limit
  is above 1, because of two neighbouring bytes one begins a character.

`HeartbeatProofs`: `HeartbeatsNeverGoBack` (`NeverBehindAResult`) from `HeartbeatInv`: every version
in a result known to `run()` or the Manager was read before `joined` counted it, so an observation
stamped with the current `joined` and read afterwards is at least as new; and a crash, which
forgets `joined`, forgets the observation too.

`ExecutorProofs`: one inductive invariant `Inv == Safe /\ Worldly`. `Worldly` holds
the types of Sunshine, requests and answers. `Safe` ties the lane and the history to the
disk. Beside the properties themselves it needs:

- `LaneSafe`: a busy lane that is not volatile works on a record that on disk has the
  lane's fingerprint and intent, is not final and is not closed; an intent exists exactly
  at the steps after `intend`; and until the request leaves nothing was requested for
  the operation. This is what a mutex held across awaits buys, and everything else
  depends on it.
- `VerdictsKept`: what was told about a mutation is the one report on disk, or the record
  is closed. `OneVerdict` follows.
- `RefusalsKept`: a harmless refusal on disk implies that nothing was requested, so it
  may be repeated to the Manager at any time.
- `ReadsHaveNoIntent`: an intent on disk never belongs to a read.
- in `Journalled`, a trusted inventory that names every record on disk: without it a
  delivery could take a known operation for a new one.

From it: `TypeCorrect`, `NeverRequestedTwice` (`AtMostOneRequest`), `IntentComesFirst`
(`RequestImpliesIntent`), `RefusalsAreTrue` (`RefusedMeansUntouched`), `VerdictsAgree`
(`OneVerdict`), `VerdictsSurvive` (`VerdictIsDurable`), `UncertaintyIsResolvable`
(`UncertaintyHasIntent`), `EngineWritesLegally` (`WritesAreLegal`), `OnlyTheManagerCloses`
(`ClosedByTheManager`), and the action property `ClosedForEver` (`ClosedIsOver`).

`SuccessesAreTrue` (`SuccessIsWitnessed`) needs a second invariant, `Witnessed`, inductive relative to
`Inv`. `goal` remembers the tasks whose intent was fulfilled at some moment since it was durable, and the
proof shows that each kind of evidence the engine accepts implies membership:

- `AchievedIsRemembered`: if Sunshine's state fulfils a durable intent now, the task is in `goal`.
  So a readback that compares revisions, applications or clients (`ConfirmedIsGoal`) proves it at once.
- `SamplesArePast`, `ReadingIsPast`: the process sampled for a restart is the one of that moment or an older
  one, and what the first of two readings saw is in the past: without them a newer process could
  have been there before the intent.
- `RequestsAreSingle`: an answer belongs to the one request of its task, so that `"ok"` is Sunshine's answer to
  it and not to an earlier one.
- `RecordsAreWitnessed`, `HeardIsWitnessed`: a success on disk, or told, keeps its evidence.

`OccurrencesMeans` is the lemma behind applications: one occurrence is an entry of the list, and none is none.

`EditsStayExact` (`EditsAreExact`) says what a request for an application does. The code sends a position and
predicts the resulting list by counting occurrences; the theorem compares both with what the Manager asked for, as a
set: on the list it was aimed at, a request replaces, deletes or adds the one application and touches no
other, and the readback accepts the result. It needs `Aimed`: the position the lane holds, or a request carries,
is that of the target in the list the task expects, and the intent is the task's.

`DeliveriesAdvance` and `DeliveriesAreBounded` are what can be proved of `DeliveryEnds` without fairness: `Rank`,
the number of moves a delivery may still make, goes down with every move of the lane, whichever branch it
takes and whatever it reads, and begins at most at `11 + 2 * RestartAttempts`. So no branch of `execute` and
`reconcile` goes in a circle; that the next move comes is what `WF_vars(Step)` adds.

`LedgerProofs`: `LedgerIsImplemented` (`Spec => ImplementsLedger`). There is a lemma for each entry of the
ledger (`ClaimFollows`, `CommitFollows`, `PerformFollows`, `DecideFollows`, `UncertainFollows`, `TellFollows`,
`CloseFollows`, and `QuietFollows` for stutters), then one for each step of the engine. A write that
failed is the entry if the file was installed and a stutter if it was not, which is why the mapping
reads the disk and not the memory. The entries' guards come from `Inv`: that the lane
still owns an open record without a verdict (`LaneSafe`), that nothing was requested before, and that what was told
is what is on disk.

`EngineUsesJournal` (`Spec => JP!JournalSpec`, where `JP` is `JournalProofs` with the engine's tasks, intents and
reports) composes the two: every step of the engine is one call of the `Journal` module with a record of
its type, an opening, the end of the process, or no call. `EngineJournalIsKept` cites the theorems
of `JournalProofs` for the engine's own journal: its inventory is exact, it can always be opened again, it offers
every owed result, and its history is permanent.

`TransportProofs`: one inductive invariant over memory, messages, tasks and journal. The hard part
is that the Manager's knowledge, two channels, up to two receipts being saved and a running delivery change
at different times:

- `FinalIsWitnessed`: a final report that is held, sent, or about to be, is the one in the journal,
  or the refusal of an operation the journal does not have, or the Manager has it already.
- `KnownIsRecorded`: what the Manager knows for good stays in the journal until it is closed.
- `ReceiptsComeLast`, `ClosedIsOver`: no task follows a closing receipt, on the way or running; so
  a delivery never meets a closed record. This uses the order of messages in a session.
- `DeliveryIsSound`, `RefusedStaysRefused`, `SavedReceiptsSettle`, `BegunIsReported`: what one delivery, one refusal for a
  full journal, one saved receipt and one operation begun leave behind.

From it: `FinalResultsStay` (`FinalResultsAreHeld`), `FinalResultIsOne` (`OneFinalResult`), `ManagerIsFirst`
(`ManagerClosesFirst`), `ShutdownIsSettled` (`CleanShutdownIsSettled`). It also shows that a Manager that keeps to the protocol
is never answered `Rejected.OperationAlreadyCompleted`.

`SessionKeepsLedger` (`Spec => ImplementsLedger` of `TransportRefinement`) ties the two models of the engine together by
one abstract specification. Every write of the session's engine is one of five entries (`Entry`: claimed, remembered,
decided, compacted, received), every other step is a stutter or tells the Manager the verdict that the
ledger has. It needs one invariant more, `UncertainAfterIntent`: an uncertain report on disk has an intent
beside it, without which a finalized receipt could close an operation that never had an effect or a verdict.

`ProvisioningProofs`: `TypeCorrect` (`ProvisioningTypeOK`), `AcceptedIsKept` (`AcceptedCredentialIsKept`), `EnrolledWasAccepted`
(`EnrolledIsAccepted`), `LoginStaysCurrent` (`LoginIsCurrent`) and `ServiceKeepsIdentity` (`RunsWithItsIdentity`), from:

- `StepsAreReady`, `LockIsHeld`: what a command has found of the documents holds at its later steps,
  because every writer holds the maintenance lock; an editor, which reads without it, reads again under
  it and changes only the endpoint.
- `EnrollmentsAreOurs`: every request on the way and every registration at the Manager is for the identity's
  device and has its credential or one it had before.
- `CodesAreSingle`, `CodesAreKnown`, `OneIsAwaited`: one valid code per device, and one request whose answer counts.
- `ConfirmedIsSettled`: once the identity is enrolled, or the command knows that it is, no request still on
  the way has a code that is valid. `EnrolledIsAccepted` alone is not inductive without it.

`CodesAreKnown` is not a formality. As long as any code could be entered at any time, the proof of
`ConfirmedIsSettled` failed, and TLC showed why with four codes: an operator enters a code that is issued only
later, and an old request enrolls with it. Codes are random (`Codes` in `Provisioning`), so the inputs are
now guarded; the run of three codes had not been large enough to show it.

Only model-checked:

- Liveness under fairness: `DeliveryEnds`, `ResultsAreConfirmed`, `PairingCompletes`, `CallEnds`,
  `HeartbeatsCatchUp`. It needs `ENABLED`, which the prover does not handle. Of `DeliveryEnds` and `CallEnds` the part
  without fairness is proved.

## 6 Abstractions and what is left out

- SHA-256 digests of tasks, reports, configurations and applications are injective: a
  thing is its own digest.
- Sunshine is external. `Apply` is what the client's code expects a request to do; a
  request may also be lost, or land late. Sunshine applies a request at most once.
- Kinds of adapter failure that the engine answers alike are one. Parsing, TLS
  and URLs are not modelled.
- A report with a snapshot may be too large: a nondeterministic choice (`Sized`).
- A failed `load` is `PersistenceFailed` without further state.
- A receipt that does not name the current report changes nothing and is a stutter.
- `pending_results` is modelled in the journals; that the engine also filters by the
  binding of the record, and rejects a task this platform has no capability for, is not.
- In `Executor` a service command is one request that lands or not, although half of a Windows
  restart may happen and leave the service stopped; `ServiceControl` has the halves. To the engine
  both are a command without a success, which is reported from what `reconcile` reads. Two readings of
  `reconcile` for a service command are kept for every target, which allows more than the code.
- In `Executor` the deadline may pass at any step of the lane; how three clocks decide is in
  `Deadline`, and no clock can keep it from passing.
- `ServiceControl` has one service and one call; `SystemdUser` and `SystemdSystem` are one mode.
  `sc.exe` fails for a command the service's state does not allow. A process that the timeout
  kills may have handed over its command before.
- `LogPages` takes a log in UTF-8 of at most 64 MiB; the other answers are errors that change
  nothing. The words that mark a secret are one byte, and `LogLines` are lines, or parts of one, that hold a
  secret only together with its mark: a line without one of these words is none to `log_page`.
- `Heartbeat` cuts a task down to a write, a reading and a result. Only the tasks that may change
  something are in it: the end of a read does not set `mutation_completed`, so that a
  heartbeat after a `ReadConfig` may be older than what that task returned, and no property denies it.
- `Transport` leaves out what a heartbeat reports about Sunshine (`Heartbeat`), progress messages,
  back-off, and messages that do not decode. A failed handshake is a session that did not
  begin; a credential rejected there ends `run()` as a revocation does. Its engine knows
  no deadline and no second task under one ID, which `Executor` covers.
- When `run()` returns, its tasks are dropped with the runtime, which is what the
  process does next.
- `Provisioning` knows one Manager: the refusals to pair with another one are left out. A
  configuration is a code, an endpoint and a login; the revision an edit is checked
  against is the endpoint, as in the code. The branch of `execute_pair` for an empty code is not
  reachable, because its input is validated before. The setup wizard, the archiving and
  resetting an installer does, and the journal checks around them are left out.
- Not modelled: the service wrapper for Windows, output and argument parsing, packaging,
  release scripts, access control lists.

The Manager may show an older configuration than Sunshine has, and no property denies it: after
a heartbeat with A and a result with B, a local user who restores A before the next observation
brings back the revision that this session sent last (`src/transport.rs:356`), so that it is not sent
again. `HeartbeatsCatchUp` is about heartbeats only. Nothing in the repository promises more.

Two races are by design and no property denies them: `SaveConfig` may overwrite a
local edit made after its reading, and an application request goes to a position that
may have changed since the last reading. The code says so (`src/engine.rs:899`,
`src/adapter.rs:1024`); the models contain both, and the runs show that neither leads
to a false report.

## 7 Findings

**Truncated inventory on Windows** (`WindowsTruncatedScan`, documentation and code
disagree). `WindowsJournal::open` rebuilds its inventory from `names()`, whose query
ends in `LIMIT 4098` (`src/storage/sqlite.rs:89`), while up to 1,000,000 identities are
admitted (`src/windows_journal.rs:92`). After a restart with more rows, results that
the Manager has not confirmed and whose names sort last are neither offered again nor
counted. `docs/usage.md:23` says that task results are kept durably and reporting
continues after a reconnection. `WindowsJournal` shows what still holds: such an ID
is not executed or given away again, because `load` reads the row.

**A receipt for a superseded result ends the client** (`TransportLateReceipt`, comment and code
disagree). `src/transport.rs:305` says that an inspection "must collect fresh evidence even when the receipt
for an earlier uncertain result is still being saved". A heartbeat has offered uncertain report
A twice; the Manager confirms the first, asks for an inspection, and confirms the second. If
the inspection has stored report B meanwhile, the second receipt does not match `completed`
(`src/transport.rs:283`), `run()` returns `Protocol`, and the process exits with 10.

**A first receipt that loses the mutex to an inspection ends the client**
(`TransportReceiptRace`). `src/engine.rs:249` says "A receipt for an older uncertain observation can
race a new inspection result" and returns `Ok` if the older report had been accepted before.
When the receipt in question is the first for that report, nothing was accepted yet:
`acknowledge_final` returns `Storage`, `run()` returns `Configuration` (`src/transport.rs:333`), and the
process exits with 2. The same line is reached when the Manager accepts an `Unknown` that was
never saved, such as `NoExecutionRecord` for a record a crash left behind. Both exits are in
`RestartPreventExitStatus` of `deploy/xscc.service:17`. Neither loses a result: the journal keeps
them, and the next start offers them again.

## 8 Plan

What could be added:

1. **Lemmas for liveness** of the other components, as for the lane and the service command: what a
   heartbeat or a resumed pairing brings closer.
2. The theorems of `JournalProofs` for the journal inside `Transport`, as for the engine's, and the Windows
   journal under the engine.
3. The setup wizard, and changes of capabilities and bindings between runs of the process.
