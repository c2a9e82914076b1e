# A TLA+ model of lattice's `ltc` command factories and terminal UI

This directory holds a TLA+ verification of two source files of lattice's
`ltc` client:

- `src/unnamed/part_000`: the Go `AppRunnerCommandFactory`, which provides
  the `create`, `scale`, `update-routes` and `remove` commands. Bare line
  numbers below refer to this file.
- `src/ltc/task_runner/command_factory/task_runner_command_factory.go`:
  two files joined together. Lines 1-89 are `TaskRunnerCommandFactory`,
  with `submit-task` and `delete-task`. Lines 89-155 are package
  `terminal`, the UI every command writes to and reads from. Below, its
  lines are written `T:n`.

## The system and how its parts interact

An app command handler runs on one thread:

1. It checks its arguments.
2. It resolves its inputs through three pure helpers:
   - the environment resolver, `buildEnvironment`, `grabVarFromEnv` and
     `parseEnvVarPair` (455-478, 557-564);
   - the port resolver, `getPortConfigFromArgs` (480-534);
   - the route parser, `parseRouteOverrides` (536-555).
3. It sends one request to the cluster (the app runner).
4. It waits in `pollUntilSuccess` (435-449), the convergence loop. The
   loop calls a predicate that queries the cluster until the predicate
   holds or the timeout passes.
5. `pollUntilAllInstancesRunning` (387-407) wraps the loop with a
   predicate that reports a placement error through a closure variable.
   After the loop, a placement error calls `exitHandler.Exit`.
6. `createApp` starts a log-tailing goroutine and defers its stop.

A task command (`submitTask`, T:54-73; `deleteTask`, T:75-89):

1. checks its one argument;
2. reads the JSON file (submit) or says what it deletes (delete);
3. makes one call to the task runner;
4. says the outcome.

Several `ltc` processes may run task commands against the same task
runner at once.

Every handler writes through the `terminalUI` (T:99-155). `Say` writes its
message. `Prompt` writes its text and reads one line of stdin through a
fresh `bufio.Reader`.

Several things sit outside `src/` and are modelled from `spec.md`:
- the cluster;
- the task runner;
- the exit handler;
- the log outputter;
- the metadata fetcher.

## Modules

| Module | Models | State and actions |
|---|---|---|
| `GoStrings` | the Go conversions the parsers call | `strconv.Atoi` (`AtoiOK`, `Atoi`), `uint16` (`% 65536`), `strconv.Itoa`, `sort.Strings` order (`LexLess`), `strings.HasPrefix`, `strings.Join`. A string is a sequence of byte codes. |
| `Poller` | `pollUntilSuccess` | `pc now start calls result ok`. One action per step of the loop: `Begin`, `LoopEnter`, `TimeOut`, `CallConverged`, `CallFailed`, `Sleep`. Time is in ticks. `MaxDelay` bounds how long a call takes and how much `Sleep` oversleeps: 0 is the fake clock of the tests. `MaxCalls` caps `calls` for TLC; a run sets it above ceil(T/I), which `CallBudget` shows the code never reaches, so it only cuts the behaviours of a broken loop. |
| `PollerProofs` | proofs about `Poller` | see below |
| `PortConfig` | `getPortConfigFromArgs` | `GetPortConfigFromArgs` is the function, branch by branch. `Resolve` is the call at line 239. |
| `Routes` | `parseRouteOverrides` | `ParseRouteOverrides`. `Parse` is the call at 277/355. `Reparse` parses the serialized result again (spec section 8). |
| `Environment` | `buildEnvironment` and its helpers | `BuildEnvironment`. `Build` is the call at line 288. |
| `Commands` | the app handlers, `pollUntilAllInstancesRunning`, and the loop with their predicates | See the list below. Uses `PortConfig` and `Routes` through `INSTANCE`. |
| `CommandsProofs` | proofs about `Commands` | see below |
| `TerminalProofs` | proofs about `Terminal` | see below |
| `TerminalUI` | `Say`, `SayLine`, `IncorrectUsage`, `Dot`, `NewLine` (T:125-147) | Pure operators. Output is a sequence of message tokens, and `Say(out, m)` appends `m`. |
| `Terminal` | `Prompt` (T:149-155) with its `bufio.Reader` | `typed pos buf full eof pc answers out`. `typed` is stdin, `pos` what `Read` has consumed, `buf` the reader's unread bytes, `full` the buffers `collectFragments` has set aside. See below. |
| `TaskCommands` | `submitTask`, `deleteTask`, and the task runner | `cmd pc reply applied tasks said`, one entry per process. See below. |
| `TaskCommandsProofs` | proofs about `TaskCommands` | see below |

How `Commands` is built:

- **Handler steps.** One action per handler step:
  - `CreateRejected` covers every early return of 219-281. The Go
    `switch` is modelled as written, so the CPU check sits behind the
    `argc > 4` case.
  - `CreateSubmitted` (283-309), then `CreateReport` (311-321). The report
    includes the URL loop and its `[1]` index, which panics on an empty
    segment. The deferred stop runs on return and on panic.
  - `ScaleRequested` and `ScaleReport`.
  - `PlacementExit` (399-401) ends the process.
  - `RoutesUpdated` (346-368).
  - `RemoveRequested` and `RemoveReport`.
- **The poll.** `PollBegin`, `LoopEnter`, `TimeOut`, then `PollInstances`
  (the predicate of 389-397, whose query error is dropped) or `PollExists`
  (423-426), then `Sleep`.
- **The cluster** (spec-modelled):
  - `InstanceStarts` starts instances, up to `Capacity`;
  - `InstanceStops` stops one;
  - `PlacementChanges` reports or clears a placement error, which is
    reported when desired exceeds `Capacity`;
  - `AppDeleted` deletes the app after a remove.

  Any query may fail.
- **Output.** `said` is the set of kinds of report a handler makes
  (usage, error, success, time-out, URLs). Progress output is left out:
  the placement-error message of line 392, "Removing" of line 422, and
  the dots and new lines of 439-442 and 447.
- The loop's call counter and last answer are not kept: no property of
  the handlers reads them, and `Poller` checks them.

How `Terminal` is built. `ReadString('\n')` (T:153) is modelled as the
Go standard library's bufio implements it. That code is not in this
repository, so `IndexNewline`, `ReadSliceFull`, `FillData` and `FillEOF`
are marked `spec_modelled` in the map:
- `PromptBegin` makes a new reader and says the prompt. The old reader's
  buffered bytes are gone.
- `ReadSliceFound` handles a newline in the buffer: the line is returned,
  then trimmed by `TrimSuffix`.
- `ReadSliceEOF` handles EOF: the partial line is returned and the error
  ignored.
- `ReadSliceFull` handles `ErrBufferFull`: the buffer is collected.
- `FillData` is one `Read` into the free space. `FillEOF` is a `Read`
  that returns `io.EOF`.

How many bytes a `Read` returns is a free choice (`ReadSizes`). With
`LineAtATime` (stdin is a terminal in canonical mode) a `Read` never
returns bytes past a newline. Without it (a pipe or a file) it may.

How `TaskCommands` is built. There is one action per handler step:
- `SubmitNoPath`, `SubmitReadFailed` and `SubmitCall`, then
  `SubmitReport`;
- `DeleteNoGuid`, `DeleteCall` (which says "Deleting the task" before the
  call), then `DeleteReport`.

The task runner is spec-modelled:
- `RunnerApplies` applies an applicable request. Its answer may be lost,
  so the handler sees an error.
- `RunnerFails` refuses the request, or the call fails in transport.

`applied` is a history variable.

Each `MC_*` module gives the constants of its component small values for TLC.

## Runs

| Run | Checks | Shows |
|---|---|---|
| `poller_fake` | `CallBudget Outcome ExactCallCount Terminates` | With the fake clock (timeout 60 ticks, interval 2), a timed-out poll makes exactly ceil(T/I) calls. A poll converging at the k-th call ends at (k-1)·I. The loop always returns. |
| `poller_real` | `CallBudget Outcome Terminates` | With calls and oversleeps of up to 2 ticks (timeout 10), the poll never exceeds the budget, never returns false before the deadline, and returns. |
| `poller_spec_count` | `SpecTimedOutCallCount` (violation) | Spec section 8 claims floor(T/I)+1 calls. The strict `After` at line 437 gives T/I calls when I divides T. |
| `port_config` | `AgreesWithSpec` | On every input of small sets without sign characters, the result equals the policy of spec section 4.2. |
| `routes_round_trip` | `RoundTrip` | Parsing the serialized form of any parsed list of up to two segments gives the same list. |
| `environment` | `TypeOK` | No name of the built environment contains `=`, whatever the tokens and the inherited environment hold: a name is the part of its token before the first `=` (`strings.Split`, 558). |
| `commands` | `PlacementIsFatal RemovedMeansGone Terminates` | Against a cluster that changes and fails between any two steps: a placement error read in any poll ends the poll, no success is said, and the process exits. "Successfully Removed" is said only for an app that is gone. Every command ends. |
| `commands_success` | `SuccessObserved` (violation) | A failed `RunningAppInstancesInfo` reads as 0 running. Scaling to 0 then says "App Scaled Successfully" although the cluster never answered (line 390). |
| `commands_panic` | `CreateNeverPanics` (violation) | `--routes 80:w,` is accepted by the parser, then `strings.Split("", ":")[1]` panics at line 317. |
| `terminal` | `PromptReadsNextLine PromptReturns` | On a terminal, however the `Read`s split stdin, the k-th `Prompt` returns the k-th typed line without its newline, and "" at end of input. Every `Prompt` returns. |
| `terminal_pipe` | `PromptReadsNextLine` (violation) | From a pipe, stdin `\na`: the first `Prompt` returns "", but its reader has already buffered the `a`, which is dropped with it, so the second `Prompt` returns "" at EOF instead of `a` (T:150). |
| `task_commands` | `SubmitSuccessMeansSubmitted DeleteOKMeansDeleted` | Two processes, one guid, a task runner that applies, refuses, fails or loses answers. "Successfully submitted g" is said only by a process whose own request was applied, with g its file's guid. "OK" is said only after the process's own delete, never after an error line. |

Three more divergences have a module property and a cfg but no run. Each
is listed as a hazard:
- `PortsWithinRange` (`PortConfig_PortsWithinRange.cfg`): `"-1"` passes
  `Atoi` and the `> 65535` test, and is exposed as port 65535 (517).
- `InheritedByExactName` (`Environment_InheritedByExactName.cfg`): a bare
  `A` inherits the value of `AB=1` (`HasPrefix`, 472).
- `LogStreamStopped` (`Commands_LogStreamStopped.cfg`): on a placement
  error `Exit` ends the process before the deferred `StopOutputting`
  (307, 400).

More divergences were found while modelling. No run checks them; each is
listed as a hazard:
- a route port wraps to 16 bits (549);
- a route is split on every colon, so `80:w:a` gets prefix `w` (543);
- an env value is cut at its second `=`, and an explicit `A=` takes the
  inherited value (559);
- with more than four arguments the CPU weight is never checked (225);
- URLs are printed after a timeout (315);
- the monitored-port flag is never checked against the listed ports (522).

`deleteTask` calls `ui.SayIncorrectUsage` (T:78), which the `UI`
interface of T:99-109 does not declare. That is a build question, not
behaviour; the model uses `IncorrectUsage`.

Every property of a passing run has a mutant in `PROJECT.json`. A mutant
is a plausible bug in the mapped code (for example `<=` for the deadline
test, a clock `Sleep` that returns without the clock advancing, or a
missing `return` after an error report), and TLC finds the property
violated under the mutant.

### Bounds

- **Poller.** `T = 60, I = 2` gives 30 polls. The mutants show that this
  is enough for an off-by-one in the deadline to break both the budget and
  the exact count. The real-clock instance `T = 10, I = 2, MaxDelay = 2`
  lets delays push a call past the deadline, and lets an oversleep jump
  over the deadline. `MaxCalls` is one above the budget in both.
- **Commands.** `Timeout = 3` ticks, `Interval = 1`, `Capacity = 1`:
  - three polls let an instance start, crash or be unplaced between polls;
  - a request for 2 instances cannot be placed, so placement errors occur;
  - a request for 1 can converge.
- **Parsers.** The inputs cover one and two elements built from valid,
  negative, too large, non-numeric and empty pieces. Every branch of each
  parser is reached.
- **Terminal.** Stdin is every string of up to 4 bytes over `a` and `\n`.
  The buffer holds 2 bytes, and there are 3 prompts. So a line can be
  longer than the buffer (`ErrBufferFull`, collected fragments), a line
  can be empty, stdin can end without a newline, and a prompt can come
  after EOF.
- **TaskCommands.** There are two processes and one guid. The files hold
  a valid task (`Good`), an invalid JSON (`Bad`), or cannot be read
  (`Gone`). Each process may run any command line. So both processes can
  submit the same guid, one can delete what the other submitted, and a
  lost answer can follow an applied request.

### Fairness

- `Poller` has weak fairness on `Next`. The loop is one goroutine whose
  calls and sleeps return.
- `Commands` has weak fairness on the command thread (`Client`) only. The
  cluster is given no fairness: the code promises to end whatever the
  cluster does.
- `Terminal` has weak fairness on `Next`. `Prompt` runs on the caller's
  goroutine, and every `Read` returns. A `Read` that never returns is
  outside what the code can handle.
- `TaskCommands` is checked for safety only. Its properties hold whatever
  the task runner does, including doing nothing.

`terminal` and `task_commands` disable the deadlock check: after the last
prompt, and after every process is done, the system really stops.

## Proofs (TLAPS)

`PollerProofs` proves three theorems for all `Timeout \in Nat`,
`Interval \in Nat \ {0}`, `MaxDelay \in Nat` and `MaxCalls \in Nat`, the
assumptions `Poller` states (the cap `MaxCalls` only adds a guard, so the
theorems hold whatever it is):
- `TypeCorrect`: `Spec => []TypeOK`;
- `CallBudgetHolds`: `Spec => []CallBudget`;
- `OutcomeHolds`: `Spec => []Outcome`.

`CallBudget` is not inductive. The strengthening `IInv` is
`TypeOK /\ Clock /\ Outcome`. `Clock` records four facts:

- in `loop` and `call`, every earlier iteration used a whole interval:
  `now >= start + calls * Interval`;
- in `call`, the deadline check has passed: `now < start + Timeout`;
- the last call was made before the deadline:
  `calls = 0 \/ (calls - 1) * Interval < Timeout`;
- before `done`, the last answer was FALSE.

`BudgetArith` turns the third fact into `calls <= ceil(T/I)`. The fact
is preserved because a call happens only in `call`, after a passed
deadline check with `now >= start + calls * Interval`. `Outcome` needs
the last fact, and `TimeOut` needs the deadline.

The proof has one case per action of `Next`. The type part is split: SMT
proves the numeric conjuncts and Zenon the Boolean ones.

Two more theorems in `PollerProofs`:
- `ExactCallCountHolds`: `Spec => []ExactCallCount`. The strengthening
  `Exact` applies only when `MaxDelay = 0`. It gives, for each place,
  the exact clock: `now = start + calls * Interval` in `loop` and `call`,
  and `(calls - 1) * Interval` in `sleep` and after a convergence.
  After a time-out it gives `calls = CeilDiv(Timeout, Interval)`.
  `TimeOut` reaches that count through `CeilExact`: a `c` with
  `c * I >= T` and `(c - 1) * I < T` is `ceil(T / I)`. `Exact` is proved
  together with `IInv`, which it needs for the types and the deadline.
- `StepMonotoneHolds`: `Spec => [][StepMonotone]_vars`, an action
  property. No step moves `now` back or lowers `calls`. No step after
  `Begin` changes `start`, so the deadline is read once. No step changes
  `pc` or `ok` once the function has returned.

`CommandsProofs` proves three theorems. They hold for every `Timeout`,
`Interval` and `Capacity`, and for any initial app. The assumptions are
those `Commands` states; `InitialAppsAssumption` says the initial app is
an app record.
- `InvariantHolds`: `Spec => []IInv`;
- `PlacementIsFatalHolds`: `Spec => []PlacementIsFatal`;
- `RemovedMeansGoneHolds`: `Spec => []RemovedMeansGone`.

`IInv` has four parts:
- `Typed`: the types the proof needs. These are the app's fields
  `exists` and `unplaced`, and the loop's counters and flags.
- `Phases`: none of the modelled reports is said before a handler
  returns, and `ok` is false until the loop returns. This is a fact of
  the model's `said`, which leaves out the progress output of lines 392,
  422 and 442; the code does write those before it returns.
- `Placement`: `fatal` is set only in create and scale, after a read
  placement error, and then the handler is at `finish` or has exited.
  The exit code and `exited` imply each other. With `Phases` this
  gives `PlacementIsFatal`: while `fatal` is set the handler has not
  returned, so it has said nothing.
- `Removal`: a remove that finishes with `ok` saw the app gone. Only
  the create handler makes an app, so during a remove it never comes
  back, and "removed" is said only while it is gone.

`TaskCommandsProofs` proves three theorems. They hold for any sets of
processes, guids and paths, and any `Files`, under the assumptions
`TaskCommands` states:
- `FilesAssumption`;
- `InvocationsAssumption`;
- `WordsAssumption`: no guid, path or name is one of the fixed message
  words.

The theorems:
- `InvariantHolds`: `Spec => []IInv`;
- `SubmitSuccessHolds`: `Spec => []SubmitSuccessMeansSubmitted`;
- `DeleteOKHolds`: `Spec => []DeleteOKMeansDeleted`.

The two properties are not inductive, because a report step writes its
message from `reply[p]` alone. `IInv` adds three things:
- the types of `reply` and `said`;
- for each place `pc[p]`, the exact output `said[p]` so far;
- every error-free reply names the guid that process asked for, and
  answers a request the task runner applied.

`NextIInv` has one lemma per action. Each lemma shows:
- the acting process's `PInv`;
- the others' `PInv`, which holds because the action leaves their
  entries unchanged (`OthersUntouched`);
- the typing.

The properties then follow from `IInv` by cases on `pc[p]`. The cases
rest on small lemmas:
- a word occurs in `s \o t` iff it occurs in `s` or in `t`
  (`SaysConcat`);
- no word occurs in a short tuple whose words all differ from it
  (`NotSays1`, `NotSays2`, `NotSays3`, `NotSays4`, `NotSays6`).

`PollerProofs` also proves `SafetyHolds`:
`SafetySpec => [](CallBudget /\ Outcome)`. The invariant proof uses
only `Init` and `[Next]_vars`, so it needs no fairness.

`TerminalProofs` proves one theorem. It holds for every stdin in
`Inputs`, every `BufSize`, every `MaxPrompts`, and both values of
`LineAtATime`, so for a pipe too. The assumptions are those `Terminal`
states. `InputsAssumption` says stdin is a sequence of bytes:
`Inputs \subseteq Seq(STRING)`.
- `AnswersAreLinesHolds`: `Spec => []AnswersAreLines`. Every answer of
  `Prompt` is one line with no `'\n'` in it, from a pipe as well as
  from a terminal. TLC checks the stronger `PromptReadsNextLine` for a
  terminal, so this theorem is the part of `Prompt`'s contract that
  survives the lost bytes of `terminal_pipe`.

`IInv` has four parts:
- `Seqs`: the sequences' types.
- `Bounds`: the reader's bounds (`pos` within stdin, `buf` within the
  buffer and what was read), and a prompt is under way only
  while another answer is allowed.
- `Flags`: the Boolean part. It is kept apart so that SMT proves
  `Bounds` and Zenon `Flags`.
- `Lines`: the collected full buffers `full` hold no newline, and every
  answer is a line.

`Lines` is the strengthening `AnswersAreLines` needs. `ReadSliceFull`
sets a buffer aside only when it has no `'\n'`. `ReadSliceFound` cuts at
the first `'\n'`, and `TrimSuffix` removes it.

The proof rests on lemmas about the model's operators:
- `LeastNat`: a non-empty set of naturals has a least element. It is
  derived from the library's `WFMin` and `NatLessThanWellFounded`. These
  have no operator parameter, so the provers can use them.
- `IndexNewlineFacts`: `IndexNewline` is 0 exactly on a line, and
  otherwise the position of the first `'\n'`. Its `CHOOSE` is shown to
  land through `LeastNat`.
- `TrimSuffixPrefix`, `PrefixOneLine`, `OneLineConcat`, `SubSeqRest`,
  `AppendLine`.
- `EOFLine` and `FoundLine`: the line returned at end of input, and the
  line cut at the first `'\n'`, are lines.

Only TLC checks the following:
- The liveness properties (`Terminates`, `PromptReturns`). The prover
  does not handle liveness under fairness or `ENABLED`.
- Every property of the parsers (`PortConfig`, `Routes`, `Environment`).
  The parsers are recursive functions over strings, and tlapm cannot
  unfold a recursive function definition such as `b[i \in 0..n] == ...`.
  That needs the library's recursion theorems, whose `Def(_,_)` operator
  parameter the provers cannot instantiate. Even `f[1]` of a one-line
  recursive function is out of reach. For the same reason
  `CommandsProofs` carries only the part of the handlers' types it needs
  (`Typed`).
- `Terminal.PromptReadsNextLine`. It compares with `SplitLines`, a
  recursive function, for the same reason.

## Not modelled

- `createAppFromJson` (324-326) is empty.
- The command registrations (54-199, T:1-52) declare cli flags.
- `urlForApp` formats a string.
- Memory, disk, privilege and working directory are passed to the
  cluster unchecked.
- The working-directory and start-command messages are output only.
- Progress dots, the placement-error message (392), "Removing" (422),
  colours and wording are output. `colors.Green` and
  `colors.Bold` are left out of the task messages.
- The `PasswordReader` embedded in `terminalUI` is not in `src/`.
- The task runner's own logic (JSON validation, storage) is not in this
  repository. It is reduced to: apply, refuse, fail, or lose the answer.

## Next steps

- State the parsers' results without a recursive function, for example
  as a set comprehension over positions, so that their properties can be
  proved.
- Model the log goroutine racing `StopOutputting`.
