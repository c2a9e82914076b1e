------------------------------- MODULE Commands -------------------------------
(***************************************************************************)
(* The deployment commands of the ltc app runner command factory           *)
(* (src/unnamed/part_000): createApp (201-322), scaleApp and               *)
(* setAppInstances (328-385), updateAppRoutes (346-368), removeApp         *)
(* (409-433), with pollUntilAllInstancesRunning (387-407) and the          *)
(* convergence loop pollUntilSuccess (435-449) they wait in.               *)
(*                                                                         *)
(* One behaviour is one invocation of one command on a single control      *)
(* thread.  The validation and the request of a handler are one step; the  *)
(* poll loop is a step per deadline check, predicate call and sleep, as in *)
(* Poller.tla, and the cluster changes between any two of them.  The       *)
(* cluster (the app runner's receptor, outside src/) is modelled from      *)
(* spec.md section 6: one app, whose instances start up to the cluster's   *)
(* capacity, crash, fail to be placed beyond it, and are deleted after a   *)
(* remove request; every request and every query may fail.  The exit      *)
(* handler, also outside src/, ends the process (os.Exit), so deferred     *)
(* calls do not run.  Output is the set of kinds of message said.          *)
(***************************************************************************)
EXTENDS Integers, Sequences, GoStrings

CONSTANTS
  Timeout,        \* factory.timeout, in ticks
  Interval,       \* the 1-second Sleep of the poll loop, in ticks
  Capacity,       \* instances the cluster can place
  CreateInputs,   \* set of create invocations (see CreateInput)
  ScaleInputs,    \* set of scale invocations (see ScaleInput)
  RouteInputs,    \* set of update-routes invocations (see RouteInput)
  RemoveInputs,   \* set of remove invocations (see RemoveInput)
  InitialApps,    \* set of states the app can be in on the cluster
  NotAnInteger,   \* model value: an instance count strconv.Atoi rejects
  MissingArg      \* model value: an absent positional argument ("")

ASSUME TimeoutAssumption  == Timeout \in Nat
ASSUME IntervalAssumption == Interval \in Nat \ {0}
ASSUME CapacityAssumption == Capacity \in Nat

Ports  == INSTANCE PortConfig WITH PortsFlags <- {}, MonitoredFlags <- {},
                                   Metadatas <- {}, NoResult <- "none",
                                   args <- "none", out <- "none"
Router == INSTANCE Routes WITH RoutesFlags <- {}, NoResult <- "none",
                               flag <- "none", first <- "none", second <- "none"

VARIABLES
  cmd,       \* the command invoked: "create", "scale", "routes" or "remove"
  in,        \* its arguments and flags, and what the image metadata says
  pc,        \* where the command's thread is
  now,       \* clock.Now()
  start,     \* startingTime of the poll
  ok,        \* the value pollUntilSuccess returned
  fatal,     \* placementErrorOccurred
  seen,      \* what the last predicate call read from the cluster
  app,       \* the app on the cluster
  logs,      \* the tailed-logs goroutine has been started
  stopped,   \* tailedLogsOutputter.StopOutputting() has been called
  said,      \* the kinds of message written to the terminal
  exitCode   \* the code given to exitHandler.Exit, or "none"

vars == <<cmd, in, pc, now, start, ok, fatal, seen, app, logs,
          stopped, said, exitCode>>

Ended == {"returned", "exited", "panicked"}

\* Arguments.  argc is len(context.Args()); sep: Args().Get(2) == "--";
\* startCmd: Args().Get(3) != "".  portsFlag and routesFlag are split as in
\* PortConfig.tla and Routes.tla; meta is the fetched image metadata.
CreateInput ==
  [argc : 0..6, sep : BOOLEAN, startCmd : BOOLEAN, cpu : Int, fetchOK : BOOLEAN,
   ports : Seq(Seq(Int)), monitored : Int, noMonitor : BOOLEAN,
   metaPorts : [monitored : Int, exposed : Seq(Int)], metaStart : BOOLEAN,
   routes : Seq(Seq(Seq(Int))), instances : Nat]
ScaleInput  == [name : BOOLEAN, instances : {MissingArg, NotAnInteger} \cup Nat]
RouteInput  == [name : BOOLEAN, routes : Seq(Seq(Seq(Int)))]
RemoveInput == [name : BOOLEAN]

App == [exists : BOOLEAN, desired : Nat, running : Nat, unplaced : BOOLEAN,
        removing : BOOLEAN, routes : Seq([port : Int, prefix : Seq(Int)])]

\* The app the cluster holds when the command starts is an app record.
ASSUME InitialAppsAssumption == InitialApps \subseteq App

NoRead == [err |-> TRUE, running |-> 0, placement |-> FALSE, exists |-> FALSE]

-----------------------------------------------------------------------------
(* createApp *)

\* The switch of lines 219-231.  Go's switch stops at the first true case,
\* so with more than four arguments the CPU weight is never checked.
CreateUsageError(i) ==
  \/ i.argc < 2
  \/ i.startCmd /\ ~i.sep
  \/ i.argc <= 4 /\ (i.cpu < 1 \/ i.cpu > 100)

CreatePorts(i) ==
  Ports!GetPortConfigFromArgs(i.ports, i.monitored, i.noMonitor, i.metaPorts)

CreateRoutes(i) == Router!ParseRouteOverrides(i.routes)

\* The checks of lines 233-281, each an early return.
CreateInputError(i) ==
  \/ ~i.fetchOK
  \/ ~CreatePorts(i).ok
  \/ ~i.startCmd /\ ~i.metaStart
  \/ ~CreateRoutes(i).ok

\* Lines 201-281: a usage or input error is said and nothing is requested.
CreateRejected ==
  /\ pc = "start" /\ cmd = "create"
  /\ \/ CreateUsageError(in) /\ said' = said \cup {"usage"}
     \/ ~CreateUsageError(in) /\ CreateInputError(in) /\ said' = said \cup {"error"}
  /\ pc' = "returned"
  /\ UNCHANGED <<cmd, in, now, start, ok, fatal, seen, app,
                 logs, stopped, exitCode>>

\* Lines 283-309: CreateDockerApp, then start tailing logs, defer stopping
\* them, and poll.  The cluster refuses to create an app that exists.
CreateSubmitted ==
  /\ pc = "start" /\ cmd = "create"
  /\ ~CreateUsageError(in) /\ ~CreateInputError(in)
  /\ \/ /\ ~app.exists
        /\ app' = [exists |-> TRUE, desired |-> in.instances, running |-> 0,
                   unplaced |-> FALSE, removing |-> FALSE,
                   routes |-> CreateRoutes(in).routes]
        /\ logs' = TRUE
        /\ pc' = "poll"
        /\ UNCHANGED said
     \/ /\ pc' = "returned"
        /\ said' = said \cup {"error"}
        /\ UNCHANGED <<app, logs>>
  /\ UNCHANGED <<cmd, in, now, start, ok, fatal, seen, stopped,
                 exitCode>>

\* Lines 311-321 after a poll without placement error: success is said when
\* the poll converged; then a URL per segment of the --routes flag, each
\* strings.Split(route, ":")[1], which panics on a segment without a colon
\* (an empty one); otherwise one URL for the app name.  The deferred
\* StopOutputting runs on return and while panicking.
CreateReport ==
  /\ pc = "finish" /\ cmd = "create" /\ ~fatal
  /\ LET tooLong   == IF ok THEN {"running"} ELSE {"tooLong"}
         overrides == CreateRoutes(in).routes # <<>>
         panics    == overrides /\ \E s \in 1..Len(in.routes) : Len(in.routes[s]) < 2
     IN  /\ said' = said \cup tooLong \cup (IF panics THEN {} ELSE {"urls"})
         /\ pc' = IF panics THEN "panicked" ELSE "returned"
  /\ stopped' = logs
  /\ UNCHANGED <<cmd, in, now, start, ok, fatal, seen, app, logs,
                 exitCode>>

-----------------------------------------------------------------------------
(* scaleApp and setAppInstances *)

ScaleUsageError(i) == ~i.name \/ i.instances = MissingArg \/ i.instances = NotAnInteger

\* Lines 328-378: the arguments are checked, then ScaleApp; the cluster
\* refuses to scale an app that does not exist.
ScaleRequested ==
  /\ pc = "start" /\ cmd = "scale"
  /\ \/ ScaleUsageError(in) /\ pc' = "returned" /\ said' = said \cup {"usage"}
                            /\ UNCHANGED app
     \/ /\ ~ScaleUsageError(in) /\ app.exists
        /\ app' = [app EXCEPT !.desired = in.instances]
        /\ pc' = "poll"
        /\ UNCHANGED said
     \/ /\ ~ScaleUsageError(in)
        /\ pc' = "returned" /\ said' = said \cup {"error"}
        /\ UNCHANGED app
  /\ UNCHANGED <<cmd, in, now, start, ok, fatal, seen, logs,
                 stopped, exitCode>>

\* Lines 380-384 after a poll without placement error.
ScaleReport ==
  /\ pc = "finish" /\ cmd = "scale" /\ ~fatal
  /\ said' = said \cup (IF ok THEN {"scaled"} ELSE {"tooLong"})
  /\ pc' = "returned"
  /\ UNCHANGED <<cmd, in, now, start, ok, fatal, seen, app, logs,
                 stopped, exitCode>>

\* Lines 399-401: placementErrorOccurred: exitHandler.Exit(PlacementError).
\* The process ends here; createApp's deferred StopOutputting never runs.
PlacementExit ==
  /\ pc = "finish" /\ cmd \in {"create", "scale"} /\ fatal
  /\ exitCode' = "PlacementError"
  /\ pc' = "exited"
  /\ UNCHANGED <<cmd, in, now, start, ok, fatal, seen, app, logs,
                 stopped, said>>

-----------------------------------------------------------------------------
(* updateAppRoutes *)

\* Lines 346-368: the arguments are checked, the routes parsed, then
\* UpdateAppRoutes; no convergence wait.
RoutesUpdated ==
  /\ pc = "start" /\ cmd = "routes"
  /\ LET parsed == Router!ParseRouteOverrides(in.routes)
         usage  == ~in.name \/ in.routes = <<<<<<>>>>>>
     IN  \/ usage /\ said' = said \cup {"usage"} /\ UNCHANGED app
         \/ ~usage /\ ~parsed.ok /\ said' = said \cup {"error"} /\ UNCHANGED app
         \/ /\ ~usage /\ parsed.ok /\ app.exists
            /\ app' = [app EXCEPT !.routes = parsed.routes]
            /\ said' = said \cup {"updating"}
         \/ ~usage /\ parsed.ok /\ said' = said \cup {"error"} /\ UNCHANGED app
  /\ pc' = "returned"
  /\ UNCHANGED <<cmd, in, now, start, ok, fatal, seen, logs,
                 stopped, exitCode>>

-----------------------------------------------------------------------------
(* removeApp *)

\* Lines 409-422: the argument is checked, then RemoveApp.
RemoveRequested ==
  /\ pc = "start" /\ cmd = "remove"
  /\ \/ ~in.name /\ pc' = "returned" /\ said' = said \cup {"usage"} /\ UNCHANGED app
     \/ /\ in.name /\ app.exists
        /\ app' = [app EXCEPT !.removing = TRUE, !.desired = 0]
        /\ pc' = "poll"
        /\ UNCHANGED said
     \/ in.name /\ pc' = "returned" /\ said' = said \cup {"error"} /\ UNCHANGED app
  /\ UNCHANGED <<cmd, in, now, start, ok, fatal, seen, logs,
                 stopped, exitCode>>

\* Lines 428-432.
RemoveReport ==
  /\ pc = "finish" /\ cmd = "remove"
  /\ said' = said \cup (IF ok THEN {"removed"} ELSE {"removeFailed"})
  /\ pc' = "returned"
  /\ UNCHANGED <<cmd, in, now, start, ok, fatal, seen, app, logs,
                 stopped, exitCode>>

-----------------------------------------------------------------------------
(* pollUntilSuccess, with the predicates of lines 389-397 and 423-426 *)

\* The instance count the command waits for.
Target == IF cmd = "remove" THEN 0 ELSE in.instances

PollBegin ==
  /\ pc = "poll"
  /\ start' = now
  /\ pc' = "loop"
  /\ UNCHANGED <<cmd, in, now, ok, fatal, seen, app, logs,
                 stopped, said, exitCode>>

LoopEnter ==
  /\ pc = "loop"
  /\ now < start + Timeout
  /\ pc' = "call"
  /\ UNCHANGED <<cmd, in, now, start, ok, fatal, seen, app, logs,
                 stopped, said, exitCode>>

TimeOut ==
  /\ pc = "loop"
  /\ ~(now < start + Timeout)
  /\ pc' = "finish"
  /\ ok' = FALSE
  /\ UNCHANGED <<cmd, in, now, start, fatal, seen, app, logs,
                 stopped, said, exitCode>>

\* The predicate has returned r: return true, or go on to Sleep.
PollAnswer(r) ==
  /\ pc' = IF r THEN "finish" ELSE "sleep"
  /\ ok' = r

\* Mutant: the predicate records a placement error but forgets to return
\* true, so the poll goes on.
PollInstancesNoReturn ==
  /\ pc = "call" /\ cmd \in {"create", "scale"}
  /\ \E failed \in BOOLEAN :
       LET read == IF failed THEN NoRead
                   ELSE [err |-> FALSE, running |-> app.running,
                         placement |-> app.unplaced, exists |-> app.exists]
       IN  /\ seen' = read
           /\ fatal' = (fatal \/ read.placement)
           /\ PollAnswer(read.running = Target)
  /\ UNCHANGED <<cmd, in, now, start, app, logs, stopped, said, exitCode>>

\* RunningAppInstancesInfo(appName): its error is discarded and a failed
\* query reads as 0 running instances and no placement error.  A placement
\* error sets placementErrorOccurred and ends the poll.
PollInstances ==
  /\ pc = "call" /\ cmd \in {"create", "scale"}
  /\ \E failed \in BOOLEAN :
       LET read == IF failed THEN NoRead
                   ELSE [err |-> FALSE, running |-> app.running,
                         placement |-> app.unplaced, exists |-> app.exists]
       IN  /\ seen' = read
           /\ fatal' = (fatal \/ read.placement)
           /\ PollAnswer(read.placement \/ read.running = Target)
  /\ UNCHANGED <<cmd, in, now, start, app, logs, stopped, said, exitCode>>

\* Mutant: the predicate returns !appExists, ignoring the error.
PollExistsIgnoringErr ==
  /\ pc = "call" /\ cmd = "remove"
  /\ \E failed \in BOOLEAN :
       LET read == IF failed THEN NoRead
                   ELSE [err |-> FALSE, running |-> app.running,
                         placement |-> FALSE, exists |-> app.exists]
       IN  /\ seen' = read
           /\ PollAnswer(~read.exists)
  /\ UNCHANGED <<cmd, in, now, start, fatal, app, logs, stopped, said, exitCode>>

\* AppExists(appName): converged when it answers without error that the
\* app does not exist.
PollExists ==
  /\ pc = "call" /\ cmd = "remove"
  /\ \E failed \in BOOLEAN :
       LET read == IF failed THEN NoRead
                   ELSE [err |-> FALSE, running |-> app.running,
                         placement |-> FALSE, exists |-> app.exists]
       IN  /\ seen' = read
           /\ PollAnswer(~read.err /\ ~read.exists)
  /\ UNCHANGED <<cmd, in, now, start, fatal, app, logs, stopped, said, exitCode>>

\* Mutant: the clock's Sleep returns without the clock having advanced.
SleepNoAdvance ==
  /\ pc = "sleep"
  /\ now' = now
  /\ pc' = "loop"
  /\ UNCHANGED <<cmd, in, start, ok, fatal, seen, app, logs,
                 stopped, said, exitCode>>

\* clock.Sleep(1 * time.Second), under the fake clock of the tests.
Sleep ==
  /\ pc = "sleep"
  /\ now' = now + Interval
  /\ pc' = "loop"
  /\ UNCHANGED <<cmd, in, start, ok, fatal, seen, app, logs,
                 stopped, said, exitCode>>

-----------------------------------------------------------------------------
(* The cluster, from spec.md section 6 *)

InstanceStarts ==
  /\ app.exists /\ ~app.removing
  /\ app.running < app.desired /\ app.running < Capacity
  /\ app' = [app EXCEPT !.running = @ + 1]
  /\ UNCHANGED <<cmd, in, pc, now, start, ok, fatal, seen, logs,
                 stopped, said, exitCode>>

\* An instance crashes or is stopped after a scale down.
InstanceStops ==
  /\ app.running > 0
  /\ app' = [app EXCEPT !.running = @ - 1]
  /\ UNCHANGED <<cmd, in, pc, now, start, ok, fatal, seen, logs,
                 stopped, said, exitCode>>

\* The auction cannot place the instances beyond the capacity, and stops
\* reporting it once they are no longer desired.
PlacementChanges ==
  /\ app.exists
  /\ app.unplaced # (app.desired > Capacity)
  /\ app' = [app EXCEPT !.unplaced = ~@]
  /\ UNCHANGED <<cmd, in, pc, now, start, ok, fatal, seen, logs,
                 stopped, said, exitCode>>

AppDeleted ==
  /\ app.exists /\ app.removing /\ app.running = 0
  /\ app' = [app EXCEPT !.exists = FALSE, !.unplaced = FALSE]
  /\ UNCHANGED <<cmd, in, pc, now, start, ok, fatal, seen, logs,
                 stopped, said, exitCode>>

-----------------------------------------------------------------------------
Init ==
  /\ \/ cmd = "create" /\ in \in CreateInputs
     \/ cmd = "scale"  /\ in \in ScaleInputs
     \/ cmd = "routes" /\ in \in RouteInputs
     \/ cmd = "remove" /\ in \in RemoveInputs
  /\ app \in InitialApps
  /\ pc = "start"
  /\ now = 0 /\ start = 0
  /\ ok = FALSE /\ fatal = FALSE
  /\ seen = NoRead
  /\ logs = FALSE /\ stopped = FALSE
  /\ said = {}
  /\ exitCode = "none"

Client ==
  \/ CreateRejected \/ CreateSubmitted \/ CreateReport
  \/ ScaleRequested \/ ScaleReport \/ PlacementExit
  \/ RoutesUpdated
  \/ RemoveRequested \/ RemoveReport
  \/ PollBegin \/ LoopEnter \/ TimeOut \/ PollInstances \/ PollExists \/ Sleep

Cluster == InstanceStarts \/ InstanceStops \/ PlacementChanges \/ AppDeleted

Next == Client \/ Cluster

\* The command's thread is never stopped for good (the clock's Sleep and
\* every cluster call return); the cluster promises no progress at all.
Spec == Init /\ [][Next]_vars /\ WF_vars(Client)

-----------------------------------------------------------------------------
Said == {"usage", "error", "running", "tooLong", "urls", "scaled", "updating",
         "removed", "removeFailed"}

TypeOK ==
  /\ cmd \in {"create", "scale", "routes", "remove"}
  /\ pc \in {"start", "poll", "loop", "call", "sleep", "finish"} \cup Ended
  /\ now \in Nat /\ start \in Nat
  /\ ok \in BOOLEAN /\ fatal \in BOOLEAN
  /\ seen \in [err : BOOLEAN, running : Nat, placement : BOOLEAN, exists : BOOLEAN]
  /\ app \in App
  /\ logs \in BOOLEAN /\ stopped \in BOOLEAN
  /\ said \subseteq Said
  /\ exitCode \in {"none", "PlacementError"}

(***************************************************************************)
(* PlacementIsFatal: spec.md section 8: once a poll of create or scale     *)
(* reads a placement error, the command never says it succeeded, and it    *)
(* ends by exiting with the PlacementError code; that code is given only   *)
(* after a placement error was read.  The fatal flag is set inside the     *)
(* predicate and read after the loop returns.                              *)
(***************************************************************************)
PlacementIsFatal ==
  /\ fatal => /\ said \cap {"running", "scaled", "urls"} = {}
              /\ pc \in {"finish", "exited"}
  /\ exitCode = "PlacementError" => fatal /\ seen.placement
  /\ pc = "exited" => exitCode = "PlacementError"

(***************************************************************************)
(* RemovedMeansGone: remove says "Successfully Removed" only when the app  *)
(* no longer exists on the cluster: a failed AppExists query is never      *)
(* taken for the app's absence.                                            *)
(***************************************************************************)
RemovedMeansGone == "removed" \in said => ~app.exists

(***************************************************************************)
(* Terminates: every command returns, exits or panics: the poll ends at    *)
(* the timeout whatever the cluster does.                                  *)
(***************************************************************************)
Terminates == <>(pc \in Ended)

(***************************************************************************)
(* SuccessObserved: spec.md sections 4.5 and 7: create and scale say they  *)
(* succeeded only when the cluster reported the requested number of        *)
(* running instances; errors are never swallowed.                          *)
(***************************************************************************)
SuccessObserved ==
  said \cap {"running", "scaled"} # {} => ~seen.err /\ seen.running = Target

(***************************************************************************)
(* LogStreamStopped: spec.md section 5: once create has started streaming  *)
(* logs, StopOutputting is called on every exit path, the fatal one        *)
(* included.                                                               *)
(***************************************************************************)
LogStreamStopped == (pc \in Ended /\ logs) => stopped

(***************************************************************************)
(* CreateNeverPanics: spec.md section 4.3: empty route segments are        *)
(* skipped without error, so a --routes flag with a trailing comma is      *)
(* accepted and create completes.                                          *)
(***************************************************************************)
CreateNeverPanics == pc # "panicked"

=============================================================================
