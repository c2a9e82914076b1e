---------------------------- MODULE TaskCommands ----------------------------
(***************************************************************************)
(* The task commands of ltc: submitTask and deleteTask of                  *)
(* TaskRunnerCommandFactory                                                *)
(* (src/ltc/task_runner/command_factory/task_runner_command_factory.go     *)
(* lines 54-89).  Several ltc processes run at once against one task       *)
(* runner; each runs one command.  A handler checks its argument, reads    *)
(* the JSON file (submit) or says what it deletes (delete), makes one call *)
(* to the task runner and says the outcome.  The task runner is not in     *)
(* this repository: a request is applied, rejected, fails in transport, or *)
(* is applied and its answer lost, so the handler sees an error.           *)
(***************************************************************************)
EXTENDS Integers, Sequences, TerminalUI

CONSTANTS
  Procs,     \* the ltc processes
  Guids,     \* task guids
  Paths,     \* file paths
  Files,     \* Files[path]: Missing, or the task JSON [valid, guid] it holds
  Missing,   \* the file cannot be read
  NoArg,     \* context.Args().First() is ""
  NoName,    \* the empty task name SubmitTask returns with some errors
  Invocations \* the commands a process may run: [kind, arg]

ASSUME FilesAssumption ==
  Files \in [Paths -> {Missing} \cup [valid : BOOLEAN, guid : Guids]]

\* A command line is submit-task with a path or none, or delete-task with a
\* guid or none (cli's Args().First()).
ASSUME InvocationsAssumption ==
  Invocations \subseteq
    [kind : {"submit"}, arg : Paths \cup {NoArg}] \cup
    [kind : {"delete"}, arg : Guids \cup {NoArg}]

\* The fixed words of the messages; no guid, path or name is one of them.
Words ==
  {"Path to JSON is required", "Error reading file: ", "Error submitting ",
   ": ", "err", "Successfully submitted ", "Deleting the task ",
   "Error Deleting the task ", "Failiure Reason :", "OK",
   "Please input a valid TASK_GUID", UsagePrefix, UsageText, Newline}

ASSUME WordsAssumption ==
  (Guids \cup Paths \cup {NoName, NoArg}) \cap Words = {}

NoReply == [err |-> FALSE, name |-> NoName, none |-> TRUE]
Reply(e, n) == [err |-> e, name |-> n, none |-> FALSE]

VARIABLES
  cmd,       \* cmd[p]: the command line of process p
  pc,        \* "start", "calling" (in the task runner) or "done"
  reply,     \* reply[p]: what the task runner returned
  applied,   \* applied[p]: the task runner applied p's request (history)
  tasks,     \* the task guids the task runner holds
  said       \* said[p]: what process p wrote to its terminal

vars == <<cmd, pc, reply, applied, tasks, said>>

Init ==
  /\ cmd \in [Procs -> Invocations]
  /\ pc = [p \in Procs |-> "start"]
  /\ reply = [p \in Procs |-> NoReply]
  /\ applied = [p \in Procs |-> FALSE]
  /\ tasks \in SUBSET Guids
  /\ said = [p \in Procs |-> <<>>]

Arg(p) == cmd[p].arg

\* Lines 55-59: no path.
SubmitNoPath(p) ==
  /\ pc[p] = "start" /\ cmd[p].kind = "submit" /\ Arg(p) = NoArg
  /\ said' = [said EXCEPT ![p] = Say(@, <<"Path to JSON is required">>)]
  /\ pc' = [pc EXCEPT ![p] = "done"]
  /\ UNCHANGED <<cmd, reply, applied, tasks>>

\* Lines 61-65: ioutil.ReadFile fails.
SubmitReadFailed(p) ==
  /\ pc[p] = "start" /\ cmd[p].kind = "submit" /\ Arg(p) # NoArg
  /\ Files[Arg(p)] = Missing
  /\ said' = [said EXCEPT ![p] = Say(@, <<"Error reading file: ", Arg(p)>>)]
  /\ pc' = [pc EXCEPT ![p] = "done"]
  /\ UNCHANGED <<cmd, reply, applied, tasks>>

\* Line 67: the file is read and SubmitTask(jsonBytes) is called.
SubmitCall(p) ==
  /\ pc[p] = "start" /\ cmd[p].kind = "submit" /\ Arg(p) # NoArg
  /\ Files[Arg(p)] # Missing
  /\ pc' = [pc EXCEPT ![p] = "calling"]
  /\ UNCHANGED <<cmd, reply, applied, tasks, said>>

\* Lines 76-80: no guid.  The code calls ui.SayIncorrectUsage, which the
\* UI interface does not declare; its IncorrectUsage is modelled.
DeleteNoGuid(p) ==
  /\ pc[p] = "start" /\ cmd[p].kind = "delete" /\ Arg(p) = NoArg
  /\ said' = [said EXCEPT ![p] = IncorrectUsage(@, <<"Please input a valid TASK_GUID">>)]
  /\ pc' = [pc EXCEPT ![p] = "done"]
  /\ UNCHANGED <<cmd, reply, applied, tasks>>

\* Lines 81-82: "Deleting the task" is said, then DeleteTask is called.
DeleteCall(p) ==
  /\ pc[p] = "start" /\ cmd[p].kind = "delete" /\ Arg(p) # NoArg
  /\ said' = [said EXCEPT ![p] = Say(@, <<"Deleting the task ", Arg(p), Newline>>)]
  /\ pc' = [pc EXCEPT ![p] = "calling"]
  /\ UNCHANGED <<cmd, reply, applied, tasks>>

(***************************************************************************)
(* The task runner.  What p's request asks for, and whether it can be      *)
(* applied: a valid JSON whose guid is not yet held, or a held guid.       *)
(***************************************************************************)
Wanted(p) ==
  IF cmd[p].kind = "submit" THEN Files[Arg(p)].guid ELSE Arg(p)

Applicable(p) ==
  IF cmd[p].kind = "submit"
  THEN Files[Arg(p)].valid /\ Files[Arg(p)].guid \notin tasks
  ELSE Arg(p) \in tasks

Pending(p) == pc[p] = "calling" /\ reply[p].none

\* The request is applied; its answer arrives, or is lost on the way.
RunnerApplies(p) ==
  /\ Pending(p) /\ Applicable(p)
  /\ tasks' = IF cmd[p].kind = "submit" THEN tasks \cup {Wanted(p)}
              ELSE tasks \ {Wanted(p)}
  /\ applied' = [applied EXCEPT ![p] = TRUE]
  /\ \E lost \in BOOLEAN :
       reply' = [reply EXCEPT ![p] = Reply(lost, Wanted(p))]
  /\ UNCHANGED <<cmd, pc, said>>

\* The request is refused, or fails before it reaches the task runner.
RunnerFails(p) ==
  /\ Pending(p)
  /\ \E n \in {NoName, Wanted(p)} : reply' = [reply EXCEPT ![p] = Reply(TRUE, n)]
  /\ UNCHANGED <<cmd, pc, applied, tasks, said>>

\* The messages of the outcome of a call.
SubmitError(p) == <<"Error submitting ", reply[p].name, ": ", "err">>
SubmitSuccess(p) == <<"Successfully submitted ", reply[p].name, Newline>>
DeleteError(p) ==
  <<"Error Deleting the task ", Arg(p), Newline, "Failiure Reason :", "err", Newline>>
DeleteOK == <<"OK">>

\* Mutant: the error is said, and the missing return says success too.
SubmitReportNoReturn(p) ==
  /\ pc[p] = "calling" /\ ~reply[p].none /\ cmd[p].kind = "submit"
  /\ said' = [said EXCEPT ![p] =
                IF reply[p].err THEN Say(Say(@, SubmitError(p)), SubmitSuccess(p))
                ELSE Say(@, SubmitSuccess(p))]
  /\ pc' = [pc EXCEPT ![p] = "done"]
  /\ UNCHANGED <<cmd, reply, applied, tasks>>

\* Lines 68-72: SubmitTask returned; its error or its success is said.
SubmitReport(p) ==
  /\ pc[p] = "calling" /\ ~reply[p].none /\ cmd[p].kind = "submit"
  /\ said' = [said EXCEPT ![p] =
                IF reply[p].err THEN Say(@, SubmitError(p)) ELSE Say(@, SubmitSuccess(p))]
  /\ pc' = [pc EXCEPT ![p] = "done"]
  /\ UNCHANGED <<cmd, reply, applied, tasks>>

\* Mutant: the error is said, and the missing return says OK too.
DeleteReportNoReturn(p) ==
  /\ pc[p] = "calling" /\ ~reply[p].none /\ cmd[p].kind = "delete"
  /\ said' = [said EXCEPT ![p] =
                IF reply[p].err THEN Say(Say(@, DeleteError(p)), DeleteOK)
                ELSE Say(@, DeleteOK)]
  /\ pc' = [pc EXCEPT ![p] = "done"]
  /\ UNCHANGED <<cmd, reply, applied, tasks>>

\* Lines 83-88: DeleteTask returned; two error lines, or "OK".
DeleteReport(p) ==
  /\ pc[p] = "calling" /\ ~reply[p].none /\ cmd[p].kind = "delete"
  /\ said' = [said EXCEPT ![p] =
                IF reply[p].err THEN Say(@, DeleteError(p)) ELSE Say(@, DeleteOK)]
  /\ pc' = [pc EXCEPT ![p] = "done"]
  /\ UNCHANGED <<cmd, reply, applied, tasks>>

Handler(p) ==
  \/ SubmitNoPath(p) \/ SubmitReadFailed(p) \/ SubmitCall(p) \/ SubmitReport(p)
  \/ DeleteNoGuid(p) \/ DeleteCall(p) \/ DeleteReport(p)

Next ==
  \E p \in Procs : Handler(p) \/ RunnerApplies(p) \/ RunnerFails(p)

Spec == Init /\ [][Next]_vars

\* Type invariant.
TypeOK ==
  /\ cmd \in [Procs -> Invocations]
  /\ pc \in [Procs -> {"start", "calling", "done"}]
  /\ applied \in [Procs -> BOOLEAN]
  /\ tasks \subseteq Guids

\* The word tok occurs in the output s.
Says(s, tok) == \E i \in 1..Len(s) : s[i] = tok

\* A process that says "Successfully submitted g" (line 72) had its own
\* request applied by the task runner, g is the guid in its JSON file, and
\* it said no error: the success message follows from this call alone,
\* whatever the other processes and a failing task runner did meanwhile.
SubmitSuccessMeansSubmitted ==
  \A p \in Procs :
    cmd[p].kind = "submit" /\ Says(said[p], "Successfully submitted ") =>
      /\ applied[p]
      /\ said[p] = <<"Successfully submitted ", Files[Arg(p)].guid, Newline>>

\* A process that says "OK" (line 88) had the task deleted by its own
\* request, and said no error before it; the "Deleting the task" line
\* said before the call (line 81) promises nothing.
DeleteOKMeansDeleted ==
  \A p \in Procs :
    cmd[p].kind = "delete" /\ Says(said[p], "OK") =>
      /\ applied[p]
      /\ ~Says(said[p], "Error Deleting the task ")

=============================================================================
