------------------------- MODULE TaskCommandsProofs -------------------------
(***************************************************************************)
(* Proofs about the task commands (TaskCommands.tla, submitTask and        *)
(* deleteTask), for any number of ltc processes, guids, paths and files.  *)
(***************************************************************************)
EXTENDS TaskCommands, SequenceTheorems, TLAPS

\* What deleteTask says before it calls the task runner (line 81).
Deleting(p) == <<"Deleting the task ", Arg(p), Newline>>

\* The early-return messages of both handlers (lines 57, 63, 78).
EarlyOutputs(p) ==
  {<<"Path to JSON is required">>, <<"Error reading file: ", Arg(p)>>,
   <<UsagePrefix, "Please input a valid TASK_GUID">>}

Tokens == Words \cup Guids \cup Paths \cup {NoName, NoArg}

ReplyType == [err : BOOLEAN, name : Guids \cup {NoName}, none : BOOLEAN]

(***************************************************************************)
(* The inductive invariant.  The two properties speak of what a process    *)
(* said; they are not inductive, because a report step writes its message  *)
(* from reply[p] alone.  PInv(p) records, for each place p can be in, the  *)
(* exact output so far, and that an error-free reply comes from a request  *)
(* the task runner applied, for the guid p asked for.                      *)
(***************************************************************************)
PInv(p) ==
  LET k == cmd[p].kind
      r == reply[p]
  IN /\ pc[p] = "start" => said[p] = <<>> /\ r.none
     /\ pc[p] = "calling" /\ k = "submit" =>
          said[p] = <<>> /\ Arg(p) \in Paths /\ Files[Arg(p)] # Missing
     /\ pc[p] = "calling" /\ k = "delete" =>
          said[p] = Deleting(p) /\ Arg(p) \in Guids
     /\ pc[p] = "done" /\ r.none => said[p] \in EarlyOutputs(p)
     /\ pc[p] = "done" /\ ~r.none /\ k = "submit" =>
          said[p] = IF r.err THEN SubmitError(p) ELSE SubmitSuccess(p)
     /\ pc[p] = "done" /\ ~r.none /\ k = "delete" =>
          said[p] = Deleting(p) \o (IF r.err THEN DeleteError(p) ELSE DeleteOK)
     /\ ~r.none /\ ~r.err => applied[p] /\ r.name = Wanted(p)

IInv ==
  /\ TypeOK
  /\ reply \in [Procs -> ReplyType]
  /\ said \in [Procs -> Seq(Tokens)]
  /\ \A p \in Procs : PInv(p)

\* A tuple of elements of S is a sequence over S.
LEMMA TupleSeq ==
  ASSUME NEW S, NEW x1 \in S, NEW x2 \in S, NEW x3 \in S, NEW x4 \in S,
         NEW x5 \in S, NEW x6 \in S
  PROVE  /\ <<x1>> \in Seq(S)
         /\ <<x1, x2>> \in Seq(S)
         /\ <<x1, x2, x3>> \in Seq(S)
         /\ <<x1, x2, x3, x4>> \in Seq(S)
         /\ <<x1, x2, x3, x4, x5, x6>> \in Seq(S)
OBVIOUS

\* The words of the messages are tokens.
LEMMA WordsTokens ==
  /\ "Path to JSON is required" \in Tokens /\ "Error reading file: " \in Tokens
  /\ UsagePrefix \in Tokens /\ "Please input a valid TASK_GUID" \in Tokens
  /\ "Deleting the task " \in Tokens /\ Newline \in Tokens
  /\ "Error submitting " \in Tokens /\ ": " \in Tokens /\ "err" \in Tokens
  /\ "Successfully submitted " \in Tokens /\ "Error Deleting the task " \in Tokens
  /\ "Failiure Reason :" \in Tokens /\ "OK" \in Tokens
BY Zenon DEF Tokens, Words

\* No word occurs in an empty output, nor in a short message whose
\* words all differ from it.
LEMMA SaysEmpty == ASSUME NEW w PROVE ~Says(<<>>, w)
BY DEF Says
LEMMA NotSays1 == ASSUME NEW a, NEW w, w # a PROVE ~Says(<<a>>, w)
BY DEF Says
LEMMA NotSays2 == ASSUME NEW a, NEW b, NEW w, w # a, w # b PROVE ~Says(<<a, b>>, w)
BY DEF Says
LEMMA NotSays3 == ASSUME NEW a, NEW b, NEW c, NEW w, w # a, w # b, w # c
  PROVE ~Says(<<a, b, c>>, w)
BY DEF Says
LEMMA NotSays4 == ASSUME NEW a, NEW b, NEW c, NEW d, NEW w, w # a, w # b, w # c, w # d
  PROVE ~Says(<<a, b, c, d>>, w)
BY DEF Says
LEMMA NotSays6 == ASSUME NEW a, NEW b, NEW c, NEW d, NEW e, NEW f, NEW w,
    w # a, w # b, w # c, w # d, w # e, w # f
  PROVE ~Says(<<a, b, c, d, e, f>>, w)
BY DEF Says
\* A word occurs in two outputs said one after the other iff in one of them.
LEMMA SaysConcat ==
  ASSUME NEW S, NEW s \in Seq(S), NEW t \in Seq(S), NEW w
  PROVE  Says(s \o t, w) <=> Says(s, w) \/ Says(t, w)
<1>1. /\ Len(s \o t) = Len(s) + Len(t)
      /\ \A i \in 1 .. Len(s) + Len(t) :
           (s \o t)[i] = IF i <= Len(s) THEN s[i] ELSE t[i - Len(s)]
  BY ConcatProperties
<1>2. Says(s \o t, w) => Says(s, w) \/ Says(t, w)
  BY <1>1 DEF Says
<1>3. Says(s, w) => Says(s \o t, w)
  BY <1>1 DEF Says
<1>4. Says(t, w) => Says(s \o t, w)
  <2> SUFFICES ASSUME NEW j \in 1..Len(t), t[j] = w PROVE Says(s \o t, w)
    BY DEF Says
  <2>1. Len(s) + j \in 1 .. Len(s) + Len(t) /\ ~(Len(s) + j <= Len(s))
    BY SMT
  <2>2. (s \o t)[Len(s) + j] = w
    BY <1>1, <2>1
  <2> QED BY <2>1, <2>2, <1>1 DEF Says
<1> QED BY <1>2, <1>3, <1>4
\* The words the two properties look for differ from the other words.
LEMMA WordsDistinct ==
  /\ "Successfully submitted " # "Path to JSON is required"
  /\ "Successfully submitted " # "Error reading file: "
  /\ "Successfully submitted " # UsagePrefix
  /\ "Successfully submitted " # "Please input a valid TASK_GUID"
  /\ "Successfully submitted " # "Error submitting "
  /\ "Successfully submitted " # ": "
  /\ "Successfully submitted " # "err"
  /\ "OK" # "Path to JSON is required"
  /\ "OK" # "Error reading file: "
  /\ "OK" # UsagePrefix
  /\ "OK" # "Please input a valid TASK_GUID"
  /\ "OK" # "Deleting the task "
  /\ "OK" # Newline
  /\ "OK" # "Error Deleting the task "
  /\ "OK" # "Failiure Reason :"
  /\ "OK" # "err"
  /\ "Error Deleting the task " # "Deleting the task "
  /\ "Error Deleting the task " # Newline
  /\ "Error Deleting the task " # "OK"
BY DEF UsagePrefix, Newline

USE FilesAssumption, InvocationsAssumption, WordsAssumption

\* The kind and argument of a command line.
LEMMA CmdType ==
  ASSUME TypeOK, NEW p \in Procs
  PROVE  \/ cmd[p].kind = "submit" /\ Arg(p) \in Paths \cup {NoArg}
         \/ cmd[p].kind = "delete" /\ Arg(p) \in Guids \cup {NoArg}
BY DEF TypeOK, Arg

\* A message said first is all the output (Say on an empty terminal).
LEMMA SayFirst ==
  ASSUME NEW m \in Seq(Tokens)
  PROVE  Say(<<>>, m) = m
BY ConcatEmptySeq DEF Say

LEMMA InitIInv == Init => IInv
<1> SUFFICES ASSUME Init PROVE IInv
  OBVIOUS
<1>1. TypeOK
  BY DEF Init, TypeOK
<1>2. reply \in [Procs -> ReplyType] /\ said \in [Procs -> Seq(Tokens)]
  BY DEF Init, NoReply, ReplyType
<1>3. \A p \in Procs : PInv(p)
  BY DEF Init, PInv, NoReply
<1>4. QED
  BY <1>1, <1>2, <1>3 DEF IInv

\* A step of process q leaves the invariant of every other process alone.
LEMMA Frame ==
  ASSUME IInv, NEW p \in Procs,
         cmd' = cmd, pc'[p] = pc[p], said'[p] = said[p],
         reply'[p] = reply[p], applied'[p] = applied[p]
  PROVE  PInv(p)'
BY Zenon DEF IInv, PInv, Deleting, EarlyOutputs, SubmitError, SubmitSuccess,
             DeleteError, Wanted, Arg
\* The step of one process q: the other processes keep their invariant.
LEMMA Others ==
  ASSUME IInv, NEW q \in Procs, cmd' = cmd,
         pc' \in [Procs -> {"start", "calling", "done"}],
         \A p \in Procs \ {q} : pc'[p] = pc[p] /\ said'[p] = said[p]
                                /\ reply'[p] = reply[p] /\ applied'[p] = applied[p]
  PROVE  \A p \in Procs \ {q} : PInv(p)'
BY Frame

\* The tokens a step may add: arguments and reply names.
LEMMA ArgTokens ==
  ASSUME IInv, NEW p \in Procs
  PROVE  /\ Arg(p) \in Tokens
         /\ reply[p].name \in Tokens
BY CmdType DEF IInv, TypeOK, Tokens, ReplyType

\* Two one-element sequences said one after the other.
LEMMA ConcatPair ==
  ASSUME NEW x, NEW y
  PROVE  <<x>> \o <<y>> = <<x, y>>
<1>1. <<x>> \in Seq({x, y}) /\ <<y>> \in Seq({x, y}) /\ <<x, y>> \in Seq({x, y})
  OBVIOUS
<1>2. /\ <<x>> \o <<y>> \in Seq({x, y})
      /\ Len(<<x>> \o <<y>>) = 2
      /\ (<<x>> \o <<y>>)[1] = x /\ (<<x>> \o <<y>>)[2] = y
  BY <1>1, ConcatProperties
<1>3. Len(<<x>> \o <<y>>) = Len(<<x, y>>)
  BY <1>2
<1>4. \A i \in 1 .. Len(<<x>> \o <<y>>) : (<<x>> \o <<y>>)[i] = <<x, y>>[i]
  BY <1>2
<1>5. QED
  BY <1>1, <1>2, <1>3, <1>4, SeqEqual, Zenon

\* deleteTask's usage message (line 78) through IncorrectUsage.
LEMMA UsageMessage ==
  ASSUME NEW out
  PROVE  IncorrectUsage(out, <<"Please input a valid TASK_GUID">>)
           = Say(out, <<UsagePrefix, "Please input a valid TASK_GUID">>)
<1>1. Len(<<"Please input a valid TASK_GUID">>) > 0
  OBVIOUS
<1>2. <<UsagePrefix>> \o <<"Please input a valid TASK_GUID">>
        = <<UsagePrefix, "Please input a valid TASK_GUID">>
  BY ConcatPair
<1>3. QED
  BY <1>1, <1>2 DEF IncorrectUsage

\* The said value after a step of q that writes m to an empty terminal.
LEMMA SayNew ==
  ASSUME IInv, NEW q \in Procs, NEW m \in Seq(Tokens), said[q] = <<>>,
         said' = [said EXCEPT ![q] = Say(said[q], m)]
  PROVE  /\ said' = [said EXCEPT ![q] = m]
         /\ said' \in [Procs -> Seq(Tokens)]
BY SayFirst DEF IInv

\* The other processes are untouched by a step of q that updates its own
\* entries with EXCEPT.
LEMMA OthersUntouched ==
  ASSUME IInv, NEW q \in Procs, cmd' = cmd,
         \A p \in Procs \ {q} : /\ pc'[p] = pc[p] /\ said'[p] = said[p]
                                /\ reply'[p] = reply[p] /\ applied'[p] = applied[p]
  PROVE  \A p \in Procs \ {q} : PInv(p)'
BY Frame

\* Lines 55-59.
LEMMA StepSubmitNoPath ==
  ASSUME IInv, NEW q \in Procs, SubmitNoPath(q)
  PROVE  IInv'
<1> USE DEF SubmitNoPath
<1>1. said[q] = <<>> /\ reply[q].none
  BY DEF IInv, PInv
<1>2. /\ said' = [said EXCEPT ![q] = <<"Path to JSON is required">>]
      /\ said' \in [Procs -> Seq(Tokens)]
  BY <1>1, WordsTokens, TupleSeq, SayNew
<1>3. TypeOK' /\ reply' \in [Procs -> ReplyType]
  BY DEF IInv, TypeOK
<1>4. PInv(q)'
  BY <1>1, <1>2 DEF IInv, TypeOK, PInv, EarlyOutputs, Arg
<1>5. \A p \in Procs \ {q} : PInv(p)'
  <2>1. \A p \in Procs \ {q} : /\ pc'[p] = pc[p] /\ said'[p] = said[p]
                               /\ reply'[p] = reply[p] /\ applied'[p] = applied[p]
    BY DEF IInv, TypeOK
  <2>2. QED
    BY <2>1, OthersUntouched
<1>6. QED
  BY <1>2, <1>3, <1>4, <1>5 DEF IInv

\* Lines 61-65.
LEMMA StepSubmitReadFailed ==
  ASSUME IInv, NEW q \in Procs, SubmitReadFailed(q)
  PROVE  IInv'
<1> USE DEF SubmitReadFailed
<1>1. said[q] = <<>> /\ reply[q].none
  BY DEF IInv, PInv
<1>2. /\ said' = [said EXCEPT ![q] = <<"Error reading file: ", Arg(q)>>]
      /\ said' \in [Procs -> Seq(Tokens)]
  BY <1>1, ArgTokens, WordsTokens, TupleSeq, SayNew
<1>3. TypeOK' /\ reply' \in [Procs -> ReplyType]
  BY DEF IInv, TypeOK
<1>4. PInv(q)'
  BY <1>1, <1>2 DEF IInv, TypeOK, PInv, EarlyOutputs, Arg
<1>5. \A p \in Procs \ {q} : PInv(p)'
  <2>1. \A p \in Procs \ {q} : /\ pc'[p] = pc[p] /\ said'[p] = said[p]
                               /\ reply'[p] = reply[p] /\ applied'[p] = applied[p]
    BY DEF IInv, TypeOK
  <2>2. QED
    BY <2>1, OthersUntouched
<1>6. QED
  BY <1>2, <1>3, <1>4, <1>5 DEF IInv

\* Line 67, the call.
LEMMA StepSubmitCall ==
  ASSUME IInv, NEW q \in Procs, SubmitCall(q)
  PROVE  IInv'
<1> USE DEF SubmitCall
<1>1. said[q] = <<>> /\ reply[q].none /\ Arg(q) \in Paths
  BY CmdType DEF IInv, PInv
<1>2. TypeOK' /\ reply' \in [Procs -> ReplyType] /\ said' \in [Procs -> Seq(Tokens)]
  BY DEF IInv, TypeOK
<1>3. PInv(q)'
  BY <1>1 DEF IInv, TypeOK, PInv, Arg
<1>4. \A p \in Procs \ {q} : PInv(p)'
  <2>1. \A p \in Procs \ {q} : /\ pc'[p] = pc[p] /\ said'[p] = said[p]
                               /\ reply'[p] = reply[p] /\ applied'[p] = applied[p]
    BY DEF IInv, TypeOK
  <2>2. QED
    BY <2>1, OthersUntouched
<1>5. QED
  BY <1>2, <1>3, <1>4 DEF IInv

\* Lines 76-80.
LEMMA StepDeleteNoGuid ==
  ASSUME IInv, NEW q \in Procs, DeleteNoGuid(q)
  PROVE  IInv'
<1> USE DEF DeleteNoGuid
<1>1. said[q] = <<>> /\ reply[q].none
  BY DEF IInv, PInv
<1>2. IncorrectUsage(said[q], <<"Please input a valid TASK_GUID">>)
        = Say(said[q], <<UsagePrefix, "Please input a valid TASK_GUID">>)
  BY UsageMessage
<1>3. /\ said' = [said EXCEPT ![q] = <<UsagePrefix, "Please input a valid TASK_GUID">>]
      /\ said' \in [Procs -> Seq(Tokens)]
  BY <1>1, <1>2, WordsTokens, TupleSeq, SayNew
<1>4. TypeOK' /\ reply' \in [Procs -> ReplyType]
  BY DEF IInv, TypeOK
<1>5. PInv(q)'
  BY <1>1, <1>3 DEF IInv, TypeOK, PInv, EarlyOutputs, Arg
<1>6. \A p \in Procs \ {q} : PInv(p)'
  <2>1. \A p \in Procs \ {q} : /\ pc'[p] = pc[p] /\ said'[p] = said[p]
                               /\ reply'[p] = reply[p] /\ applied'[p] = applied[p]
    BY DEF IInv, TypeOK
  <2>2. QED
    BY <2>1, OthersUntouched
<1>7. QED
  BY <1>3, <1>4, <1>5, <1>6 DEF IInv

\* Lines 81-82.
LEMMA StepDeleteCall ==
  ASSUME IInv, NEW q \in Procs, DeleteCall(q)
  PROVE  IInv'
<1> USE DEF DeleteCall
<1>1. said[q] = <<>> /\ reply[q].none /\ Arg(q) \in Guids
  BY CmdType DEF IInv, PInv
<1>2. /\ said' = [said EXCEPT ![q] = Deleting(q)]
      /\ said' \in [Procs -> Seq(Tokens)]
  BY <1>1, ArgTokens, WordsTokens, TupleSeq, SayNew DEF Deleting
<1>3. TypeOK' /\ reply' \in [Procs -> ReplyType]
  BY DEF IInv, TypeOK
<1>4. PInv(q)'
  BY <1>1, <1>2 DEF IInv, TypeOK, PInv, Deleting, Arg
<1>5. \A p \in Procs \ {q} : PInv(p)'
  <2>1. \A p \in Procs \ {q} : /\ pc'[p] = pc[p] /\ said'[p] = said[p]
                               /\ reply'[p] = reply[p] /\ applied'[p] = applied[p]
    BY DEF IInv, TypeOK
  <2>2. QED
    BY <2>1, OthersUntouched
<1>6. QED
  BY <1>2, <1>3, <1>4, <1>5 DEF IInv

\* What the task runner answers is a guid p asked for.
LEMMA WantedGuid ==
  ASSUME IInv, NEW p \in Procs, pc[p] = "calling"
  PROVE  Wanted(p) \in Guids
BY CmdType DEF IInv, PInv, Wanted, TypeOK

LEMMA StepRunnerApplies ==
  ASSUME IInv, NEW q \in Procs, RunnerApplies(q)
  PROVE  IInv'
<1> USE DEF RunnerApplies, Pending
<1>1. Wanted(q) \in Guids
  BY WantedGuid
<1>2. PICK lost \in BOOLEAN : reply' = [reply EXCEPT ![q] = Reply(lost, Wanted(q))]
  OBVIOUS
<1>3. TypeOK'
  BY <1>1 DEF IInv, TypeOK
<1>4. reply' \in [Procs -> ReplyType] /\ said' \in [Procs -> Seq(Tokens)]
  BY <1>1, <1>2 DEF IInv, ReplyType, Reply
<1>5. PInv(q)'
  BY <1>2 DEF IInv, TypeOK, PInv, Reply, Wanted, Deleting, Arg
<1>6. \A p \in Procs \ {q} : PInv(p)'
  <2>1. \A p \in Procs \ {q} : /\ pc'[p] = pc[p] /\ said'[p] = said[p]
                               /\ reply'[p] = reply[p] /\ applied'[p] = applied[p]
    BY <1>2 DEF IInv, TypeOK
  <2>2. QED
    BY <2>1, OthersUntouched
<1>7. QED
  BY <1>3, <1>4, <1>5, <1>6 DEF IInv

LEMMA StepRunnerFails ==
  ASSUME IInv, NEW q \in Procs, RunnerFails(q)
  PROVE  IInv'
<1> USE DEF RunnerFails, Pending
<1>1. Wanted(q) \in Guids
  BY WantedGuid
<1>2. PICK n \in {NoName, Wanted(q)} : reply' = [reply EXCEPT ![q] = Reply(TRUE, n)]
  OBVIOUS
<1>3. TypeOK'
  BY DEF IInv, TypeOK
<1>4. reply' \in [Procs -> ReplyType] /\ said' \in [Procs -> Seq(Tokens)]
  BY <1>1, <1>2 DEF IInv, ReplyType, Reply
<1>5. PInv(q)'
  BY <1>2 DEF IInv, TypeOK, PInv, Reply, Deleting, Arg
<1>6. \A p \in Procs \ {q} : PInv(p)'
  <2>1. \A p \in Procs \ {q} : /\ pc'[p] = pc[p] /\ said'[p] = said[p]
                               /\ reply'[p] = reply[p] /\ applied'[p] = applied[p]
    BY <1>2 DEF IInv, TypeOK
  <2>2. QED
    BY <2>1, OthersUntouched
<1>7. QED
  BY <1>3, <1>4, <1>5, <1>6 DEF IInv

\* Lines 68-72.
LEMMA StepSubmitReport ==
  ASSUME IInv, NEW q \in Procs, SubmitReport(q)
  PROVE  IInv'
<1> USE DEF SubmitReport
<1> DEFINE m == IF reply[q].err THEN SubmitError(q) ELSE SubmitSuccess(q)
<1>1. said[q] = <<>>
  BY DEF IInv, PInv
<1>2. m \in Seq(Tokens)
  BY ArgTokens, WordsTokens, TupleSeq DEF SubmitError, SubmitSuccess
<1>3. said' = [said EXCEPT ![q] = Say(said[q], m)]
  OBVIOUS
<1>4. said' = [said EXCEPT ![q] = m] /\ said' \in [Procs -> Seq(Tokens)]
  BY <1>1, <1>2, <1>3, SayNew
<1>5. TypeOK' /\ reply' \in [Procs -> ReplyType]
  BY DEF IInv, TypeOK
<1>6. PInv(q)'
  BY <1>4 DEF IInv, TypeOK, PInv, SubmitError, SubmitSuccess, Wanted, Arg
<1>7. \A p \in Procs \ {q} : PInv(p)'
  <2>1. \A p \in Procs \ {q} : /\ pc'[p] = pc[p] /\ said'[p] = said[p]
                               /\ reply'[p] = reply[p] /\ applied'[p] = applied[p]
    BY DEF IInv, TypeOK
  <2>2. QED
    BY <2>1, OthersUntouched
<1>8. QED
  BY <1>4, <1>5, <1>6, <1>7 DEF IInv

\* Lines 83-88.
LEMMA StepDeleteReport ==
  ASSUME IInv, NEW q \in Procs, DeleteReport(q)
  PROVE  IInv'
<1> USE DEF DeleteReport
<1> DEFINE m == IF reply[q].err THEN DeleteError(q) ELSE DeleteOK
<1>1. said[q] = Deleting(q) /\ Arg(q) \in Guids
  BY DEF IInv, PInv
<1>2. m \in Seq(Tokens) /\ Deleting(q) \in Seq(Tokens)
  BY ArgTokens, WordsTokens, TupleSeq DEF DeleteError, DeleteOK, Deleting
<1>3. said' = [said EXCEPT ![q] = Deleting(q) \o m]
  BY <1>1 DEF Say
<1>4. said' \in [Procs -> Seq(Tokens)]
  <2>1. Deleting(q) \o m \in Seq(Tokens)
    BY <1>2, ConcatProperties
  <2>2. QED
    BY <2>1, <1>3 DEF IInv
<1>5. TypeOK' /\ reply' \in [Procs -> ReplyType]
  BY DEF IInv, TypeOK
<1>6. PInv(q)'
  BY <1>3 DEF IInv, TypeOK, PInv, DeleteError, DeleteOK, Deleting, Wanted, Arg
<1>7. \A p \in Procs \ {q} : PInv(p)'
  <2>1. \A p \in Procs \ {q} : /\ pc'[p] = pc[p] /\ said'[p] = said[p]
                               /\ reply'[p] = reply[p] /\ applied'[p] = applied[p]
    BY DEF IInv, TypeOK
  <2>2. QED
    BY <2>1, OthersUntouched
<1>8. QED
  BY <1>3, <1>4, <1>5, <1>6, <1>7 DEF IInv

LEMMA NextIInv == IInv /\ [Next]_vars => IInv'
<1> SUFFICES ASSUME IInv, [Next]_vars PROVE IInv'
  OBVIOUS
<1>1. CASE UNCHANGED vars
  BY <1>1 DEF vars, IInv, TypeOK, PInv, Deleting, EarlyOutputs, SubmitError,
             SubmitSuccess, DeleteError, Wanted, Arg
<1>2. ASSUME NEW q \in Procs, Handler(q) \/ RunnerApplies(q) \/ RunnerFails(q)
      PROVE  IInv'
  BY <1>2, StepSubmitNoPath, StepSubmitReadFailed, StepSubmitCall, StepSubmitReport,
     StepDeleteNoGuid, StepDeleteCall, StepDeleteReport, StepRunnerApplies,
     StepRunnerFails DEF Handler
<1>3. QED
  BY <1>1, <1>2 DEF Next

\* The invariant holds in every state of every behaviour.
THEOREM InvariantHolds == Spec => []IInv
BY InitIInv, NextIInv, PTL DEF Spec

\* The words of the messages are none of the arguments and names.
LEMMA NotAnArgument ==
  ASSUME NEW x \in Guids \cup Paths \cup {NoName, NoArg}
  PROVE  x \notin Words
BY WordsAssumption

\* SubmitSuccessMeansSubmitted follows from the invariant.
LEMMA IInvSubmit == IInv => SubmitSuccessMeansSubmitted
<1> SUFFICES ASSUME IInv, NEW p \in Procs, cmd[p].kind = "submit",
                    Says(said[p], "Successfully submitted ")
             PROVE  /\ applied[p]
                    /\ said[p] = <<"Successfully submitted ", Files[Arg(p)].guid, Newline>>
  BY DEF SubmitSuccessMeansSubmitted
<1>1. "Successfully submitted " \in Words
  BY DEF Words
<1>2. /\ Arg(p) \in Guids \cup Paths \cup {NoName, NoArg}
      /\ reply[p].name \in Guids \cup Paths \cup {NoName, NoArg}
  BY CmdType DEF IInv, ReplyType
<1>3. "Successfully submitted " # Arg(p) /\ "Successfully submitted " # reply[p].name
  BY <1>1, <1>2, NotAnArgument
<1>4. pc[p] \in {"start", "calling", "done"}
  BY DEF IInv, TypeOK
<1>5. CASE pc[p] \in {"start", "calling"}
  <2>1. said[p] = <<>>
    BY <1>5 DEF IInv, PInv
  <2>2. ~Says(said[p], "Successfully submitted ")
    BY <2>1, SaysEmpty, Zenon
  <2>3. QED
    BY <2>2
<1>6. CASE pc[p] = "done" /\ reply[p].none
  <2>1. said[p] \in EarlyOutputs(p)
    BY <1>6 DEF IInv, PInv
  <2>2. ~Says(said[p], "Successfully submitted ")
    <3>1. CASE said[p] = <<"Path to JSON is required">>
      <4>1. ~Says(<<"Path to JSON is required">>, "Successfully submitted ")
        BY WordsDistinct, NotSays1
      <4>2. QED
        BY <3>1, <4>1
    <3>2. CASE said[p] = <<"Error reading file: ", Arg(p)>>
      <4>1. ~Says(<<"Error reading file: ", Arg(p)>>, "Successfully submitted ")
        BY <1>3, WordsDistinct, NotSays2
      <4>2. QED
        BY <3>2, <4>1
    <3>3. CASE said[p] = <<UsagePrefix, "Please input a valid TASK_GUID">>
      <4>1. ~Says(<<UsagePrefix, "Please input a valid TASK_GUID">>, "Successfully submitted ")
        BY WordsDistinct, NotSays2
      <4>2. QED
        BY <3>3, <4>1
    <3>4. QED
      BY <2>1, <3>1, <3>2, <3>3 DEF EarlyOutputs
  <2>3. QED
    BY <2>2
<1>7. CASE pc[p] = "done" /\ ~reply[p].none /\ reply[p].err
  <2>1. said[p] = SubmitError(p)
    BY <1>7 DEF IInv, PInv
  <2>2. ~Says(said[p], "Successfully submitted ")
    <3>1. ~Says(SubmitError(p), "Successfully submitted ")
      BY <1>3, WordsDistinct, NotSays4 DEF SubmitError
    <3>2. QED
      BY <2>1, <3>1
  <2>3. QED
    BY <2>2
<1>8. CASE pc[p] = "done" /\ ~reply[p].none /\ ~reply[p].err
  <2>1. said[p] = SubmitSuccess(p) /\ applied[p] /\ reply[p].name = Wanted(p)
    BY <1>8 DEF IInv, PInv
  <2>2. QED
    BY <2>1 DEF SubmitSuccess, Wanted
<1>9. QED
  BY <1>4, <1>5, <1>6, <1>7, <1>8

\* DeleteOKMeansDeleted follows from the invariant.
LEMMA IInvDelete == IInv => DeleteOKMeansDeleted
<1> SUFFICES ASSUME IInv, NEW p \in Procs, cmd[p].kind = "delete",
                    Says(said[p], "OK")
             PROVE  applied[p] /\ ~Says(said[p], "Error Deleting the task ")
  BY DEF DeleteOKMeansDeleted
<1>1. "OK" \in Words /\ "Error Deleting the task " \in Words
  BY DEF Words
<1>2. Arg(p) \in Guids \cup Paths \cup {NoName, NoArg}
  BY CmdType DEF IInv
<1>3. "OK" # Arg(p) /\ "Error Deleting the task " # Arg(p)
  BY <1>1, <1>2, NotAnArgument
<1>4. pc[p] \in {"start", "calling", "done"}
  BY DEF IInv, TypeOK
<1>5. Deleting(p) \in Seq(Tokens) /\ DeleteError(p) \in Seq(Tokens) /\ DeleteOK \in Seq(Tokens)
  BY ArgTokens, WordsTokens, TupleSeq DEF Deleting, DeleteError, DeleteOK
<1>6. ~Says(Deleting(p), "OK") /\ ~Says(Deleting(p), "Error Deleting the task ")
  BY <1>3, WordsDistinct, NotSays3, Zenon DEF Deleting
<1>7. CASE pc[p] = "start"
  <2>1. said[p] = <<>>
    BY <1>7 DEF IInv, PInv
  <2>2. ~Says(said[p], "OK")
    BY <2>1, SaysEmpty, Zenon
  <2>3. QED
    BY <2>2
<1>8. CASE pc[p] = "calling"
  <2>1. said[p] = Deleting(p)
    BY <1>8 DEF IInv, PInv
  <2>2. QED
    BY <2>1, <1>6
<1>9. CASE pc[p] = "done" /\ reply[p].none
  <2>1. said[p] \in EarlyOutputs(p)
    BY <1>9 DEF IInv, PInv
  <2>2. ~Says(said[p], "OK")
    <3>1. CASE said[p] = <<"Path to JSON is required">>
      <4>1. ~Says(<<"Path to JSON is required">>, "OK")
        BY WordsDistinct, NotSays1
      <4>2. QED
        BY <3>1, <4>1
    <3>2. CASE said[p] = <<"Error reading file: ", Arg(p)>>
      <4>1. ~Says(<<"Error reading file: ", Arg(p)>>, "OK")
        BY <1>3, WordsDistinct, NotSays2
      <4>2. QED
        BY <3>2, <4>1
    <3>3. CASE said[p] = <<UsagePrefix, "Please input a valid TASK_GUID">>
      <4>1. ~Says(<<UsagePrefix, "Please input a valid TASK_GUID">>, "OK")
        BY WordsDistinct, NotSays2
      <4>2. QED
        BY <3>3, <4>1
    <3>4. QED
      BY <2>1, <3>1, <3>2, <3>3 DEF EarlyOutputs
  <2>3. QED
    BY <2>2
<1>10. CASE pc[p] = "done" /\ ~reply[p].none /\ reply[p].err
  <2>1. said[p] = Deleting(p) \o DeleteError(p)
    BY <1>10 DEF IInv, PInv
  <2>2. ~Says(DeleteError(p), "OK")
    BY <1>3, WordsDistinct, NotSays6, Zenon DEF DeleteError
  <2>3. Says(Deleting(p) \o DeleteError(p), "OK") <=>
        Says(Deleting(p), "OK") \/ Says(DeleteError(p), "OK")
    BY <1>5, SaysConcat
  <2>4. QED
    BY <2>1, <2>2, <2>3, <1>6
<1>11. CASE pc[p] = "done" /\ ~reply[p].none /\ ~reply[p].err
  <2>1. said[p] = Deleting(p) \o DeleteOK /\ applied[p]
    BY <1>11 DEF IInv, PInv
  <2>2. ~Says(DeleteOK, "Error Deleting the task ")
    BY WordsDistinct, NotSays1, Zenon DEF DeleteOK
  <2>3. Says(Deleting(p) \o DeleteOK, "Error Deleting the task ") <=>
        Says(Deleting(p), "Error Deleting the task ") \/ Says(DeleteOK, "Error Deleting the task ")
    BY <1>5, SaysConcat
  <2>4. QED
    BY <2>1, <2>2, <2>3, <1>6
<1>12. QED
  BY <1>4, <1>7, <1>8, <1>9, <1>10, <1>11

\* For any number of processes, guids and files, and whatever the task
\* runner does: submitTask says "Successfully submitted" only for its own
\* applied request and the guid of its file (line 72).
THEOREM SubmitSuccessHolds == Spec => []SubmitSuccessMeansSubmitted
BY InvariantHolds, IInvSubmit, PTL

\* deleteTask says "OK" only when its own request deleted the task, and
\* never after "Error Deleting the task" (lines 83-88).
THEOREM DeleteOKHolds == Spec => []DeleteOKMeansDeleted
BY InvariantHolds, IInvDelete, PTL

=============================================================================
