------------------------------ MODULE Terminal ------------------------------
(***************************************************************************)
(* The terminal UI of ltc (package terminal,                               *)
(* src/ltc/task_runner/command_factory/task_runner_command_factory.go      *)
(* lines 89-155).  Say and its variants append to the terminal output;     *)
(* Prompt writes its text and reads one line of standard input:            *)
(*                                                                         *)
(*   reader := bufio.NewReader(t)                                          *)
(*   t.Say(promptText)                                                     *)
(*   result, _ := reader.ReadString('\n')                                  *)
(*   return strings.TrimSuffix(result, "\n")                               *)
(*                                                                         *)
(* Every call makes a new bufio.Reader, and whatever that reader has read  *)
(* from stdin beyond the line it returns is dropped with it.  ReadString   *)
(* is modelled step by step as bufio implements it: look for '\n' in the   *)
(* buffered bytes, give up at a read error, move a full buffer aside, or   *)
(* fill the free space with one Read of the input.  A Read returns         *)
(* between one byte and the free space; when stdin is a terminal in        *)
(* canonical mode it never returns bytes past the end of a line.           *)
(***************************************************************************)
EXTENDS Integers, Sequences, TerminalUI

CONSTANTS
  Inputs,       \* set of possible contents of stdin, sequences of bytes
  BufSize,      \* size of a bufio.Reader's buffer (4096 in the code)
  MaxPrompts,   \* bound on the number of Prompt calls of a behaviour
  LineAtATime   \* TRUE: stdin is a terminal; FALSE: a pipe or a file

ASSUME BufSizeAssumption    == BufSize \in Nat \ {0}
ASSUME MaxPromptsAssumption == MaxPrompts \in Nat
ASSUME LineAtATimeAssumption == LineAtATime \in BOOLEAN
\* What stdin delivers is a sequence of bytes.
ASSUME InputsAssumption == Inputs \subseteq Seq(STRING)

\* Mutant: the last byte is dropped whether or not it is a new line.
TrimSuffixAlways(s) ==
  IF Len(s) > 0 THEN SubSeq(s, 1, Len(s) - 1) ELSE s

\* strings.TrimSuffix(result, "\n"): at most one trailing new line goes.
TrimSuffix(s) ==
  IF Len(s) > 0 /\ s[Len(s)] = Newline THEN SubSeq(s, 1, Len(s) - 1) ELSE s

\* The index of the first '\n' of s, or 0 (bytes.IndexByte).
IndexNewline(s) ==
  IF \E i \in 1..Len(s) : s[i] = Newline
  THEN CHOOSE i \in 1..Len(s) : s[i] = Newline /\ \A j \in 1..(i - 1) : s[j] # Newline
  ELSE 0

\* The lines of s, as strings.Split(s, "\n") gives them.
SplitLines(s) ==
  LET f[i \in 0..Len(s)] ==
        IF i = 0 THEN << <<>> >>
        ELSE IF s[i] = Newline THEN Append(f[i - 1], <<>>)
        ELSE [f[i - 1] EXCEPT ![Len(f[i - 1])] = Append(@, s[i])]
  IN f[Len(s)]

VARIABLES
  typed,    \* everything stdin will deliver
  pos,      \* the bytes of stdin consumed by Read calls so far
  buf,      \* the unread bytes of the current bufio.Reader, b.buf[b.r:b.w]
  full,     \* the full buffers ReadString has collected (collectFragments)
  eof,      \* b.err: the reader has seen io.EOF
  pc,       \* "idle" or "reading": inside ReadString
  answers,  \* the values the Prompt calls returned, in order
  out       \* what has been written to the terminal

vars == <<typed, pos, buf, full, eof, pc, answers, out>>

Init ==
  /\ typed \in Inputs
  /\ pos = 0
  /\ buf = <<>> /\ full = <<>> /\ eof = FALSE
  /\ pc = "idle"
  /\ answers = <<>>
  /\ out = <<>>

\* reader := bufio.NewReader(t); t.Say(promptText).  The previous reader
\* and its buffered bytes are gone.
PromptBegin ==
  /\ pc = "idle" /\ Len(answers) < MaxPrompts
  /\ buf' = <<>> /\ full' = <<>> /\ eof' = FALSE
  /\ out' = Say(out, <<"prompt">>)
  /\ pc' = "reading"
  /\ UNCHANGED <<typed, pos, answers>>

\* The line ends in the buffer: ReadString returns it; Prompt trims it.
ReadSliceFound ==
  /\ pc = "reading" /\ IndexNewline(buf) > 0
  /\ LET i == IndexNewline(buf) IN
       /\ answers' = Append(answers, TrimSuffix(full \o SubSeq(buf, 1, i)))
       /\ buf' = SubSeq(buf, i + 1, Len(buf))
  /\ pc' = "idle"
  /\ UNCHANGED <<typed, pos, full, eof, out>>

\* Mutant: at a read error ReadSlice forgets the error and fills again.
ReadSliceEOFRetry ==
  /\ pc = "reading" /\ IndexNewline(buf) = 0 /\ eof
  /\ eof' = FALSE
  /\ UNCHANGED <<typed, pos, buf, full, pc, answers, out>>

\* A read error (io.EOF) with no '\n' buffered: what was read is returned,
\* and Prompt ignores the error.
ReadSliceEOF ==
  /\ pc = "reading" /\ IndexNewline(buf) = 0 /\ eof
  /\ answers' = Append(answers, TrimSuffix(full \o buf))
  /\ buf' = <<>>
  /\ pc' = "idle"
  /\ UNCHANGED <<typed, pos, full, eof, out>>

\* ErrBufferFull: collectFragments keeps the full buffer and reads on.
ReadSliceFull ==
  /\ pc = "reading" /\ IndexNewline(buf) = 0 /\ ~eof /\ Len(buf) >= BufSize
  /\ full' = full \o buf
  /\ buf' = <<>>
  /\ UNCHANGED <<typed, pos, eof, pc, answers, out>>

\* b.fill(): one Read into the free space b.buf[b.w:].
\* The bytes a Read may return from position pos of stdin.
ReadSizes(free) ==
  {k \in 1..free :
     /\ k <= Len(typed) - pos
     /\ LineAtATime => \A j \in (pos + 1)..(pos + k - 1) : typed[j] # Newline}

FillData ==
  /\ pc = "reading" /\ IndexNewline(buf) = 0 /\ ~eof /\ Len(buf) < BufSize
  /\ pos < Len(typed)
  /\ \E k \in ReadSizes(BufSize - Len(buf)) :
       /\ buf' = buf \o SubSeq(typed, pos + 1, pos + k)
       /\ pos' = pos + k
  /\ UNCHANGED <<typed, full, eof, pc, answers, out>>

\* Read returns 0, io.EOF at the end of stdin.
FillEOF ==
  /\ pc = "reading" /\ IndexNewline(buf) = 0 /\ ~eof /\ Len(buf) < BufSize
  /\ pos = Len(typed)
  /\ eof' = TRUE
  /\ UNCHANGED <<typed, pos, buf, full, pc, answers, out>>

Next ==
  \/ PromptBegin
  \/ ReadSliceFound \/ ReadSliceEOF \/ ReadSliceFull
  \/ FillData \/ FillEOF

\* The caller's goroutine runs Prompt to its end; every Read returns.
Spec == Init /\ [][Next]_vars /\ WF_vars(Next)

\* Type invariant; a reader's buffered bytes never exceed its buffer, and
\* what it has read is a part of stdin.
TypeOK ==
  /\ typed \in Inputs
  /\ pos \in 0..Len(typed)
  /\ Len(buf) <= BufSize /\ Len(buf) <= pos
  /\ eof \in BOOLEAN
  /\ pc \in {"idle", "reading"}
  /\ Len(answers) <= MaxPrompts

\* The line the user typed: the k-th Prompt returns the k-th line of stdin
\* without its new line, and "" once stdin is at its end.  This is what a
\* caller of Prompt relies on when it asks several questions in a row.
ExpectedAnswer(k) ==
  IF k <= Len(SplitLines(typed)) THEN SplitLines(typed)[k] ELSE <<>>

PromptReadsNextLine ==
  \A k \in 1..Len(answers) : answers[k] = ExpectedAnswer(k)

\* A sequence of bytes without a new line: one line of text.
OneLine(s) == \A j \in 1..Len(s) : s[j] # Newline

\* AnswersAreLines: every value Prompt returns is a single line, with no
\* new line in it, whatever stdin is and however the Reads split it.
\* ReadString stops at the first '\n' (bufio's IndexByte), ErrBufferFull
\* is only raised on a buffer without one, and TrimSuffix drops the '\n'
\* that ends the line.  Unlike PromptReadsNextLine it holds for a pipe.
AnswersAreLines == \A k \in 1..Len(answers) : OneLine(answers[k])

\* Every Prompt returns: ReadString ends at a new line or at end of input,
\* however the Reads split stdin.
PromptReturns == [](pc = "reading" => <>(pc = "idle"))

=============================================================================
