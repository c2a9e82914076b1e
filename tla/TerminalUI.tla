----------------------------- MODULE TerminalUI -----------------------------
(***************************************************************************)
(* The output half of ltc's terminal.UI (terminalUI, lines 99-147 of       *)
(* src/ltc/task_runner/command_factory/task_runner_command_factory.go).    *)
(* The terminal output is a sequence of tokens: byte codes for new lines,  *)
(* and model values or strings for the words of a message.  Say writes     *)
(* the message as it is; the others are Say of a derived message.         *)
(***************************************************************************)
EXTENDS Naturals, Sequences

Newline == "\n"

\* Output tokens: a message is a sequence of them.
UsagePrefix == "Incorrect Usage: "
UsageText   == "Incorrect Usage"

\* Say(message): t.Write([]byte(message)).
Say(out, message) == out \o message

\* SayLine(message): the message and a new line.
SayLine(out, message) == out \o message \o <<Newline>>

\* IncorrectUsage(message): a prefix before a non-empty message.
IncorrectUsage(out, message) ==
  IF Len(message) > 0 THEN Say(out, <<UsagePrefix>> \o message)
  ELSE Say(out, <<UsageText>>)

Dot(out)     == Say(out, <<".">>)
NewLine(out) == Say(out, <<Newline>>)

=============================================================================
