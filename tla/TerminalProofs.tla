--------------------------- MODULE TerminalProofs ---------------------------
(***************************************************************************)
(* Proofs about Terminal, the Prompt of ltc's terminal UI with its         *)
(* bufio.Reader (task_runner_command_factory.go lines 149-155):           *)
(* AnswersAreLines, for every stdin content, buffer size and number of     *)
(* prompts, and whether stdin is a terminal or a pipe.                     *)
(***************************************************************************)
EXTENDS Terminal, WellFoundedInduction, TLAPS

\* The inductive invariant: the reader's types and bounds, a
\* prompt is under way only while another answer is allowed, and the
\* bytes collectFragments has set aside hold no new line.
Seqs ==
  /\ typed \in Inputs
  /\ typed \in Seq(STRING) /\ buf \in Seq(STRING) /\ full \in Seq(STRING)
  /\ answers \in Seq(Seq(STRING))

Bounds ==
  /\ pos \in 0..Len(typed)
  /\ Len(buf) <= BufSize /\ Len(buf) <= pos
  /\ Len(answers) <= MaxPrompts
  /\ pc = "reading" => Len(answers) < MaxPrompts

Flags == eof \in BOOLEAN /\ pc \in {"idle", "reading"}

Lines == OneLine(full) /\ AnswersAreLines

IInv == Seqs /\ Bounds /\ Flags /\ Lines

-----------------------------------------------------------------------------
(***************************************************************************)
(* Lemmas about the operators of the model.                                *)
(***************************************************************************)

\* A non-empty set of naturals has a least element (< is well founded).
LEMMA LeastNat ==
  ASSUME NEW S \in SUBSET Nat, S # {}
  PROVE  \E m \in S : \A j \in S : m <= j
<1>1. \E x \in S : \A y \in S : ~(<<y, x>> \in OpToRel(<, Nat))
  BY NatLessThanWellFounded, WFMin
<1>2. PICK x \in S : \A y \in S : ~(<<y, x>> \in OpToRel(<, Nat))
  BY <1>1
<1>3. \A y \in S : ~(y < x)
  BY <1>2 DEF OpToRel
<1>4. QED
  BY <1>3

\* IndexNewline (bytes.IndexByte) is 0 on a line without '\n', and
\* otherwise the position of its first '\n'.
LEMMA IndexNewlineFacts ==
  ASSUME NEW s \in Seq(STRING)
  PROVE  /\ IndexNewline(s) \in 0..Len(s)
         /\ IndexNewline(s) = 0 => OneLine(s)
         /\ IndexNewline(s) # 0 =>
              /\ s[IndexNewline(s)] = Newline
              /\ \A j \in 1..(IndexNewline(s) - 1) : s[j] # Newline
<1> DEFINE First(i) == s[i] = Newline /\ \A j \in 1..(i - 1) : s[j] # Newline
<1>1. CASE \E i \in 1..Len(s) : s[i] = Newline
  <2> DEFINE S == {i \in 1..Len(s) : s[i] = Newline}
  <2>1. S \in SUBSET Nat /\ S # {}
    BY <1>1
  <2>2. PICK m \in S : \A j \in S : m <= j
    BY <2>1, LeastNat
  <2>3. m \in 1..Len(s) /\ First(m)
    BY <2>2
  <2>4. \E i \in 1..Len(s) : First(i)
    BY <2>3
  <2> DEFINE c == CHOOSE i \in 1..Len(s) : First(i)
  <2>5. c \in 1..Len(s) /\ First(c)
    BY <2>4
  <2>6. IndexNewline(s) = c
    BY <1>1 DEF IndexNewline
  <2>7. /\ IndexNewline(s) \in 1..Len(s)
        /\ s[IndexNewline(s)] = Newline
        /\ \A j \in 1..(IndexNewline(s) - 1) : s[j] # Newline
    BY <2>5, <2>6 DEF First
  <2>8. QED
    BY <2>7
<1>2. CASE ~\E i \in 1..Len(s) : s[i] = Newline
  BY <1>2 DEF IndexNewline, OneLine
<1>3. QED
  BY <1>1, <1>2

\* TrimSuffix returns a prefix of its argument.
LEMMA TrimSuffixPrefix ==
  ASSUME NEW s \in Seq(STRING)
  PROVE  /\ TrimSuffix(s) \in Seq(STRING)
         /\ Len(TrimSuffix(s)) <= Len(s)
         /\ \A j \in 1..Len(TrimSuffix(s)) : TrimSuffix(s)[j] = s[j]
<1>1. CASE Len(s) > 0 /\ s[Len(s)] = Newline
  <2>1. TrimSuffix(s) = SubSeq(s, 1, Len(s) - 1)
    BY <1>1 DEF TrimSuffix
  <2>2. QED
    BY <1>1, <2>1
<1>2. CASE ~(Len(s) > 0 /\ s[Len(s)] = Newline)
  <2>1. TrimSuffix(s) = s
    BY <1>2 DEF TrimSuffix
  <2>2. QED
    BY <2>1
<1>3. QED
  BY <1>1, <1>2

\* What is left of a buffer after its first i bytes.
LEMMA SubSeqRest ==
  ASSUME NEW s \in Seq(STRING), NEW i \in 1..Len(s)
  PROVE  SubSeq(s, i + 1, Len(s)) \in Seq(STRING)
         /\ Len(SubSeq(s, i + 1, Len(s))) = Len(s) - i
OBVIOUS

\* A prefix of a line is a line.
LEMMA PrefixOneLine ==
  ASSUME NEW s \in Seq(STRING), NEW u \in Seq(STRING), OneLine(s),
         Len(u) <= Len(s), \A j \in 1..Len(u) : u[j] = s[j]
  PROVE  OneLine(u)
BY DEF OneLine

\* Two lines put together are one line.
LEMMA OneLineConcat ==
  ASSUME NEW s \in Seq(STRING), NEW t \in Seq(STRING), OneLine(s), OneLine(t)
  PROVE  OneLine(s \o t)
BY DEF OneLine

\* A line returned at end of input, with no '\n' read, is one line.
LEMMA EOFLine ==
  ASSUME NEW f \in Seq(STRING), NEW b \in Seq(STRING), OneLine(f), OneLine(b)
  PROVE  OneLine(TrimSuffix(f \o b)) /\ TrimSuffix(f \o b) \in Seq(STRING)
<1>1. OneLine(f \o b) /\ f \o b \in Seq(STRING)
  BY OneLineConcat
<1>2. /\ TrimSuffix(f \o b) \in Seq(STRING)
      /\ Len(TrimSuffix(f \o b)) <= Len(f \o b)
      /\ \A j \in 1..Len(TrimSuffix(f \o b)) : TrimSuffix(f \o b)[j] = (f \o b)[j]
  BY <1>1, TrimSuffixPrefix
<1>3. OneLine(TrimSuffix(f \o b))
  BY <1>1, <1>2, PrefixOneLine
<1>4. QED
  BY <1>2, <1>3

\* The bytes up to and including the first '\n', trimmed, are one line.
LEMMA FoundLine ==
  ASSUME NEW f \in Seq(STRING), NEW b \in Seq(STRING), OneLine(f),
         NEW i \in 1..Len(b), b[i] = Newline,
         \A j \in 1..(i - 1) : b[j] # Newline
  PROVE  OneLine(TrimSuffix(f \o SubSeq(b, 1, i)))
         /\ TrimSuffix(f \o SubSeq(b, 1, i)) \in Seq(STRING)
<1> DEFINE t == f \o SubSeq(b, 1, i)
<1>1. t \in Seq(STRING) /\ Len(t) = Len(f) + i
  OBVIOUS
<1>2. t[Len(t)] = Newline
  BY <1>1
<1>3. TrimSuffix(t) = SubSeq(t, 1, Len(t) - 1)
  BY <1>1, <1>2 DEF TrimSuffix
<1>4. \A j \in 1..(Len(t) - 1) : t[j] # Newline
  BY <1>1 DEF OneLine
<1>5. SubSeq(t, 1, Len(t) - 1) \in Seq(STRING)
      /\ Len(SubSeq(t, 1, Len(t) - 1)) = Len(t) - 1
      /\ \A j \in 1..(Len(t) - 1) : SubSeq(t, 1, Len(t) - 1)[j] = t[j]
  BY <1>1
<1>6. OneLine(SubSeq(t, 1, Len(t) - 1))
  BY <1>4, <1>5 DEF OneLine
<1>7. QED
  BY <1>3, <1>5, <1>6

-----------------------------------------------------------------------------
(***************************************************************************)
(* IInv is an inductive invariant of Spec.                                 *)
(***************************************************************************)
USE BufSizeAssumption, MaxPromptsAssumption

\* Appending a line to answers keeps every answer a line.
LEMMA AppendLine ==
  ASSUME NEW a \in Seq(Seq(STRING)), NEW l \in Seq(STRING), OneLine(l),
         \A k \in 1..Len(a) : OneLine(a[k])
  PROVE  /\ Append(a, l) \in Seq(Seq(STRING))
         /\ Len(Append(a, l)) = Len(a) + 1
         /\ \A k \in 1..Len(Append(a, l)) : OneLine(Append(a, l)[k])
<1>1. Append(a, l) \in Seq(Seq(STRING)) /\ Len(Append(a, l)) = Len(a) + 1
  OBVIOUS
<1>2. \A k \in 1..Len(a) : Append(a, l)[k] = a[k]
  OBVIOUS
<1>3. Append(a, l)[Len(a) + 1] = l
  OBVIOUS
<1>4. QED
  BY <1>1, <1>2, <1>3

LEMMA InitIInv == Init => IInv
<1> SUFFICES ASSUME Init PROVE IInv
  OBVIOUS
<1>1. typed \in Inputs /\ typed \in Seq(STRING) /\ pos = 0 /\ buf = <<>>
      /\ full = <<>> /\ answers = <<>> /\ eof = FALSE /\ pc = "idle"
  BY InputsAssumption DEF Init
<1>2. Seqs
  BY <1>1 DEF Seqs
<1>3. Bounds
  BY <1>1, BufSizeAssumption, MaxPromptsAssumption DEF Bounds
<1>4. Flags
  BY <1>1 DEF Flags
<1>5. Lines
  BY <1>1 DEF Lines, OneLine, AnswersAreLines
<1>6. QED
  BY <1>2, <1>3, <1>4, <1>5 DEF IInv

LEMMA PromptBeginIInv == IInv /\ PromptBegin => IInv'
<1> SUFFICES ASSUME IInv, PromptBegin PROVE IInv'
  OBVIOUS
<1>1. /\ buf' = <<>> /\ full' = <<>> /\ eof' = FALSE /\ pc' = "reading"
      /\ UNCHANGED <<typed, pos, answers>> /\ Len(answers) < MaxPrompts
  BY DEF PromptBegin
<1>2. Seqs'
  BY <1>1 DEF IInv, Seqs
<1>3. Bounds'
  BY <1>1 DEF IInv, Seqs, Bounds
<1>4. Flags'
  BY <1>1 DEF Flags
<1>5. Lines'
  BY <1>1 DEF IInv, Lines, OneLine, AnswersAreLines
<1>6. QED
  BY <1>2, <1>3, <1>4, <1>5 DEF IInv

LEMMA ReadSliceFoundIInv == IInv /\ ReadSliceFound => IInv'
<1> SUFFICES ASSUME IInv, ReadSliceFound PROVE IInv'
  OBVIOUS
<1> DEFINE i == IndexNewline(buf)
<1> DEFINE line == TrimSuffix(full \o SubSeq(buf, 1, i))
<1>1. buf \in Seq(STRING) /\ full \in Seq(STRING) /\ OneLine(full)
      /\ answers \in Seq(Seq(STRING)) /\ Len(answers) < MaxPrompts
      /\ \A k \in 1..Len(answers) : OneLine(answers[k])
  BY DEF IInv, Seqs, Bounds, Lines, ReadSliceFound, AnswersAreLines
<1>2. i \in 1..Len(buf) /\ buf[i] = Newline /\ \A j \in 1..(i - 1) : buf[j] # Newline
  <2>1. i # 0
    BY DEF ReadSliceFound
  <2>2. QED
    BY <1>1, <2>1, IndexNewlineFacts
<1>3. OneLine(line) /\ line \in Seq(STRING)
  BY <1>1, <1>2, FoundLine
<1>4. /\ answers' = Append(answers, line)
      /\ buf' = SubSeq(buf, i + 1, Len(buf))
      /\ pc' = "idle"
      /\ UNCHANGED <<typed, pos, full, eof>>
  BY DEF ReadSliceFound
<1>5. /\ answers' \in Seq(Seq(STRING))
      /\ Len(answers') = Len(answers) + 1
      /\ \A k \in 1..Len(answers') : OneLine(answers'[k])
  BY <1>1, <1>3, <1>4, AppendLine
<1>6. buf' \in Seq(STRING) /\ Len(buf') = Len(buf) - i
  <2>1. i \in 1..Len(buf)
    BY <1>2
  <2>2. SubSeq(buf, i + 1, Len(buf)) \in Seq(STRING)
        /\ Len(SubSeq(buf, i + 1, Len(buf))) = Len(buf) - i
    BY <1>1, <2>1, SubSeqRest
  <2>3. QED
    BY <1>4, <2>2
<1>7. Seqs'
  BY <1>4, <1>5, <1>6 DEF IInv, Seqs
<1>8. Bounds'
  <2>1. pos \in 0..Len(typed) /\ Len(buf) <= BufSize /\ Len(buf) <= pos
        /\ i \in 1..Len(buf) /\ Len(buf) \in Nat
    BY <1>1, <1>2 DEF IInv, Bounds
  <2>2. QED
    BY <2>1, <1>1, <1>4, <1>5, <1>6 DEF Bounds
<1>9. Flags'
  BY <1>4 DEF IInv, Flags
<1>10. Lines'
  BY <1>1, <1>4, <1>5 DEF Lines, AnswersAreLines
<1>11. QED
  BY <1>7, <1>8, <1>9, <1>10 DEF IInv

LEMMA ReadSliceEOFIInv == IInv /\ ReadSliceEOF => IInv'
<1> SUFFICES ASSUME IInv, ReadSliceEOF PROVE IInv'
  OBVIOUS
<1> DEFINE line == TrimSuffix(full \o buf)
<1>1. buf \in Seq(STRING) /\ full \in Seq(STRING) /\ OneLine(full)
      /\ answers \in Seq(Seq(STRING)) /\ Len(answers) < MaxPrompts
      /\ \A k \in 1..Len(answers) : OneLine(answers[k])
  BY DEF IInv, Seqs, Bounds, Lines, ReadSliceEOF, AnswersAreLines
<1>2. OneLine(buf)
  BY <1>1, IndexNewlineFacts DEF ReadSliceEOF
<1>3. OneLine(line) /\ line \in Seq(STRING)
  BY <1>1, <1>2, EOFLine
<1>4. /\ answers' = Append(answers, line)
      /\ buf' = <<>> /\ pc' = "idle"
      /\ UNCHANGED <<typed, pos, full, eof>>
  BY DEF ReadSliceEOF
<1>5. /\ answers' \in Seq(Seq(STRING))
      /\ Len(answers') = Len(answers) + 1
      /\ \A k \in 1..Len(answers') : OneLine(answers'[k])
  BY <1>1, <1>3, <1>4, AppendLine
<1>6. Seqs'
  BY <1>4, <1>5 DEF IInv, Seqs
<1>7. Bounds'
  BY <1>1, <1>4, <1>5 DEF IInv, Bounds, Seqs
<1>8. Flags'
  BY <1>4 DEF IInv, Flags
<1>9. Lines'
  BY <1>1, <1>4, <1>5 DEF Lines, AnswersAreLines
<1>10. QED
  BY <1>6, <1>7, <1>8, <1>9 DEF IInv

LEMMA ReadSliceFullIInv == IInv /\ ReadSliceFull => IInv'
<1> SUFFICES ASSUME IInv, ReadSliceFull PROVE IInv'
  OBVIOUS
<1>1. buf \in Seq(STRING) /\ full \in Seq(STRING) /\ OneLine(full)
  BY DEF IInv, Seqs, Lines
<1>2. OneLine(buf)
  BY <1>1, IndexNewlineFacts DEF ReadSliceFull
<1>3. OneLine(full \o buf)
  BY <1>1, <1>2, OneLineConcat
<1>4. /\ full' = full \o buf /\ buf' = <<>>
      /\ UNCHANGED <<typed, pos, eof, pc, answers>>
  BY DEF ReadSliceFull
<1>5. Seqs'
  BY <1>1, <1>4 DEF IInv, Seqs
<1>6. Bounds'
  BY <1>4 DEF IInv, Bounds
<1>7. Flags'
  BY <1>4 DEF IInv, Flags
<1>8. Lines'
  BY <1>3, <1>4 DEF IInv, Lines, AnswersAreLines
<1>9. QED
  BY <1>5, <1>6, <1>7, <1>8 DEF IInv

LEMMA FillDataIInv == IInv /\ FillData => IInv'
<1> SUFFICES ASSUME IInv, FillData PROVE IInv'
  OBVIOUS
<1>1. typed \in Seq(STRING) /\ buf \in Seq(STRING) /\ pos \in 0..Len(typed)
      /\ Len(buf) <= pos /\ Len(buf) < BufSize
  BY DEF IInv, Seqs, Bounds, FillData
<1>2. PICK k \in ReadSizes(BufSize - Len(buf)) :
        /\ buf' = buf \o SubSeq(typed, pos + 1, pos + k)
        /\ pos' = pos + k
  BY DEF FillData
<1>3. k \in 1..(BufSize - Len(buf)) /\ k <= Len(typed) - pos
  BY <1>1, <1>2 DEF ReadSizes
<1>4. buf' \in Seq(STRING) /\ Len(buf') = Len(buf) + k
  BY <1>1, <1>2, <1>3
<1>5. UNCHANGED <<typed, full, eof, pc, answers>>
  BY DEF FillData
<1>6. Seqs'
  BY <1>4, <1>5 DEF IInv, Seqs
<1>7. Bounds'
  BY <1>1, <1>2, <1>3, <1>4, <1>5 DEF IInv, Bounds
<1>8. Flags'
  BY <1>5 DEF IInv, Flags
<1>9. Lines'
  BY <1>5 DEF IInv, Lines, AnswersAreLines
<1>10. QED
  BY <1>6, <1>7, <1>8, <1>9 DEF IInv

LEMMA FillEOFIInv == IInv /\ FillEOF => IInv'
<1> SUFFICES ASSUME IInv, FillEOF PROVE IInv'
  OBVIOUS
<1>1. eof' = TRUE /\ UNCHANGED <<typed, pos, buf, full, pc, answers>>
  BY DEF FillEOF
<1>2. QED
  BY <1>1 DEF IInv, Seqs, Bounds, Flags, Lines, AnswersAreLines

LEMMA NextIInv == IInv /\ [Next]_vars => IInv'
<1> SUFFICES ASSUME IInv, [Next]_vars PROVE IInv'
  OBVIOUS
<1>1. CASE PromptBegin
  BY <1>1, PromptBeginIInv
<1>2. CASE ReadSliceFound
  BY <1>2, ReadSliceFoundIInv
<1>3. CASE ReadSliceEOF
  BY <1>3, ReadSliceEOFIInv
<1>4. CASE ReadSliceFull
  BY <1>4, ReadSliceFullIInv
<1>5. CASE FillData
  BY <1>5, FillDataIInv
<1>6. CASE FillEOF
  BY <1>6, FillEOFIInv
<1>7. CASE UNCHANGED vars
  BY <1>7 DEF IInv, Seqs, Bounds, Flags, Lines, AnswersAreLines, vars
<1>8. QED
  BY <1>1, <1>2, <1>3, <1>4, <1>5, <1>6, <1>7 DEF Next

(***************************************************************************)
(* For every stdin, terminal or pipe, and however its Reads split it, each *)
(* value Prompt returns (line 155) is one line with no '\n' in it.          *)
(***************************************************************************)
THEOREM AnswersAreLinesHolds == Spec => []AnswersAreLines
<1>1. Spec => []IInv
  BY InitIInv, NextIInv, PTL DEF Spec
<1>2. IInv => AnswersAreLines
  BY DEF IInv, Lines
<1>3. QED
  BY <1>1, <1>2, PTL

=============================================================================
