------------------------------ MODULE GoStrings ------------------------------
(***************************************************************************)
(* The Go standard-library conversions the command factory applies to its *)
(* flag strings, modelled by what they do.  A string is a sequence of byte *)
(* codes.  The flag parsers first split a string on a separator; a split   *)
(* string is the sequence of its pieces, so strings.Split(s, ",") of the   *)
(* empty string is the sequence holding one empty piece.  The operators    *)
(* here are the ones called at src/unnamed/part_000 lines 472 (HasPrefix), *)
(* 508 (sort.Strings), 513 and 544 (strconv.Atoi), 517 and 549 (uint16).   *)
(***************************************************************************)
EXTENDS Integers, Sequences

\* Byte codes of the characters the inputs are made of.
Plus  == 43
Minus == 45
Colon == 58
Equal == 61

IsDigit(c) == c \in 48..57

\* The digits after an optional sign.
Body(s) == IF Len(s) > 0 /\ s[1] \in {Plus, Minus} THEN Tail(s) ELSE s

\* strconv.Atoi(s) returns a nil error: an optional sign, then at least one
\* digit and nothing else.  (Its range error is for values beyond 64 bits,
\* which no input here reaches.)
AtoiOK(s) == Len(Body(s)) > 0 /\ \A i \in 1..Len(Body(s)) : IsDigit(Body(s)[i])

\* The value of a string of decimal digits.
DigitsValue(d) ==
  LET v[i \in 0..Len(d)] == IF i = 0 THEN 0 ELSE 10 * v[i - 1] + (d[i] - 48)
  IN  v[Len(d)]

\* The value strconv.Atoi(s) returns when AtoiOK(s).
Atoi(s) == IF s[1] = Minus THEN -DigitsValue(Body(s)) ELSE DigitsValue(Body(s))

\* Go's conversion uint16(n) of an int keeps the low 16 bits.
Uint16(n) == n % 65536

\* strconv.Itoa(n) of a natural number.
Itoa(n) ==
  LET d[m \in 0..n] == IF m < 10 THEN <<48 + m>>
                       ELSE d[m \div 10] \o <<48 + (m % 10)>>
  IN  d[n]

\* Go's string comparison a < b: bytewise, a proper prefix first.
LexLess(a, b) ==
  \/ Len(a) < Len(b) /\ a = SubSeq(b, 1, Len(a))
  \/ \E i \in 1..Len(a) :
       /\ i <= Len(b)
       /\ SubSeq(a, 1, i - 1) = SubSeq(b, 1, i - 1)
       /\ a[i] < b[i]

\* strings.HasPrefix(s, p)
HasPrefix(s, p) == Len(p) <= Len(s) /\ SubSeq(s, 1, Len(p)) = p

\* strings.Join(pieces, <<sep>>): the inverse of the split representation.
JoinWith(pieces, sep) ==
  LET j[i \in 0..Len(pieces)] ==
        IF i = 0 THEN <<>>
        ELSE IF i = 1 THEN pieces[1]
        ELSE j[i - 1] \o <<sep>> \o pieces[i]
  IN  j[Len(pieces)]

=============================================================================
