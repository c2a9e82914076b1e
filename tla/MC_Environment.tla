--------------------------- MODULE MC_Environment ---------------------------
(***************************************************************************)
(* -e tokens and inherited environments for TLC.  Names A and AB share a   *)
(* prefix; values are empty, plain, or contain "=".                        *)
(***************************************************************************)
EXTENDS Environment

NA  == <<65>>       \* "A"
NAB == <<65, 66>>   \* "AB"
V1  == <<49>>       \* "1"
V2  == <<50>>       \* "2"

\* "A=1", "A", "A=", "A=1=2", "AB=2", "AB"
Tokens == {<<NA, V1>>, <<NA>>, <<NA, <<>>>>, <<NA, V1, V2>>, <<NAB, V2>>, <<NAB>>}

MCTokenLists == {<<>>} \cup {<<t>> : t \in Tokens} \cup {<<t, u>> : t, u \in Tokens}

\* No inherited variables; or AB=1 inherited before A=2.
MCEnvirons == {<<>>, <<<<NAB, V1>>, <<NA, V2>>>>}
=============================================================================
