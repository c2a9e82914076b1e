---------------------------- MODULE MC_Terminal ----------------------------
(* Small instances of Terminal: stdin holds up to four bytes of 'a' and    *)
(* '\n', the buffer holds two bytes, and three prompts are asked.          *)
EXTENDS Terminal

\* Every stdin content of at most MCInputLen bytes over "a" and "\n".
MCInputLen == 4
MCInputs == UNION {[1..n -> {"a", Newline}] : n \in 0..MCInputLen}
=============================================================================
