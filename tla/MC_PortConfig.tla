---------------------------- MODULE MC_PortConfig ----------------------------
(***************************************************************************)
(* Inputs of getPortConfigFromArgs for TLC: every --ports flag of one or   *)
(* two pieces drawn from a set of pieces that are valid, lexically out of  *)
(* numeric order, negative, too large, non-numeric or empty.               *)
(***************************************************************************)
EXTENDS PortConfig

P80    == <<56, 48>>              \* "80"
P8080  == <<56, 48, 56, 48>>      \* "8080"
P9     == <<57>>                  \* "9"
PNeg1  == <<45, 49>>              \* "-1"
P70000 == <<55, 48, 48, 48, 48, 48>>  \* "70000"
PWeb   == <<119>>                 \* "w"
PEmpty == <<>>                    \* ""

Pieces == {P80, P8080, P9, PNeg1, P70000, PWeb, PEmpty}

MCPortsFlags ==
  {EmptyFlag} \cup {<<p>> : p \in Pieces \ {PEmpty}}
              \cup {<<p, q>> : p, q \in Pieces}

MCMonitoredFlags == {0, 80, 9999, 70000}

MCMetadatas == {NoPorts, [monitored |-> 3000, exposed |-> <<3000, 4000>>]}
=============================================================================
