------------------------------ MODULE MC_Routes ------------------------------
(***************************************************************************)
(* --routes values for TLC: one or two segments of one or two parts drawn  *)
(* from valid, negative, too large, non-numeric and empty parts, and a     *)
(* segment with two colons.                                                *)
(***************************************************************************)
EXTENDS Routes

R80    == <<56, 48>>                  \* "80"
RNeg1  == <<45, 49>>                  \* "-1"
R70000 == <<55, 48, 48, 48, 48, 48>>  \* "70000"
RWeb   == <<119>>                     \* "w"
RApi   == <<97>>                      \* "a"
REmpty == <<>>                        \* ""

Parts == {R80, RNeg1, R70000, RWeb, RApi, REmpty}

Segments == {<<p>> : p \in Parts} \cup {<<p, q>> : p, q \in Parts}
              \cup {<<R80, RWeb, RApi>>}

MCRoutesFlags == {<<s>> : s \in Segments} \cup {<<s, t>> : s, t \in Segments}
=============================================================================
