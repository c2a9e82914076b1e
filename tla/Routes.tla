-------------------------------- MODULE Routes --------------------------------
(***************************************************************************)
(* The route override parser, parseRouteOverrides (src/unnamed/part_000    *)
(* lines 536-555), used by create (line 277) and update-routes (line 355). *)
(* A --routes value is given as strings.Split(routes, ","), each piece     *)
(* itself split on ":" (line 543): a sequence of segments, each a sequence *)
(* of byte strings.  The empty segment is the split of "", one empty part. *)
(* Init picks a routes value, Parse parses it and Reparse parses the       *)
(* serialized form of the result, as section 8 of spec.md describes.       *)
(***************************************************************************)
EXTENDS Integers, Sequences, GoStrings

CONSTANTS
  RoutesFlags,  \* set of --routes values, split on "," and then on ":"
  NoResult      \* model value: not yet parsed

EmptySegment == <<<<>>>>

\* docker_app_runner.RouteOverride{HostnamePrefix, Port}
Override(port, prefix) == [port |-> port, prefix |-> prefix]

Parsed(list) == [ok |-> TRUE, routes |-> list]
Malformed    == [ok |-> FALSE, routes |-> <<>>]

\* One non-empty segment: routeArr[0] must pass strconv.Atoi and there must
\* be a second part; the port is uint16(maybePort), the prefix routeArr[1].
SegmentOK(seg) == AtoiOK(seg[1]) /\ Len(seg) >= 2

SegmentOverride(seg) == Override(Uint16(Atoi(seg[1])), seg[2])

\* Mutant: each override prepended to the list instead of appended.
ParseRouteOverridesPrepend(routes) ==
  LET segs == SelectSeq(routes, LAMBDA seg : seg # EmptySegment)
  IN  IF \E i \in 1..Len(segs) : ~SegmentOK(segs[i])
      THEN Malformed
      ELSE Parsed([i \in 1..Len(segs) |-> SegmentOverride(segs[Len(segs) + 1 - i])])

\* The loop skips empty segments and returns nil on the first malformed one.
ParseRouteOverrides(routes) ==
  LET segs == SelectSeq(routes, LAMBDA seg : seg # EmptySegment)
  IN  IF \E i \in 1..Len(segs) : ~SegmentOK(segs[i])
      THEN Malformed
      ELSE Parsed([i \in 1..Len(segs) |-> SegmentOverride(segs[i])])

\* The serialized form of an override list: "port:prefix" pieces joined
\* with ","; the empty list serializes to "".
Serialize(list) ==
  IF list = <<>> THEN <<EmptySegment>>
  ELSE [i \in 1..Len(list) |-> <<Itoa(list[i].port), list[i].prefix>>]

VARIABLES flag, first, second

vars == <<flag, first, second>>

Init ==
  /\ flag \in RoutesFlags
  /\ first = NoResult
  /\ second = NoResult

\* parseRouteOverrides(routesFlag) as create and update-routes call it.
Parse ==
  /\ first = NoResult
  /\ first' = ParseRouteOverrides(flag)
  /\ UNCHANGED <<flag, second>>

\* Parse the serialized form of a successfully parsed list again.
Reparse ==
  /\ first # NoResult /\ first.ok /\ second = NoResult
  /\ second' = ParseRouteOverrides(Serialize(first.routes))
  /\ UNCHANGED <<flag, first>>

Next == Parse \/ Reparse

Spec == Init /\ [][Next]_vars

-----------------------------------------------------------------------------
Result == [ok : BOOLEAN, routes : Seq([port : 0..65535, prefix : Seq(Int)])]

TypeOK ==
  /\ flag \in RoutesFlags
  /\ first \in {NoResult} \cup Result
  /\ second \in {NoResult} \cup Result

(***************************************************************************)
(* RoundTrip: spec.md section 8: parsing the serialized form of a parsed   *)
(* override list reproduces the same list, in the same order, duplicates   *)
(* kept.  It fails if a parsed port or prefix could not be written back    *)
(* as a segment the parser reads the same way.                             *)
(***************************************************************************)
RoundTrip == second # NoResult => second = first

=============================================================================
