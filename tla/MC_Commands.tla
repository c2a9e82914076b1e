----------------------------- MODULE MC_Commands -----------------------------
(***************************************************************************)
(* Invocations of the deployment commands for TLC.  A tick is one second;  *)
(* the timeout allows three polls.  The cluster places one instance, so a  *)
(* request for two cannot be placed.                                       *)
(***************************************************************************)
EXTENDS Commands

MCTimeout  == 3
MCInterval == 1
MCCapacity == 1

C80    == <<56, 48>>        \* "80"
C8080  == <<56, 48, 56, 48>> \* "8080"
CWeb   == <<119>>           \* "w"

NoFlag     == <<<<>>>>                     \* --ports ""
TwoPorts   == <<C80, C8080>>               \* --ports 80,8080
MetaPorts  == [monitored |-> 8080, exposed |-> <<8080>>]
RouteNone  == <<<<<<>>>>>>                 \* --routes ""
RouteWeb   == <<<<C80, CWeb>>>>            \* --routes 80:w
RouteTrail == <<<<C80, CWeb>>, <<<<>>>>>>  \* --routes 80:w,
RouteBad   == <<<<CWeb>>>>                 \* --routes w

\* The argument shapes: too few; APP IMAGE; APP IMAGE -- CMD; APP IMAGE X CMD;
\* APP IMAGE -- CMD ARG.
ArgShapes ==
  {[argc |-> 1, sep |-> FALSE, startCmd |-> FALSE],
   [argc |-> 2, sep |-> FALSE, startCmd |-> FALSE],
   [argc |-> 4, sep |-> TRUE,  startCmd |-> TRUE],
   [argc |-> 4, sep |-> FALSE, startCmd |-> TRUE],
   [argc |-> 5, sep |-> TRUE,  startCmd |-> TRUE]}

MCCreateInputs ==
  {[argc |-> a.argc, sep |-> a.sep, startCmd |-> a.startCmd, cpu |-> c,
    fetchOK |-> f, ports |-> p, monitored |-> 0, noMonitor |-> FALSE,
    metaPorts |-> MetaPorts, metaStart |-> m, routes |-> r, instances |-> n] :
     a \in ArgShapes, c \in {0, 100}, f \in BOOLEAN, p \in {NoFlag, TwoPorts},
     m \in BOOLEAN, r \in {RouteNone, RouteWeb, RouteTrail, RouteBad},
     n \in {1, 2}}

MCScaleInputs ==
  {[name |-> b, instances |-> n] : b \in BOOLEAN,
                                   n \in {MissingArg, NotAnInteger, 0, 1, 2}}

MCRouteInputs == {[name |-> b, routes |-> r] : b \in BOOLEAN,
                                               r \in {RouteNone, RouteWeb, RouteBad}}

MCRemoveInputs == {[name |-> b] : b \in BOOLEAN}

MCInitialApps ==
  {[exists |-> FALSE, desired |-> 0, running |-> 0, unplaced |-> FALSE,
    removing |-> FALSE, routes |-> <<>>],
   [exists |-> TRUE, desired |-> 1, running |-> 1, unplaced |-> FALSE,
    removing |-> FALSE, routes |-> <<>>]}
=============================================================================
