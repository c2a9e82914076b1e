------------------------------ MODULE PortConfig ------------------------------
(***************************************************************************)
(* The port configuration resolver, getPortConfigFromArgs                  *)
(* (src/unnamed/part_000 lines 480-534): from the --ports flag, the        *)
(* --monitored-port flag, the --no-monitor flag and the image metadata it  *)
(* derives the exposed ports and the monitored port of a create request.   *)
(* The --ports flag is given split on commas (strings.Split, line 503),    *)
(* each piece a byte string; the empty flag is the split of "", one empty  *)
(* piece.  The resolver is a pure function; the module checks it over     *)
(* every input of small sets: Init picks the input, Resolve computes it.   *)
(* Messages printed with ui.Say are left out.                              *)
(***************************************************************************)
EXTENDS Integers, Sequences, TLC, GoStrings

CONSTANTS
  PortsFlags,      \* set of --ports values, each split on ","
  MonitoredFlags,  \* set of --monitored-port values (context.Int)
  Metadatas,       \* set of image metadata port configurations
  NoResult         \* model value: not yet resolved

\* The empty --ports flag: strings.Split("", ",") = [""].
EmptyFlag == <<<<>>>>

\* docker_app_runner.PortConfig{}; IsEmpty holds when nothing is exposed.
NoPorts == [monitored |-> 0, exposed |-> <<>>]
IsEmpty(pc) == pc.exposed = <<>>

Errors == {"InvalidPort", "MustSetMonitoredPort"}

Ok(pc) == [ok |-> TRUE, err |-> "none", ports |-> pc]
Fail(e) == [ok |-> FALSE, err |-> e, ports |-> NoPorts]

\* portsFlag == "" && metadata exposes ports: the metadata's configuration.
\* portsFlag == "" otherwise: 8080, monitored unless --no-monitor.
DefaultPorts(noMonitor) ==
  [monitored |-> IF noMonitor THEN 0 ELSE 8080, exposed |-> <<8080>>]

\* Mutant: no upper bound on a port.
ValidPortNoUpperBound(p) == AtoiOK(p)

\* The conversion loop (lines 510-518) over the lexically sorted pieces.
ValidPort(p) == AtoiOK(p) /\ Atoi(p) <= 65535

ConvertPorts(sorted) == [i \in 1..Len(sorted) |-> Uint16(Atoi(sorted[i]))]

GetPortConfigFromArgs(portsFlag, monitoredPortFlag, noMonitorFlag, meta) ==
  IF portsFlag = EmptyFlag THEN
    IF ~IsEmpty(meta) THEN Ok(meta) ELSE Ok(DefaultPorts(noMonitorFlag))
  ELSE IF Len(portsFlag) > 1 /\ monitoredPortFlag = 0 /\ ~noMonitorFlag THEN
    Fail("MustSetMonitoredPort")
  ELSE
    LET sorted == SortSeq(portsFlag, LexLess)
        conv   == ConvertPorts(sorted)
    IN  IF \E i \in 1..Len(sorted) : ~ValidPort(sorted[i])
        THEN Fail("InvalidPort")
        ELSE Ok([monitored |-> IF Len(portsFlag) > 1
                               THEN Uint16(monitoredPortFlag) ELSE conv[1],
                 exposed   |-> conv])

VARIABLES args, out

vars == <<args, out>>

Inputs == [ports : PortsFlags, monitored : MonitoredFlags,
           noMonitor : BOOLEAN, meta : Metadatas]

Init ==
  /\ args \in Inputs
  /\ out = NoResult

\* createApp's call factory.getPortConfigFromArgs(...) (line 239).
Resolve ==
  /\ out = NoResult
  /\ out' = GetPortConfigFromArgs(args.ports, args.monitored,
                                  args.noMonitor, args.meta)
  /\ UNCHANGED args

Next == Resolve

Spec == Init /\ [][Next]_vars

-----------------------------------------------------------------------------
PortCfg == [monitored : 0..65535, exposed : Seq(0..65535)]

TypeOK ==
  /\ args \in Inputs
  /\ out \in {NoResult} \cup [ok : BOOLEAN, err : Errors \cup {"none"},
                              ports : PortCfg]

(***************************************************************************)
(* The resolution policy of spec.md section 4.2, written from its text: a  *)
(* piece of the ports flag must be an unsigned decimal integer in          *)
(* [0, 65535], the pieces are sorted lexically, a single listed port is    *)
(* the monitored one.                                                      *)
(***************************************************************************)
Unsigned(p) == Len(p) > 0 /\ \A i \in 1..Len(p) : IsDigit(p[i])

SpecPortConfig(portsFlag, monitoredPortFlag, noMonitorFlag, meta) ==
  IF portsFlag = EmptyFlag /\ ~IsEmpty(meta) THEN Ok(meta)
  ELSE IF portsFlag = EmptyFlag THEN Ok(DefaultPorts(noMonitorFlag))
  ELSE IF Len(portsFlag) > 1 /\ monitoredPortFlag = 0 /\ ~noMonitorFlag
  THEN Fail("MustSetMonitoredPort")
  ELSE IF \E i \in 1..Len(portsFlag) :
            ~Unsigned(portsFlag[i]) \/ DigitsValue(portsFlag[i]) > 65535
  THEN Fail("InvalidPort")
  ELSE LET sorted == SortSeq(portsFlag, LexLess)
           exposed == [i \in 1..Len(sorted) |-> DigitsValue(sorted[i])]
       IN  Ok([monitored |-> IF Len(portsFlag) = 1 THEN exposed[1]
                             ELSE monitoredPortFlag,
               exposed   |-> exposed])

(***************************************************************************)
(* AgreesWithSpec: on flags the spec's contract speaks of without doubt    *)
(* (no sign character in a listed port and a monitored-port flag that is a *)
(* port number), getPortConfigFromArgs returns what section 4.2 says:      *)
(* the same error or the same exposed ports in the same lexical order and  *)
(* the same monitored port.  It covers the precedence of the four rules,   *)
(* the all-or-nothing conversion and the single-port monitoring rule.      *)
(***************************************************************************)
NoSign(flag) == \A i \in 1..Len(flag) :
                  \A j \in 1..Len(flag[i]) : flag[i][j] \notin {Plus, Minus}

AgreesWithSpec ==
  (out # NoResult /\ NoSign(args.ports) /\ args.monitored \in 0..65535) =>
    out = SpecPortConfig(args.ports, args.monitored, args.noMonitor, args.meta)

(***************************************************************************)
(* PortsWithinRange: spec.md sections 4.2 and 8: every listed port that is *)
(* not an integer in [0, 65535] makes resolution fail with InvalidPort, so *)
(* a resolved configuration exposes exactly the listed numbers.            *)
(***************************************************************************)
PortsWithinRange ==
  (out # NoResult /\ out.ok /\ args.ports # EmptyFlag) =>
    \A i \in 1..Len(args.ports) :
      Unsigned(args.ports[i]) /\ DigitsValue(args.ports[i]) <= 65535

=============================================================================
