-------------------------- MODULE MC_TaskCommands --------------------------
(* Two ltc processes and one task guid.  The files hold a valid task, an   *)
(* invalid JSON, or cannot be read; either process may submit any of them  *)
(* or no path, or delete the guid or no guid.                              *)
EXTENDS TaskCommands

CONSTANTS P1, P2, G1, Good, Bad, Gone

MCProcs == {P1, P2}
MCGuids == {G1}
MCPaths == {Good, Bad, Gone}
MCFiles == [f \in MCPaths |->
              CASE f = Good -> [valid |-> TRUE, guid |-> G1]
                [] f = Bad  -> [valid |-> FALSE, guid |-> G1]
                [] f = Gone -> Missing]
MCInvocations ==
  [kind : {"submit"}, arg : MCPaths \cup {NoArg}] \cup
  [kind : {"delete"}, arg : MCGuids \cup {NoArg}]
=============================================================================
