--------------------------- MODULE CommandsProofs ---------------------------
(***************************************************************************)
(* Proofs about the deployment commands (Commands.tla): the placement      *)
(* error is fatal and remove reports only a removal it observed, for every *)
(* timeout, interval, capacity and set of invocations.                     *)
(***************************************************************************)
EXTENDS Commands, TLAPS

AppFields == {"exists", "desired", "running", "unplaced", "removing", "routes"}

PCs == {"start", "poll", "loop", "call", "sleep", "finish"} \cup Ended

(***************************************************************************)
(* The inductive invariant.  PlacementIsFatal is not inductive: the        *)
(* placement flag is set inside the predicate and read only after the      *)
(* loop, so the invariant records that a set flag ends the loop at once    *)
(* (fatal => pc \in {"finish", "exited"}) and that nothing was said before *)
(* a command returns.  RemovedMeansGone needs that a finished remove poll  *)
(* that returned true saw the app gone, and that no create can bring it    *)
(* back (the command is fixed).  ok is FALSE until the loop returns.       *)
(***************************************************************************)
Typed ==
  /\ DOMAIN app = AppFields /\ app.exists \in BOOLEAN /\ app.unplaced \in BOOLEAN
  /\ cmd \in {"create", "scale", "routes", "remove"}
  /\ pc \in PCs
  /\ now \in Nat /\ start \in Nat
  /\ ok \in BOOLEAN /\ fatal \in BOOLEAN
  /\ seen.placement \in BOOLEAN
  /\ exitCode \in {"none", "PlacementError"}

Phases ==
  /\ pc \notin {"returned", "panicked"} => said = {}
  /\ pc \in {"start", "poll", "loop", "call", "sleep"} => ~ok

Placement ==
  /\ fatal => cmd \in {"create", "scale"} /\ seen.placement /\ pc \in {"finish", "exited"}
  /\ exitCode = "PlacementError" => fatal /\ pc = "exited"
  /\ pc = "exited" => exitCode = "PlacementError"

Removal ==
  /\ cmd = "remove" /\ pc = "finish" /\ ok => ~app.exists
  /\ "removed" \in said => cmd = "remove" /\ pc = "returned" /\ ~app.exists

IInv == Typed /\ Phases /\ Placement /\ Removal

USE TimeoutAssumption, IntervalAssumption, CapacityAssumption, InitialAppsAssumption

LEMMA InitIInv == Init => IInv
<1> SUFFICES ASSUME Init PROVE IInv
  OBVIOUS
<1>1. app \in App
  BY DEF Init
<1>2. Typed
  BY <1>1 DEF Init, Typed, App, AppFields, PCs, NoRead
<1>3. QED
  BY <1>2 DEF Init, IInv, Phases, Placement, Removal

LEMMA NextIInv == IInv /\ [Next]_vars => IInv'
<1> SUFFICES ASSUME IInv, [Next]_vars PROVE IInv'
  OBVIOUS
<1> USE DEF IInv, Typed, Phases, Placement, Removal, PCs, AppFields, Ended
<1>1. CASE CreateRejected
  BY <1>1 DEF CreateRejected
<1>2. CASE CreateSubmitted
  <2>1. cmd = "create" /\ pc = "start" /\ said = {} /\ ~fatal
    BY <1>2 DEF CreateSubmitted
  <2>2. UNCHANGED <<cmd, in, now, start, ok, fatal, seen, stopped, exitCode>>
    BY <1>2 DEF CreateSubmitted
  <2>3. CASE /\ app' = [exists |-> TRUE, desired |-> in.instances, running |-> 0,
                         unplaced |-> FALSE, removing |-> FALSE,
                         routes |-> CreateRoutes(in).routes]
             /\ pc' = "poll" /\ UNCHANGED said
    <3>1. DOMAIN app' = AppFields /\ app'.exists = TRUE /\ app'.unplaced = FALSE
      BY <2>3
    <3>2. QED
      BY <2>1, <2>2, <2>3, <3>1
  <2>4. CASE pc' = "returned" /\ said' = said \cup {"error"} /\ UNCHANGED <<app, logs>>
    BY <2>1, <2>2, <2>4
  <2>5. QED
    BY <1>2, <2>3, <2>4 DEF CreateSubmitted
<1>3. CASE CreateReport
  BY <1>3 DEF CreateReport
<1>4. CASE ScaleRequested
  BY <1>4 DEF ScaleRequested
<1>5. CASE ScaleReport
  BY <1>5 DEF ScaleReport
<1>6. CASE PlacementExit
  BY <1>6 DEF PlacementExit
<1>7. CASE RoutesUpdated
  BY <1>7 DEF RoutesUpdated
<1>8. CASE RemoveRequested
  BY <1>8 DEF RemoveRequested
<1>9. CASE RemoveReport
  BY <1>9 DEF RemoveReport
<1>10. CASE PollBegin
  BY <1>10 DEF PollBegin
<1>11. CASE LoopEnter
  BY <1>11 DEF LoopEnter
<1>12. CASE TimeOut
  BY <1>12 DEF TimeOut
<1>13. CASE PollInstances
  <2>1. pc = "call" /\ cmd \in {"create", "scale"} /\ ~fatal
    BY <1>13 DEF PollInstances
  <2>2. UNCHANGED <<cmd, in, now, start, app, logs, stopped, said, exitCode>>
    BY <1>13 DEF PollInstances
  <2>3. PICK failed \in BOOLEAN :
          LET read == IF failed THEN NoRead
                      ELSE [err |-> FALSE, running |-> app.running,
                            placement |-> app.unplaced, exists |-> app.exists]
          IN  /\ seen' = read
              /\ fatal' = (fatal \/ read.placement)
              /\ PollAnswer(read.placement \/ read.running = Target)
    BY <1>13 DEF PollInstances
  <2>4. seen'.placement \in BOOLEAN /\ fatal' = seen'.placement
    BY <2>1, <2>3 DEF NoRead
  <2>5. /\ ok' \in BOOLEAN
        /\ pc' = IF ok' THEN "finish" ELSE "sleep"
        /\ seen'.placement => ok'
    BY <2>3, <2>4 DEF PollAnswer, NoRead
  <2>6. QED
    BY <2>1, <2>2, <2>4, <2>5
<1>14. CASE PollExists
  BY <1>14 DEF PollExists, PollAnswer, NoRead
<1>15. CASE Sleep
  BY <1>15 DEF Sleep
<1>16. CASE InstanceStarts
  BY <1>16 DEF InstanceStarts
<1>17. CASE InstanceStops
  BY <1>17 DEF InstanceStops
<1>18. CASE PlacementChanges
  BY <1>18 DEF PlacementChanges
<1>19. CASE AppDeleted
  BY <1>19 DEF AppDeleted
<1>20. CASE UNCHANGED vars
  BY <1>20 DEF vars
<1>21. QED
  BY <1>1, <1>2, <1>3, <1>4, <1>5, <1>6, <1>7, <1>8, <1>9, <1>10, <1>11, <1>12, <1>13, <1>14, <1>15, <1>16, <1>17, <1>18, <1>19, <1>20 DEF Next, Client, Cluster

\* The invariant holds in every state of every behaviour.
THEOREM InvariantHolds == Spec => []IInv
BY InitIInv, NextIInv, PTL DEF Spec

(***************************************************************************)
(* For every timeout, interval, capacity and set of invocations, and       *)
(* whatever the cluster does: once a poll of create or scale has read a    *)
(* placement error, the command never says it succeeded and ends by        *)
(* exitHandler.Exit(PlacementError), and that exit follows only a read     *)
(* placement error (lines 389-401).                                        *)
(***************************************************************************)
THEOREM PlacementIsFatalHolds == Spec => []PlacementIsFatal
<1>1. IInv => PlacementIsFatal
  BY DEF IInv, Typed, Phases, Placement, PlacementIsFatal
<1>2. QED
  BY <1>1, InvariantHolds, PTL

(***************************************************************************)
(* remove says "Successfully Removed" only when the app no longer exists   *)
(* on the cluster, for every instance and any cluster behaviour: a failed  *)
(* AppExists query is never taken for the app's absence (lines 423-430).   *)
(***************************************************************************)
THEOREM RemovedMeansGoneHolds == Spec => []RemovedMeansGone
<1>1. IInv => RemovedMeansGone
  BY DEF IInv, Removal, RemovedMeansGone
<1>2. QED
  BY <1>1, InvariantHolds, PTL

=============================================================================
