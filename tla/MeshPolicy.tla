------------------------------ MODULE MeshPolicy ------------------------------
(***************************************************************************)
(* What the nodes of a mesh decide and keep, besides the work itself: the  *)
(* overrides they gossip; and in one node what it keeps for its operator,  *)
(* what it tells its peers of its token budget, and its beacon sockets.    *)
(* In the code these share no state that either reads of the other, so     *)
(* each has variables of its own here.                                     *)
(***************************************************************************)
EXTENDS Overrides

CONSTANTS
  Fingerprint, TrustTraffic, BudgetTraffic,       \* of NodeState
  MaxTrustCmds, MaxBudgetCmds, MaxStateFaults,
  MaxTurns, MaxRebuilds                           \* of Beacons

VARIABLES up, baseline, mem, disk, stateFile, cmd, budget, probing, seeding, linked, held,
          expect, cut, chosen, lost, unshown, missed, cmds, faults
state == <<up, baseline, mem, disk, stateFile, cmd, budget, probing, seeding, linked, held,
           expect, cut, chosen, lost, unshown, missed, cmds, faults>>

VARIABLES gate, net, send, recv, blocked, reason, ticks, deaf, turns, rebuilds
beacons == <<gate, net, send, recv, blocked, reason, ticks, deaf, turns, rebuilds>>

Trust == INSTANCE NodeState WITH
  Device <- Fingerprint, Traffic <- TrustTraffic, MaxCmds <- MaxTrustCmds, MaxFaults <- MaxStateFaults,
  shown <- stateFile
Budget == INSTANCE NodeState WITH
  Device <- Fingerprint, Traffic <- BudgetTraffic, MaxCmds <- MaxBudgetCmds, MaxFaults <- MaxStateFaults,
  shown <- stateFile
B == INSTANCE Beacons WITH MaxChanges <- MaxTurns, MaxFaults <- MaxRebuilds, changes <- turns, faults <- rebuilds

\* NodeState: what the operator was told of devices and of the level holds.
OperatorsWord == Trust!OperatorsWord

\* NodeState: a linked peer knows the token state and the budget.
PeersKnowBudget == Budget!PeersKnowBudget

\* Beacons: a node beacons, or says why not.
BeaconsSettle == B!BeaconsSettle
=============================================================================
