-------------------------------- MODULE Machine --------------------------------
(***************************************************************************)
(* What runs on a machine of the mesh besides its agents: the trays and    *)
(* nodes with the processes around them, the watcher of the tray's panes,  *)
(* and what the node knows of its token budget.  In the code they share no *)
(* state, so each has variables of its own here.                           *)
(***************************************************************************)
EXTENDS SingleInstance

CONSTANTS
  Pane, MaxBackoff,                              \* of ApiWatch
  Ttl, Retry, Keep, Every, Span, MaxTime, MaxJobs   \* of Quota

\* Periods are constants of usage.py, node.py and the applet; quotaWindowDays is
\* the operator's, and may be anything.
ASSUME MachineConstants ==
  /\ MaxBackoff \in Nat \ {0} /\ Keep \in Nat /\ Every \in Nat
  /\ Span \in Int /\ MaxJobs \in Nat

VARIABLES watching, screen, poll, seen, backoff, last, count, since
paneVars == <<watching, screen, poll, seen, backoff, last, count, since>>

VARIABLES now, account, cache, probe, node, refreshed, ledger, saved, booked, edit
quotaVars == <<now, account, cache, probe, node, refreshed, ledger, saved, booked, edit>>

Watch == INSTANCE ApiWatch WITH enabled <- watching, scan <- poll
Budget == INSTANCE Quota

\* ApiWatch: nobody is nudged too early.
NudgeIsDue == Watch!NudgeIsDue

\* Quota: what passes for the account's figure is recent.
RealIsFresh == Budget!RealIsFresh

\* Quota: every job of the window is counted, once.
LedgerKept == Budget!LedgerKept
=============================================================================
