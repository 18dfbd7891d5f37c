------------------------------ MODULE MCProgress ------------------------------
(***************************************************************************)
(* What must happen in the end, in two small state spaces: the leases of   *)
(* MCDeviceAllocator, or the mesh screen of the applet.                    *)
(***************************************************************************)
EXTENDS MCDeviceAllocator

CONSTANTS NoFile, Unoccupied

VARIABLES node, file, spawning, enabled, visible, state, failed, ui, thread, waiting, drawn,
          clicks, news, mishaps
screenVars == <<node, file, spawning, enabled, visible, state, failed, ui, thread, waiting, drawn, clicks, news, mishaps>>
allVars == <<mcVars, screenVars>>

\* While the user edits, the node has news; or anything else happens.
Edits == INSTANCE MeshPanel WITH
  Worker <- {1, 2}, Field <- {"strategy"}, Shown <- {"strategy"},
  Traffic <- {"place", "peer", "attr", "timeout"},
  MaxClicks <- 1, MaxNews <- 1, MaxFaults <- 1, Idle <- Unoccupied, queued <- waiting, faults <- mishaps
Ends == INSTANCE MeshPanel WITH
  Worker <- {1, 2}, Field <- {"strategy"}, Shown <- {"strategy"},
  Traffic <- {"hide", "toggle", "place", "peer", "attr", "spawn", "crash", "timeout", "noproc"},
  MaxClicks <- 1, MaxNews <- 0, MaxFaults <- 1, Idle <- Unoccupied, queued <- waiting, faults <- mishaps

Allocator(A) == Leases(A) /\ UNCHANGED screenVars
Screen ==
  /\ \/ part = "edits" /\ Edits!Next
     \/ part = "ends" /\ Ends!Next
  /\ UNCHANGED mcVars

ProgressInit ==
  /\ Init /\ Edits!Init /\ part \in {"leases", "edits", "ends"}
  /\ part = "leases" => ~enabled /\ ~node.up /\ file = NoFile

\* The fairness of both: the fair actions of MeshPanel are enabled alike in both
\* its parts, and never while the mesh is off and has no node.
ProgressSpec ==
  /\ ProgressInit /\ [][Allocator(Next) \/ Screen]_allVars
  /\ \A c \in Call : SF_allVars(Allocator(TakesLock(c))) /\ WF_allVars(Allocator(Resumes(c)))
  /\ \A d \in Device : WF_allVars(Allocator(Reaps(d)))
  /\ Ends!Fairness

\* MeshPanel: the screen ends up as the node is.
ViewCatchesUp == Ends!ViewCatchesUp
=============================================================================
