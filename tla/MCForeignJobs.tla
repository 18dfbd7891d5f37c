---------------------------- MODULE MCForeignJobs ----------------------------
(***************************************************************************)
(* Small instances of ForeignJobs for TLC.  The dispatches share one work  *)
(* key.  A behaviour of MCSpec is one of "contract", as the constants say; *)
(* of "expiry", one dispatch where nobody crashes or is edited, and what   *)
(* is remembered expires; or of "owner", where the executor takes the      *)
(* originator for its owner and runs the jobs on its host.                 *)
(***************************************************************************)
EXTENDS ForeignJobs

CONSTANT k

SameKey == [d \in Dispatch |-> k]

VARIABLE part
mcVars == <<part, vars>>

Expiry == INSTANCE ForeignJobs WITH Traffic <- {"drop", "timeout", "late", "giveup", "expire", "reap"}
Owner == INSTANCE ForeignJobs WITH Distrusting <- {}

MCInit == Init /\ part \in {"contract", "expiry", "owner"}

MCNext ==
  /\ UNCHANGED part
  /\ \/ part = "contract" /\ Next
     \/ part = "expiry" /\ Expiry!Next /\ \A d \in Dispatch \ {1} : route'[d] = route[d]
     \/ part = "owner" /\ Owner!Next

MCSpec == MCInit /\ [][MCNext]_mcVars
=============================================================================
