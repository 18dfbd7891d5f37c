---------------------------- MODULE MCWorkClaims ----------------------------
(***************************************************************************)
(* Small instances of WorkClaims for TLC, of nodes that trust each other.  *)
(* A behaviour is one of two nodes that race for work over a link that     *)
(* fails; of two that restart while they race; of two nodes whose agents   *)
(* end in every way; or of three nodes of which the first claims for a     *)
(* caller of its own and the third restarts, which the others may learn    *)
(* from each other.                                                        *)
(***************************************************************************)
EXTENDS WorkClaims

VARIABLE part
mcVars == <<part, vars>>

Everyone == Node \X Node
All == Node \cup {3}

Restarts == INSTANCE WorkClaims WITH
  Traffic <- {"connect", "restart", "timeout", "refuse"}
Pair == INSTANCE WorkClaimsProofs WITH
  MaxJobs <- 0, Traffic <- {"settle", "target", "overrun", "restart", "connect", "killed"}
Trio == INSTANCE WorkClaimsProofs WITH
  Node <- All, Personal <- All \X All, Callers <- Node, MaxSeq <- 1, MaxSpawns <- 0,
  Traffic <- {"gossip", "settle", "restart"}

\* Two nodes and one more: what the invariant of Pair and the instance Trio need.
ASSUME PairAssumption == \A a, b, c \in Node : a = b \/ b = c \/ a = c
ASSUME TrioAssumption == NoClaim \notin Trio!Claim /\ NoRoute \notin Trio!Route

MCInit == \/ part \in {"race", "restarts", "pair"} /\ Init
          \/ part = "trio" /\ Trio!Init
MCNext ==
  /\ UNCHANGED part
  /\ \/ part = "race" /\ Next
     \/ part = "restarts" /\ Restarts!Next
     \/ part = "pair" /\ Pair!Next
     \/ part = "trio" /\ Trio!Next /\ \A n \in Node : epoch'[n] = 1
MCSpec == MCInit /\ [][MCNext]_mcVars

\* WorkClaims: who suppresses work is right, or will be told (where a link is
\* lost by restarts only: a release is not sent again over a new one).
HolderBacked == /\ part = "pair" => Pair!HolderIsBacked
                /\ part = "trio" => Trio!HolderIsBacked
=============================================================================
