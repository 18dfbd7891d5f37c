----------------------------- MODULE MCPeerLinks -----------------------------
(***************************************************************************)
(* Three nodes.  In two parts they share the secret and have room in their *)
(* tables for both others; connections fail in one, peers are reaped in    *)
(* the other.  Or they have room for one peer only: then a hello may be    *)
(* refused and its link never bound.  Or the node the others meet has a    *)
(* secret of its own.                                                      *)
(***************************************************************************)
EXTENDS PeerLinks

VARIABLE part

OneSecret == [n \in Node |-> 1]
TwoSecrets == [n \in Node |-> IF n = 3 THEN 2 ELSE 1]
\* 1 and 2 know of each other only what 3 tells them.
ViaThree == {<<1, 3>>, <<3, 1>>, <<2, 3>>, <<3, 2>>}
FirstKeys == {<<n, 1>> : n \in Node}

Reaping == INSTANCE PeerLinks WITH Traffic <- {"restart", "rekey", "gossip", "beacon", "reap"}
Cramped == INSTANCE PeerLinks WITH MaxPeers <- 1, Traffic <- {"gossip", "beacon", "reap", "fault"}
Strangers == INSTANCE PeerLinks WITH Secret <- TwoSecrets, Traffic <- {"gossip", "beacon"}

mcVars == <<vars, part>>
MCInit == Init /\ part \in {"faults", "reaping", "cramped", "strangers"}
MCNext ==
  /\ UNCHANGED part
  /\ \/ part = "faults" /\ Next
     \/ part = "reaping" /\ Reaping!Next
     \/ part = "cramped" /\ Cramped!Next
     \/ part = "strangers" /\ Strangers!Next

\* The fairness of FairSpec, of the nodes with room: its actions are the same
\* in both parts.
Roomy(A) == part \in {"faults", "reaping"} /\ A /\ UNCHANGED part
MCSpec ==
  /\ MCInit /\ [][MCNext]_mcVars
  /\ \A n, m \in Node : WF_mcVars(Roomy(Redial(n, m))) /\ WF_mcVars(Roomy(Silent(n, m)))
  /\ \A n \in Node, c \in Conn :
       /\ WF_mcVars(Roomy(OnHello(n, c))) /\ WF_mcVars(Roomy(OnNode(n, c))) /\ WF_mcVars(Roomy(OnAuth(n, c)))
       /\ WF_mcVars(Roomy(Eof(n, c))) /\ WF_mcVars(Roomy(HelloTimeout(n, c)))

\* PeerLinks, with room for all: nodes that have met end up linked and proved.
RoomyLinksHeal == part \in {"faults", "reaping"} => LinksHeal
=============================================================================
