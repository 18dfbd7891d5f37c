------------------------------ MODULE PeerLinks ------------------------------
(***************************************************************************)
(* Links between mesh nodes (linux/diplomat_app/mesh/node.py): dialing on  *)
(* a beacon or from memory, the hello on each new connection, the proof    *)
(* of the device key, the table of peers, gossip about third nodes, and    *)
(* restarts that may lose the key.                                         *)
(*                                                                         *)
(* A connection has two ends; each closes on its own, and the other end    *)
(* learns of it later, by an end of file or by the silence.  A connection  *)
(* number is used again once both ends are closed.                         *)
(*                                                                         *)
(* Abstracted: adverts of one incarnation are alike (their seq and their   *)
(* attributes are left out), and when they are gossiped is left open;      *)
(* signatures are what they prove; addresses; the beacon sockets.          *)
(***************************************************************************)
EXTENDS Integers, Sequences, FiniteSets

CONSTANTS
  Node,      \* node ids: the smaller id dials
  Secret,    \* the join secret of each node
  Allowed,   \* device keys on everybody's allowlist
  MaxPeers,  \* _MAX_PEERS
  Near,      \* <<n, m>>: n has heard of m, and hears its beacons
  Conn,      \* connection numbers (a bound)
  Unstable,  \* nodes that restart (a bound)
  Traffic,   \* what may happen besides dialing and delivery (a bound)
  MaxEpoch, MaxFaults, MaxWire,   \* bounds
  NoConn, NoKey

Kinds == {"restart", "rekey", "fault", "reap", "gossip", "beacon"}
Key == Node \X Nat      \* the i-th key of a device

ASSUME PeerConstants ==
  /\ Node \subseteq Nat /\ Allowed \subseteq Key /\ Secret \in [Node -> Nat]
  /\ Near \subseteq Node \X Node
  /\ Traffic \subseteq Kinds /\ Unstable \subseteq Node /\ {MaxPeers, MaxEpoch, MaxFaults, MaxWire} \subseteq Nat
  /\ Conn \subseteq Nat /\ NoConn \notin Conn /\ NoKey \notin Key

VARIABLES
  epoch, key,   \* node -> its incarnation, its device key
  ends,         \* connection -> the node that dialed, the node that accepted
  stage,        \* connection -> node -> how far its end is
  wire,         \* connection -> node -> messages on their way to that node
  dialing,      \* node -> peers it holds a dial for (_dialing)
  peers,        \* node -> node -> what it knows of that peer
  cache,        \* node -> peers whose address it remembers on disk (_peer_cache)
  faults        \* connection errors so far

vars == <<epoch, key, ends, stage, wire, dialing, peers, cache, faults>>

Peer == [known : BOOLEAN, epoch : Nat, key : Key \cup {NoKey},
         writer : Conn \cup {NoConn}, verified : Key \cup {NoKey}]
Unknown == [known |-> FALSE, epoch |-> 0, key |-> NoKey, writer |-> NoConn, verified |-> NoKey]

Hello(n) == [t |-> "hello", about |-> n, epoch |-> epoch[n], key |-> key[n], secret |-> Secret[n]]
Advert(m, e, k) == [t |-> "node", about |-> m, epoch |-> e, key |-> k]
\* The signature of the holder of k over the nonce of the peer on c.
Auth(c, k) == [t |-> "auth", on |-> c, key |-> k]

Ends(c) == {ends[c][1], ends[c][2]}
Used(c) == ends[c] # <<>>
Other(n, c) == IF ends[c][1] = n THEN ends[c][2] ELSE ends[c][1]
At(n, c) == Used(c) /\ n \in Ends(c)
Linked(n, m) == peers[n][m].writer # NoConn

\* An end that was closed reads nothing any more.
Send(q, n, c, msgs) ==
  IF stage[c][Other(n, c)] = "closed" THEN q ELSE [q EXCEPT ![c][Other(n, c)] = @ \o msgs]

Init ==
  /\ epoch = [n \in Node |-> 1] /\ key = [n \in Node |-> <<n, 1>>]
  /\ ends = [c \in Conn |-> <<>>]
  /\ stage = [c \in Conn |-> [n \in Node |-> "closed"]]
  /\ wire = [c \in Conn |-> [n \in Node |-> <<>>]]
  /\ dialing = [n \in Node |-> {}]
  /\ peers = [n \in Node |-> [m \in Node |-> Unknown]]
  /\ cache = [n \in Node |-> {m \in Node : <<n, m>> \in Near}]
  /\ faults = 0

----------------------------------------------------------------------------
(* Dialing *)

\* The smaller id dials, once at a time.
MayDial(n, m) == n < m /\ ~Linked(n, m) /\ m \notin dialing[n]

\* _dial up to its link: a connection, and our hello on it.
Dial(n, m) ==
  /\ MayDial(n, m)
  /\ \E c \in Conn :
       /\ ~Used(c) /\ \A b \in Conn : ~Used(b) => c <= b
       /\ ends' = [ends EXCEPT ![c] = <<n, m>>]
       /\ stage' = [stage EXCEPT ![c] = [x \in Node |-> IF x \in {n, m} THEN "fresh" ELSE "closed"]]
       /\ wire' = [wire EXCEPT ![c][m] = <<Hello(n)>>]
  /\ dialing' = [dialing EXCEPT ![n] = @ \cup {m}]

\* _redial_loop: from memory, whatever has become of the beacons.
Redial(n, m) ==
  /\ m \in cache[n] /\ Dial(n, m)
  /\ UNCHANGED <<epoch, key, peers, cache, faults>>

TableFull(n) == Cardinality({m \in Node : peers[n][m].known}) >= MaxPeers

\* _on_beacon of a peer that is not linked.
BeaconDial(n, m) ==
  /\ "beacon" \in Traffic /\ <<n, m>> \in Near /\ (peers[n][m].known \/ ~TableFull(n))
  /\ Dial(n, m)
  /\ UNCHANGED <<epoch, key, peers, cache, faults>>

\* _drop_peer: the link is closed; its reader notices later.
Dropped(n, m) == /\ stage' = [stage EXCEPT ![peers[n][m].writer][n] = "closing"]
                 /\ peers' = [peers EXCEPT ![n][m].writer = NoConn]

\* _on_beacon of a linked peer: a later incarnation counts once the link is quiet.
BeaconRestarted(n, m) ==
  /\ "beacon" \in Traffic /\ <<n, m>> \in Near /\ Linked(n, m)
  /\ epoch[m] > peers[n][m].epoch /\ stage[peers[n][m].writer][m] = "closed"
  /\ Dropped(n, m)
  /\ UNCHANGED <<epoch, key, ends, wire, dialing, cache, faults>>

----------------------------------------------------------------------------
(* Messages *)

Reads(n, c, t) == At(n, c) /\ stage[c][n] \in {"fresh", "open"} /\ wire[c][n] # <<>> /\ Head(wire[c][n]).t = t
Rest(n, c) == [wire EXCEPT ![c][n] = Tail(@)]

\* Variant: a hello ends no proof.
LearnedKeepingProof(n, m, e, k, c) ==
  LET p == peers[n][m]
      fresh == ~p.known \/ e > p.epoch \/ (c # NoConn /\ k # p.key) IN
  [p EXCEPT !.known = TRUE,
            !.epoch = IF fresh THEN e ELSE @, !.key = IF fresh THEN k ELSE @,
            !.writer = IF c = NoConn THEN @ ELSE c]

\* _learn_node: what n knows of m after an advert (epoch e, key k), read in a
\* hello on c or gossiped (NoConn).  A proof holds for one key on one link.
Learned(n, m, e, k, c) ==
  LET p == peers[n][m]
      hello == c # NoConn
      fresh == ~p.known \/ e > p.epoch \/ (hello /\ k # p.key)
      void == hello /\ (c # p.writer \/ (fresh /\ k # p.verified)) IN
  [p EXCEPT !.known = TRUE,
            !.epoch = IF fresh THEN e ELSE @, !.key = IF fresh THEN k ELSE @,
            !.writer = IF hello THEN c ELSE @,
            !.verified = IF void THEN NoKey ELSE @]

\* Past the cap unknown ids are not learned; gossip does not re-key an id.
Refused(n, m, k, c) ==
  \/ ~peers[n][m].known /\ TableFull(n)
  \/ peers[n][m].known /\ c = NoConn /\ k # peers[n][m].key

\* The link m had until now is closed.
Superseded(n, m, c) == IF peers[n][m].writer \in Conn \ {c} THEN {peers[n][m].writer} ELSE {}

\* _on_tcp_connection, _run_link and _on_message for a hello: an accepter
\* sends its own first; a wrong secret ends the link; then the challenge is
\* answered with our key.
OnHello(n, c) ==
  /\ Reads(n, c, "hello")
  /\ LET msg == Head(wire[c][n])
         m == msg.about
         mine == IF ends[c][2] = n THEN <<Hello(n)>> ELSE <<>> IN
     IF msg.secret # Secret[n]
     THEN /\ stage' = [stage EXCEPT ![c][n] = "closing"]
          /\ wire' = Rest(n, c) /\ UNCHANGED <<peers, cache>>
     ELSE /\ wire' = Send(Rest(n, c), n, c, Append(mine, Auth(c, key[n])))
          /\ IF Refused(n, m, msg.key, c)
             THEN stage' = [stage EXCEPT ![c][n] = "open"] /\ UNCHANGED <<peers, cache>>
             ELSE /\ stage' = [b \in Conn |->
                       IF b = c THEN [stage[b] EXCEPT ![n] = "open"]
                       ELSE IF b \in Superseded(n, m, c) THEN [stage[b] EXCEPT ![n] = "closing"]
                       ELSE stage[b]]
                  /\ peers' = [peers EXCEPT ![n][m] = Learned(n, m, msg.epoch, msg.key, c)]
                  /\ cache' = [cache EXCEPT ![n] = @ \cup {m}]
  /\ UNCHANGED <<epoch, key, ends, dialing, faults>>

\* _on_message for gossip about a third node.
OnNode(n, c) ==
  /\ Reads(n, c, "node")
  /\ LET msg == Head(wire[c][n]) m == msg.about IN
     peers' = IF m = n \/ Refused(n, m, msg.key, NoConn) THEN peers
              ELSE [peers EXCEPT ![n][m] = Learned(n, m, msg.epoch, msg.key, NoConn)]
  /\ wire' = Rest(n, c)
  /\ UNCHANGED <<epoch, key, ends, stage, dialing, cache, faults>>

\* _verify_auth: a proof counts for the peer bound to the link it came on, and
\* for the key that peer advertises.
OnAuth(n, c) ==
  /\ Reads(n, c, "auth")
  /\ LET msg == Head(wire[c][n]) IN
     peers' = [peers EXCEPT ![n] = [m \in Node |->
                 IF peers[n][m].writer = c /\ msg.on = c /\ msg.key = peers[n][m].key
                 THEN [peers[n][m] EXCEPT !.verified = msg.key] ELSE peers[n][m]]]
  /\ wire' = Rest(n, c)
  /\ UNCHANGED <<epoch, key, ends, stage, dialing, cache, faults>>

\* n tells x, over their link, what it knows of m (its own advert, or a relay).
Gossip(n, x, m) ==
  /\ "gossip" \in Traffic /\ Linked(n, x) /\ m # x /\ (m = n \/ peers[n][m].known)
  /\ LET c == peers[n][x].writer IN
     /\ Len(wire[c][x]) < MaxWire /\ stage[c][x] # "closed"
     /\ wire' = Send(wire, n, c, <<IF m = n THEN Advert(n, epoch[n], key[n])
                                   ELSE Advert(m, peers[n][m].epoch, peers[n][m].key)>>)
  /\ UNCHANGED <<epoch, key, ends, stage, dialing, peers, cache, faults>>

----------------------------------------------------------------------------
(* Ends of links *)

\* Variant: the dial is not handed back with its link.
HandBackNever(n, c) == dialing

\* The finally of _dial.
HandBack(n, c) == IF ends[c][1] = n THEN [dialing EXCEPT ![n] = @ \ {ends[c][2]}] ELSE dialing

\* The finally of _run_link: the peer bound to this link, and only to this
\* one, is dropped.
Finish(n, c) ==
  /\ stage' = [stage EXCEPT ![c][n] = "closed"]
  /\ wire' = [wire EXCEPT ![c][n] = <<>>]
  /\ ends' = IF stage[c][Other(n, c)] = "closed" THEN [ends EXCEPT ![c] = <<>>] ELSE ends
  /\ dialing' = HandBack(n, c)
  /\ peers' = [peers EXCEPT ![n] = [m \in Node |->
       IF @[m].writer = c THEN [@[m] EXCEPT !.writer = NoConn] ELSE @[m]]]

Live(n, c) == At(n, c) /\ stage[c][n] # "closed"

\* The reader ends: it was closed here, or the other end was and all is read.
Eof(n, c) ==
  /\ Live(n, c)
  /\ stage[c][n] = "closing" \/ (wire[c][n] = <<>> /\ stage[c][Other(n, c)] = "closed")
  /\ Finish(n, c)
  /\ UNCHANGED <<epoch, key, cache, faults>>

\* A connection error.
Fault(n, c) ==
  /\ "fault" \in Traffic /\ faults < MaxFaults
  /\ Live(n, c) /\ stage[c][n] # "closing"
  /\ Finish(n, c) /\ faults' = faults + 1
  /\ UNCHANGED <<epoch, key, cache>>

\* The deadline of a link that has bound no peer: its hello was refused.
HelloTimeout(n, c) ==
  /\ Live(n, c) /\ stage[c][n] = "open" /\ \A m \in Node : peers[n][m].writer # c
  /\ wire[c][n] = <<>>
  /\ Finish(n, c)
  /\ UNCHANGED <<epoch, key, cache, faults>>

\* _heartbeat_loop: a linked peer is silent, its end being gone.
Silent(n, m) ==
  /\ Linked(n, m) /\ stage[peers[n][m].writer][m] = "closed"
  /\ Dropped(n, m)
  /\ UNCHANGED <<epoch, key, ends, wire, dialing, cache, faults>>

\* _heartbeat_loop: a peer that has long been down, or was never linked, goes.
Reap(n, m) ==
  /\ "reap" \in Traffic /\ peers[n][m].known /\ ~Linked(n, m)
  /\ peers' = [peers EXCEPT ![n][m] = Unknown]
  /\ UNCHANGED <<epoch, key, ends, stage, wire, dialing, cache, faults>>

\* Only the key and the addresses are on disk; the key may be lost as well.
Restart(n, i) ==
  /\ "restart" \in Traffic /\ n \in Unstable /\ epoch[n] < MaxEpoch
  /\ i = key[n][2] \/ ("rekey" \in Traffic /\ i = key[n][2] + 1)
  /\ epoch' = [epoch EXCEPT ![n] = @ + 1]
  /\ key' = [key EXCEPT ![n] = <<n, i>>]
  /\ stage' = [c \in Conn |-> [stage[c] EXCEPT ![n] = "closed"]]
  /\ wire' = [c \in Conn |-> [wire[c] EXCEPT ![n] = <<>>]]
  /\ ends' = [c \in Conn |-> IF At(n, c) /\ stage[c][Other(n, c)] = "closed" THEN <<>> ELSE ends[c]]
  /\ dialing' = [dialing EXCEPT ![n] = {}]
  /\ peers' = [peers EXCEPT ![n] = [m \in Node |-> Unknown]]
  /\ UNCHANGED <<cache, faults>>

Next ==
  \/ \E n, m \in Node : \/ Redial(n, m) \/ BeaconDial(n, m) \/ BeaconRestarted(n, m)
                        \/ Silent(n, m) \/ Reap(n, m)
  \/ \E n \in Node, c \in Conn : \/ OnHello(n, c) \/ OnNode(n, c) \/ OnAuth(n, c)
                                 \/ Eof(n, c) \/ Fault(n, c) \/ HelloTimeout(n, c)
  \/ \E n, x, m \in Node : Gossip(n, x, m)
  \/ \E n \in Node, i \in 1..MaxEpoch : Restart(n, i)

Spec == Init /\ [][Next]_vars

\* The loops of a node run and what is sent arrives; beacons may never.
Fairness ==
  /\ \A n, m \in Node : WF_vars(Redial(n, m)) /\ WF_vars(Silent(n, m))
  /\ \A n \in Node, c \in Conn : /\ WF_vars(OnHello(n, c)) /\ WF_vars(OnNode(n, c)) /\ WF_vars(OnAuth(n, c))
                                 /\ WF_vars(Eof(n, c)) /\ WF_vars(HelloTimeout(n, c))

FairSpec == Spec /\ Fairness

----------------------------------------------------------------------------
(* Properties *)

\* Every variable stays in its type.
TypeOK ==
  /\ epoch \in [Node -> Nat] /\ key \in [Node -> Key]
  /\ ends \in [Conn -> {<<>>} \cup (Node \X Node)]
  /\ stage \in [Conn -> [Node -> {"fresh", "open", "closing", "closed"}]]
  /\ dialing \in [Node -> SUBSET Node] /\ cache \in [Node -> SUBSET Node]
  /\ peers \in [Node -> [Node -> Peer]] /\ faults \in Nat

\* _peer_trust, without bans.
Personal(n, m) == peers[n][m].verified \in Allowed

\* Whatever was gossiped, replaced or left half open: a peer that counts as
\* personal on a link whose other end lives holds a key of the allowlist now.
PersonalHoldsKey ==
  \A n, m \in Node :
    (Personal(n, m) /\ Linked(n, m) /\ stage[peers[n][m].writer][m] # "closed") => key[m] \in Allowed

\* Two nodes that have met and share the secret end up linked and proved both
\* ways, with or without beacons.
Proved(n, m) == Linked(n, m) /\ peers[n][m].verified = key[m]
LinksHeal ==
  \A n, m \in Node : (n < m /\ <<n, m>> \in Near /\ Secret[n] = Secret[m]) => <>[](Proved(n, m) /\ Proved(m, n))
=============================================================================
