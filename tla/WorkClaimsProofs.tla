-------------------------- MODULE WorkClaimsProofs --------------------------
(***************************************************************************)
(* What holds of WorkClaims for any nodes, keys, trust, cap and traffic:   *)
(* the types; that two copies of a claim which neither out-fresh the other *)
(* are the same record; that a watched agent is claimed; that a host whose *)
(* process scan works runs one agent per key; that a watcher never reads   *)
(* the sentinel of another agent; and that no claim of a running agent is  *)
(* withdrawn in favour of a node that has started none.  Where links are   *)
(* lost by restarts only: that who suppresses work is right, or will be    *)
(* told.                                                                   *)
(***************************************************************************)
EXTENDS WorkClaims, TLAPS

Wire == [Node -> [Node -> Seq(Message)]]
Book == [Key -> [Node -> Claim \cup {NoClaim}]]

----------------------------------------------------------------------------
(* Types *)

\* Broadcasting messages leaves a wire.
LEMMA BroadcastType ==
  ASSUME NEW q \in Wire, NEW n \in Node, NEW ms \in Seq(Message)
  PROVE  Broadcast(q, n, ms) \in Wire
<1>1. ASSUME NEW m \in Node PROVE q[n][m] \o ms \in Seq(Message)
  BY DEF Wire
<1> QED BY <1>1 DEF Broadcast, Wire

\* So does a reply.
LEMMA ReplyType ==
  ASSUME NEW q \in Wire, NEW n \in Node, NEW m \in Node, NEW x \in Message
  PROVE  Reply(q, n, m, x) \in Wire
<1>1. Append(q[n][m], x) \in Seq(Message)
  BY DEF Wire
<1> QED BY <1>1 DEF Reply, Wire

\* Taking a message off a wire leaves a wire, and the message is one.
LEMMA ReadType ==
  ASSUME net \in Wire, NEW n \in Node, NEW m \in Node, NEW t, Reads(n, m, t)
  PROVE  /\ Rest(n, m) \in Wire
         /\ Msg(n, m) \in Message
         /\ Msg(n, m).t = t
<1>1. net[m][n] \in Seq(Message) /\ net[m][n] # <<>>
  BY DEF Reads, Wire
<1>2. Tail(net[m][n]) \in Seq(Message) /\ Head(net[m][n]) \in Message
  BY <1>1
<1> QED BY <1>1, <1>2 DEF Rest, Msg, Reads, Wire

\* The messages the handlers write.
LEMMA MessageTypes ==
  /\ \A rec \in Claim : WorkClaim(rec) \in Message
  /\ \A e \in Nat : Hello(e) \in Message
  /\ Auth \in Message
  /\ \A k \in Key, j \in Nat : Job(k, j) \in Message
  /\ \A j \in Nat, b \in BOOLEAN : JobStatus(j, b) \in Message
BY DEF Message, WorkClaim, Hello, Auth, Job, JobStatus

\* A minted record is a claim with the next seq.
LEMMA MintedType ==
  ASSUME TypeOK, NEW n \in Node, NEW k \in Key, NEW b \in BOOLEAN
  PROVE  /\ Minted(n, k, b) \in Claim
         /\ Minted(n, k, b).seq \in Seqno
<1>1. claimSeq[n][k] \in Nat \cup {-1} /\ epoch[n] \in Nat
  BY DEF TypeOK, Seqno
<1>2. claimSeq[n][k] + 1 \in Nat
  BY <1>1
<1> QED BY <1>1, <1>2 DEF Minted, Claim, Seqno

\* Storing a claim leaves a book.
LEMMA StoreType ==
  ASSUME NEW n \in Node, NEW book \in Book, NEW rec \in Claim
  PROVE  StoreClaim(n, book, rec) \in Book
BY DEF StoreClaim, Book, Claim

\* Emitting a claim keeps the types of what it writes.
LEMMA EmitType ==
  ASSUME TypeOK, NEW n \in Node, NEW k \in Key, NEW b \in BOOLEAN,
         NEW book \in Book, EmitClaim(n, k, b, book)
  PROVE  /\ claims' \in [Node -> Book]
         /\ claimSeq' \in [Node -> [Key -> Seqno]]
         /\ releasedAt' \in [Node -> SUBSET Key]
<1>1. Minted(n, k, b) \in Claim /\ Minted(n, k, b).seq \in Seqno
  BY MintedType
<1>2. StoreClaim(n, book, Minted(n, k, b)) \in Book
  BY <1>1, StoreType
<1>3. claims' \in [Node -> Book]
  BY <1>2 DEF EmitClaim, TypeOK, Book
<1>4. claimSeq' \in [Node -> [Key -> Seqno]]
  BY <1>1 DEF EmitClaim, TypeOK
<1>5. releasedAt' \in [Node -> SUBSET Key]
  BY DEF EmitClaim, TypeOK
<1> QED BY <1>3, <1>4, <1>5

\* Announcing a claim leaves a wire.
LEMMA AnnounceType ==
  ASSUME TypeOK, NEW q \in Wire, NEW n \in Node, NEW k \in Key, NEW b \in BOOLEAN
  PROVE  Announce(q, n, k, b) \in Wire
<1>1. WorkClaim(Minted(n, k, b)) \in Message
  BY MintedType, MessageTypes
<1>2. <<WorkClaim(Minted(n, k, b))>> \in Seq(Message)
  BY <1>1
<1> QED BY <1>2, BroadcastType DEF Announce

\* A spawn adds a process and a watcher of it.
LEMMA SpawnType ==
  ASSUME TypeOK, NEW n \in Node, NEW k \in Key, Spawn(n, k)
  PROVE  procs' \in Seq(AgentProc) /\ agents' \in [Node -> [Key -> Nat]]
<1>1. DonePath(n, k) \in Nat \X Nat
  BY DEF TypeOK, DonePath, Seqno
<1>2. [host |-> n, key |-> k, done |-> DonePath(n, k), live |-> TRUE] \in AgentProc
  BY <1>1 DEF AgentProc
<1>3. procs \in Seq(AgentProc) /\ Len(procs) \in Nat
  BY DEF TypeOK
<1> QED BY <1>2, <1>3 DEF Spawn, TypeOK

\* What a dispatch does to the variables, up to the next await.
LEMMA TryType ==
  ASSUME TypeOK, NEW n \in Node, NEW k \in Key, NEW left \in SUBSET Node,
         TryFrom(n, k, left), UNCHANGED <<epoch, sentinels, peers>>
  PROVE  TypeOK'
<1> USE DEF Wire, Book
<1>1. PICK passed \in SUBSET PassedOver(n, left) : TryFrom(n, k, left)!(passed)
  BY DEF TryFrom
<1> DEFINE rest == left \ passed
<1>2. ASSUME NoSpawn, Placed(n), UNCHANGED <<net, jobs>>
      PROVE  TypeOK'
  BY <1>2 DEF TypeOK, NoSpawn, Placed
<1>3. ASSUME Spawn(n, k), Placed(n), net' = Announce(net, n, k, TRUE), UNCHANGED jobs
      PROVE  TypeOK'
  <2>1. claims[n] \in Book /\ net \in Wire
    BY DEF TypeOK
  <2>2. /\ claims' \in [Node -> Book] /\ claimSeq' \in [Node -> [Key -> Seqno]]
        /\ releasedAt' \in [Node -> SUBSET Key]
    BY <2>1, <1>3, EmitType DEF Spawn
  <2>3. procs' \in Seq(AgentProc) /\ agents' \in [Node -> [Key -> Nat]]
    BY <1>3, SpawnType
  <2>4. net' \in Wire
    BY <2>1, <1>3, AnnounceType
  <2> QED BY <2>2, <2>3, <2>4, <1>3 DEF TypeOK, Placed
<1>4. ASSUME NEW e \in rest, jobs' = jobs + 1, net' = Reply(net, n, e, Job(k, jobs')),
             route' = [route EXCEPT ![n] = [key |-> k, left |-> rest \ {e},
                                            job |-> jobs', to |-> e]],
             NoSpawn
      PROVE  TypeOK'
  <2>1. jobs' \in Nat /\ e \in Node /\ rest \ {e} \in SUBSET Node
    BY <1>4 DEF TypeOK
  <2>2. net' \in Wire
    BY <2>1, <1>4, MessageTypes, ReplyType DEF TypeOK
  <2>3. [key |-> k, left |-> rest \ {e}, job |-> jobs', to |-> e] \in Route
    BY <2>1 DEF Route
  <2>4. route' \in [Node -> Route \cup {NoRoute}]
    BY <2>3, <1>4 DEF TypeOK
  <2> QED BY <2>1, <2>2, <2>4, <1>4 DEF TypeOK, NoSpawn
<1> QED BY <1>1, <1>2, <1>3, <1>4

\* A link record is replaced by a link record.
LEMMA RelinkType ==
  ASSUME TypeOK, NEW n \in Node, NEW m \in Node, NEW p \in Peer, Relink(n, m, p)
  PROVE  peers' \in [Node -> [Node -> Peer]]
BY DEF TypeOK, Relink

LEMMA PeerType ==
  ASSUME TypeOK, NEW n \in Node, NEW m \in Node
  PROVE  /\ peers[n][m] \in Peer
         /\ peers[n][m].epoch \in Nat
         /\ [peers[n][m] EXCEPT !.linked = FALSE] \in Peer
         /\ [peers[n][m] EXCEPT !.proved = TRUE] \in Peer
         /\ \A e \in Nat : [peers[n][m] EXCEPT !.epoch = e] \in Peer
         /\ Stranger \in Peer
<1>1. peers[n][m] \in Peer
  BY DEF TypeOK
<1> QED BY <1>1 DEF Peer, Stranger

\* The end of a dispatch, or of one of its requests.
LEMMA RouteType ==
  ASSUME TypeOK, NEW n \in Node, Placed(n) \/ (Asked(n) /\ Unanswered(n))
  PROVE  route' \in [Node -> Route \cup {NoRoute}]
<1>1. CASE Placed(n)
  BY <1>1 DEF Placed, TypeOK
<1>2. CASE Asked(n) /\ Unanswered(n)
  <2>1. route[n] \in Route
    BY <1>2 DEF Asked, TypeOK
  <2>2. [route[n] EXCEPT !.job = 0] \in Route
    BY <2>1 DEF Route
  <2>3. route' = [route EXCEPT ![n] = [route[n] EXCEPT !.job = 0]]
    BY <1>2 DEF Unanswered
  <2> QED BY <2>2, <2>3 DEF TypeOK
<1> QED BY <1>1, <1>2

LEMMA InitType == Init => TypeOK
  BY ConstantsAssumption DEF Init, TypeOK, Seqno, Stranger, Peer

\* Every step keeps every variable in its type.
LEMMA NextType == TypeOK /\ [Next]_vars => TypeOK'
<1> SUFFICES ASSUME TypeOK, [Next]_vars PROVE TypeOK'
  OBVIOUS
<1> USE DEF Wire, Book
<1>0. net \in Wire /\ claims \in [Node -> Book]
  BY DEF TypeOK
<1>1. ASSUME NEW n \in Node, NEW m \in Node, OnHello(n, m) PROVE TypeOK'
  <2>1. Rest(n, m) \in Wire /\ Msg(n, m) \in Message /\ Msg(n, m).t = "hello"
    BY <1>0, <1>1, ReadType DEF OnHello
  <2>2. Msg(n, m).epoch \in Nat
    BY <2>1 DEF Message
  <2>3. net' \in Wire
    BY <2>1, <1>1, MessageTypes DEF OnHello
  <2>4. peers' \in [Node -> [Node -> Peer]]
    <3> DEFINE e == Msg(n, m).epoch
               known == peers[n][m].epoch
               p == [linked |-> TRUE, proved |-> FALSE,
                     epoch |-> IF e > known THEN e ELSE known]
    <3>1. p \in Peer
      BY <2>2, PeerType DEF Peer
    <3>2. Relink(n, m, p)
      BY <1>1 DEF OnHello
    <3> QED BY <3>1, <3>2, RelinkType
  <2> QED BY <2>3, <2>4, <1>1 DEF OnHello, TypeOK
<1>2. ASSUME NEW n \in Node, NEW m \in Node, OnAuth(n, m) PROVE TypeOK'
  <2>1. Rest(n, m) \in Wire
    BY <1>0, <1>2, ReadType DEF OnAuth
  <2>2. peers' \in [Node -> [Node -> Peer]]
    <3>1. CASE Linked(n, m)
      BY <3>1, <1>2, PeerType, RelinkType DEF OnAuth
    <3>2. CASE ~Linked(n, m)
      BY <3>2, <1>2 DEF OnAuth, TypeOK
    <3> QED BY <3>1, <3>2
  <2> QED BY <2>1, <2>2, <1>2 DEF OnAuth, TypeOK
<1>3. ASSUME NEW n \in Node, NEW m \in Node, OnWorkClaim(n, m) PROVE TypeOK'
  <2>1. Rest(n, m) \in Wire /\ Msg(n, m) \in Message /\ Msg(n, m).t = "work-claim"
    BY <1>0, <1>3, ReadType DEF OnWorkClaim
  <2> DEFINE rec == Msg(n, m).claim
             book == StoreClaim(n, claims[n], rec)
             relayed == Broadcast(Rest(n, m), n, <<WorkClaim(rec)>>)
  <2>2. rec \in Claim /\ rec.key \in Key
    BY <2>1 DEF Message, Claim
  <2>3. book \in Book
    BY <1>0, <2>2, StoreType
  <2>4. relayed \in Wire
    <3>1. <<WorkClaim(rec)>> \in Seq(Message)
      BY <2>2, MessageTypes
    <3> QED BY <3>1, <2>1, BroadcastType
  <2>5. CASE NoEmit(n, claims[n]) /\ net' = Rest(n, m)
    BY <2>1, <2>5, <1>3 DEF OnWorkClaim, NoEmit, TypeOK
  <2>6. CASE EmitClaim(n, rec.key, FALSE, book) /\ net' = Announce(relayed, n, rec.key, FALSE)
    <3>1. /\ claims' \in [Node -> Book] /\ claimSeq' \in [Node -> [Key -> Seqno]]
          /\ releasedAt' \in [Node -> SUBSET Key]
      BY <2>2, <2>3, <2>6, EmitType
    <3>2. net' \in Wire
      BY <2>2, <2>4, <2>6, AnnounceType
    <3> QED BY <3>1, <3>2, <1>3 DEF OnWorkClaim, TypeOK
  <2>7. CASE NoEmit(n, book) /\ net' = relayed
    BY <2>3, <2>4, <2>7, <1>3 DEF OnWorkClaim, NoEmit, TypeOK
  <2> QED BY <2>5, <2>6, <2>7, <1>3 DEF OnWorkClaim
<1>4. ASSUME NEW n \in Node, NEW m \in Node, OnJob(n, m) PROVE TypeOK'
  <2>1. Rest(n, m) \in Wire /\ Msg(n, m) \in Message /\ Msg(n, m).t = "dispatch"
    BY <1>0, <1>4, ReadType DEF OnJob
  <2> DEFINE k == Msg(n, m).key
             j == Msg(n, m).job
             Answer(wire, spawned) == Reply(wire, n, m, JobStatus(j, spawned))
  <2>2. k \in Key /\ j \in Nat
    BY <2>1 DEF Message
  <2>3. ASSUME NEW wire \in Wire, NEW b \in BOOLEAN PROVE Answer(wire, b) \in Wire
    BY <2>2, MessageTypes, ReplyType
  <2>4. CASE NoSpawn /\ \E b \in BOOLEAN : net' = Answer(Rest(n, m), b)
    <3>1. net' \in Wire
      BY <2>1, <2>3, <2>4
    <3> QED BY <3>1, <2>4, <1>4 DEF OnJob, NoSpawn, TypeOK
  <2>5. CASE Spawn(n, k) /\ net' = Answer(Announce(Rest(n, m), n, k, TRUE), TRUE)
    <3>1. net' \in Wire
      BY <2>1, <2>2, <2>3, <2>5, AnnounceType
    <3>2. /\ claims' \in [Node -> Book] /\ claimSeq' \in [Node -> [Key -> Seqno]]
          /\ releasedAt' \in [Node -> SUBSET Key]
      BY <1>0, <2>2, <2>5, EmitType DEF Spawn
    <3>3. procs' \in Seq(AgentProc) /\ agents' \in [Node -> [Key -> Nat]]
      BY <2>2, <2>5, SpawnType
    <3> QED BY <3>1, <3>2, <3>3, <1>4 DEF OnJob, TypeOK
  <2> QED BY <2>4, <2>5, <1>4 DEF OnJob
<1>5. ASSUME NEW n \in Node, NEW m \in Node, OnJobStatus(n, m) PROVE TypeOK'
  <2>1. Rest(n, m) \in Wire
    BY <1>0, <1>5, ReadType DEF OnJobStatus
  <2>2. route' \in [Node -> Route \cup {NoRoute}]
    BY <1>5, RouteType DEF OnJobStatus, TypeOK
  <2> QED BY <2>1, <2>2, <1>5 DEF OnJobStatus, TypeOK
<1>6. ASSUME NEW n \in Node, NEW m \in Node, Connect(n, m) PROVE TypeOK'
  <2>1. <<Hello(epoch[n])>> \in Seq(Message) /\ <<Hello(epoch[m])>> \in Seq(Message)
    BY MessageTypes DEF TypeOK
  <2>2. net' \in Wire
    BY <2>1, <1>0, <1>6 DEF Connect
  <2> QED BY <2>2, <1>6 DEF Connect, TypeOK
<1>7. ASSUME NEW n \in Node, NEW m \in Node, LinkLost(n, m) \/ Eof(n, m) PROVE TypeOK'
  <2>1. peers' \in [Node -> [Node -> Peer]]
    BY <1>7, PeerType, RelinkType DEF LinkLost, Eof, Unlink
  <2>2. net' \in Wire
    <3>1. <<>> \in Seq(Message)
      OBVIOUS
    <3>2. [net EXCEPT ![m][n] = <<>>] \in Wire
      BY <3>1, <1>0
    <3> QED BY <3>2, <1>0, <1>7 DEF LinkLost, Eof
  <2> QED BY <2>1, <2>2, <1>7 DEF LinkLost, Eof, TypeOK
<1>8. ASSUME NEW n \in Node, NEW m \in Node, Hear(n, m) \/ ReapPeer(n, m) PROVE TypeOK'
  <2>1. peers' \in [Node -> [Node -> Peer]]
    <3>1. epoch[m] \in Nat
      BY DEF TypeOK
    <3> QED BY <3>1, <1>8, PeerType, RelinkType DEF Hear, ReapPeer
  <2>2. claims' \in [Node -> Book]
    <3>1. CASE Hear(n, m)
      BY <1>0, <3>1 DEF Hear
    <3>2. CASE ReapPeer(n, m)
      <4>1. [k \in Key |-> [claims[n][k] EXCEPT ![m] = NoClaim]] \in Book
        BY <1>0
      <4> QED BY <4>1, <1>0, <3>2 DEF ReapPeer
    <3> QED BY <1>8, <3>1, <3>2
  <2> QED BY <2>1, <2>2, <1>8 DEF Hear, ReapPeer, TypeOK
<1>9. ASSUME NEW n \in Node, NEW k \in Key, ClaimVerb(n, k) PROVE TypeOK'
  <2>1. /\ claims' \in [Node -> Book] /\ claimSeq' \in [Node -> [Key -> Seqno]]
        /\ releasedAt' \in [Node -> SUBSET Key]
    BY <1>0, <1>9, EmitType DEF ClaimVerb
  <2>2. net' \in Wire
    BY <1>0, <1>9, AnnounceType DEF ClaimVerb
  <2> QED BY <2>1, <2>2, <1>9 DEF ClaimVerb, TypeOK
<1>10. ASSUME NEW n \in Node, NEW k \in Key, ReapReleased(n, k) PROVE TypeOK'
  <2>1. claims' \in [Node -> Book]
    BY <1>0, <1>10 DEF ReapReleased
  <2> QED BY <2>1, <1>10 DEF ReapReleased, TypeOK
<1>11. ASSUME NEW n \in Node, NEW k \in Key, WatchEnds(n, k) PROVE TypeOK'
  <2>1. /\ claims' \in [Node -> Book] /\ claimSeq' \in [Node -> [Key -> Seqno]]
        /\ releasedAt' \in [Node -> SUBSET Key] /\ net' \in Wire
    <3>1. CASE claims[n][k][n] # NoClaim
      <4>1. EmitClaim(n, k, FALSE, claims[n]) /\ net' = Announce(net, n, k, FALSE)
        BY <3>1, <1>11 DEF WatchEnds
      <4> QED BY <4>1, <1>0, EmitType, AnnounceType
    <3>2. CASE claims[n][k][n] = NoClaim
      BY <3>2, <1>0, <1>11 DEF WatchEnds, TypeOK
    <3> QED BY <3>1, <3>2
  <2>2. /\ agents' \in [Node -> [Key -> Nat]]
        /\ sentinels' \subseteq Node \X Key \X (Nat \X Nat)
    BY <1>11 DEF WatchEnds, TypeOK
  <2> QED BY <2>1, <2>2, <1>11 DEF WatchEnds, TypeOK
<1>12. ASSUME NEW n \in Node, NEW k \in Key,
              Dispatch(n, k) \/ \E e \in Node : DispatchTo(n, k, e)
       PROVE  TypeOK'
  <2>1. \E left \in SUBSET Node : TryFrom(n, k, left)
    BY <1>12 DEF Dispatch, DispatchTo
  <2> QED BY <2>1, <1>12, TryType DEF Dispatch, DispatchTo
<1>13. ASSUME NEW n \in Node, Restart(n) PROVE TypeOK'
  <2>1. /\ epoch' \in [Node -> Nat]
        /\ claimSeq' \in [Node -> [Key -> Seqno]]
        /\ releasedAt' \in [Node -> SUBSET Key]
        /\ agents' \in [Node -> [Key -> Nat]]
        /\ route' \in [Node -> Route \cup {NoRoute}]
        /\ sentinels' \subseteq Node \X Key \X (Nat \X Nat)
    <3>1. epoch' \in [Node -> Nat]
      BY <1>13 DEF Restart, TypeOK
    <3>2. claimSeq' \in [Node -> [Key -> Seqno]]
      BY <1>13 DEF Restart, TypeOK, Seqno
    <3>3. releasedAt' \in [Node -> SUBSET Key] /\ route' \in [Node -> Route \cup {NoRoute}]
      BY <1>13 DEF Restart, TypeOK
    <3>4. agents' \in [Node -> [Key -> Nat]]
      BY <1>13 DEF Restart, TypeOK
    <3>5. sentinels' \subseteq sentinels
      BY <1>13 DEF Restart
    <3> QED BY <3>1, <3>2, <3>3, <3>4, <3>5 DEF TypeOK
  <2>2. peers' \in [Node -> [Node -> Peer]]
    BY <1>13 DEF Restart, TypeOK, Stranger, Peer
  <2>3. net' \in Wire /\ claims' \in [Node -> Book]
    BY <1>0, <1>13 DEF Restart
  <2> QED BY <2>1, <2>2, <2>3, <1>13 DEF Restart, TypeOK
<1>14. ASSUME NEW n \in Node, FailOver(n) PROVE TypeOK'
  <2>1. route[n].key \in Key /\ route[n].left \in SUBSET Node
    BY <1>14 DEF FailOver, TypeOK, Route
  <2> QED BY <2>1, <1>14, TryType DEF FailOver
<1>15. ASSUME NEW n \in Node, AckTimeout(n) PROVE TypeOK'
  <2>1. route' \in [Node -> Route \cup {NoRoute}]
    BY <1>15, RouteType DEF AckTimeout
  <2> QED BY <2>1, <1>15 DEF AckTimeout, TypeOK
<1>16. ASSUME NEW i \in DOMAIN procs, AgentExits(i) PROVE TypeOK'
  <2>1. procs \in Seq(AgentProc) /\ procs[i] \in AgentProc
    BY DEF TypeOK
  <2>2. procs' \in Seq(AgentProc) /\ SentinelOf(i) \in Node \X Key \X (Nat \X Nat)
    <3>1. procs' = [procs EXCEPT ![i] = [procs[i] EXCEPT !.live = FALSE]]
      BY <1>16 DEF AgentExits
    <3>2. [procs[i] EXCEPT !.live = FALSE] \in AgentProc
      BY <2>1 DEF AgentProc
    <3>3. procs' \in Seq(AgentProc)
      BY <2>1, <3>1, <3>2
    <3> QED BY <2>1, <3>3 DEF AgentProc, SentinelOf
  <2> QED BY <2>2, <1>16 DEF AgentExits, TypeOK
<1>17. CASE UNCHANGED vars
  BY <1>17 DEF vars, TypeOK
<1> QED BY <1>1, <1>2, <1>3, <1>4, <1>5, <1>6, <1>7, <1>8, <1>9, <1>10, <1>11, <1>12,
           <1>13, <1>14, <1>15, <1>16, <1>17 DEF Next, Deliver

\* The variables keep the shape their declarations give them, whatever the
\* nodes do and however the links fail.
THEOREM TypeCorrect == Spec => []TypeOK
<1> QED BY InitType, NextType, PTL DEF Spec

----------------------------------------------------------------------------
(* A watched agent is claimed *)

\* A book never loses a record by storing one.
LEMMA StoreKeeps ==
  ASSUME NEW n \in Node, NEW book \in Book, NEW rec \in Claim,
         NEW k \in Key, NEW m \in Node, book[k][m] # NoClaim
  PROVE  StoreClaim(n, book, rec)[k][m] # NoClaim
BY NoClaimAssumption DEF StoreClaim, Book, Claim

\* A record of one's own always gets in, unless a fresher one is there.
LEMMA OwnStored ==
  ASSUME NEW n \in Node, NEW book \in Book, NEW rec \in Claim, rec.node = n
  PROVE  StoreClaim(n, book, rec)[rec.key][n] # NoClaim
<1>1. CASE book[rec.key][n] # NoClaim
  BY <1>1, StoreKeeps DEF Claim
<1>2. CASE book[rec.key][n] = NoClaim
  <2>1. ~StoreRefuses(n, book, rec)
    BY <1>2 DEF StoreRefuses
  <2>2. rec.key \in Key
    BY DEF Claim
  <2> QED BY <2>1, <2>2, NoClaimAssumption DEF StoreClaim, Book
<1> QED BY <1>1, <1>2

\* The step leaves a record of n wherever book has one, and leaves alone the
\* books of the others.
NoneLost(n, book) ==
  /\ \A j \in Key, m \in Node : book[j][m] # NoClaim => claims'[n][j][m] # NoClaim
  /\ \A o \in Node \ {n} : claims'[o] = claims[o]

\* After an emission the node's own record for the key is in its book, and
\* no record of its book was lost.
LEMMA EmitKeeps ==
  ASSUME TypeOK, NEW n \in Node, NEW k \in Key, NEW b \in BOOLEAN,
         NEW book \in Book, EmitClaim(n, k, b, book)
  PROVE  claims'[n][k][n] # NoClaim /\ NoneLost(n, book)
<1> DEFINE rec == Minted(n, k, b)
<1>1. rec \in Claim /\ rec.node = n /\ rec.key = k
  BY MintedType DEF Minted
<1>2. claims' = [claims EXCEPT ![n] = StoreClaim(n, book, rec)]
  BY DEF EmitClaim
<1>3. StoreClaim(n, book, rec)[k][n] # NoClaim
  BY <1>1, OwnStored
<1>4. \A j \in Key, m \in Node : book[j][m] # NoClaim => StoreClaim(n, book, rec)[j][m] # NoClaim
  BY <1>1, StoreKeeps
<1>5. claims \in [Node -> Book]
  BY DEF TypeOK, Book
<1> HIDE DEF rec
<1> QED BY <1>2, <1>3, <1>4, <1>5 DEF NoneLost

\* A watcher starts with the claim, and only the step that ends it, or the
\* death of the node, can take the record away.
LEMMA WatchedStep == TypeOK /\ WatchedIsClaimed /\ [Next]_vars => WatchedIsClaimed'
<1> SUFFICES ASSUME TypeOK, WatchedIsClaimed, [Next]_vars,
                    NEW o \in Node, NEW j \in Key, agents'[o][j] # 0
             PROVE  claims'[o][j][o] # NoClaim
  BY DEF WatchedIsClaimed
<1>0. /\ claims \in [Node -> Book] /\ net \in Wire
      /\ agents \in [Node -> [Key -> Nat]]
  BY DEF TypeOK, Book, Wire
<1>a. agents[o][j] # 0 => claims[o][j][o] # NoClaim
  BY DEF WatchedIsClaimed
<1>b. ASSUME NEW n \in Node, NEW k \in Key, Spawn(n, k) PROVE claims'[o][j][o] # NoClaim
  <2>1. EmitClaim(n, k, TRUE, claims[n]) /\ claims[n] \in Book
    BY <1>b, <1>0 DEF Spawn
  <2>2. <<n, k>> # <<o, j>> => agents'[o][j] = agents[o][j]
    BY <1>b, <1>0 DEF Spawn
  <2>3. claims'[n][k][n] # NoClaim /\ NoneLost(n, claims[n])
    BY <2>1, EmitKeeps
  <2> QED BY <2>2, <2>3, <1>a DEF NoneLost
<1>c. ASSUME UNCHANGED <<agents, claims>> PROVE claims'[o][j][o] # NoClaim
  BY <1>a, <1>c
<1>d. ASSUME NEW n \in Node, NEW k \in Key, NEW left, TryFrom(n, k, left)
      PROVE  claims'[o][j][o] # NoClaim
  BY <1>d, <1>b, <1>c DEF TryFrom, NoSpawn
<1>1. ASSUME NEW n \in Node, NEW m \in Node, OnWorkClaim(n, m)
      PROVE  claims'[o][j][o] # NoClaim
  <2> DEFINE rec == Msg(n, m).claim
             book == StoreClaim(n, claims[n], rec)
  <2>1. Msg(n, m) \in Message /\ Msg(n, m).t = "work-claim"
    BY <1>0, <1>1, ReadType DEF OnWorkClaim
  <2>2. rec \in Claim /\ rec.key \in Key
    BY <2>1 DEF Message, Claim
  <2>3. book \in Book /\ claims[n] \in Book
    BY <1>0, <2>2, StoreType
  <2>4. agents' = agents
    BY <1>1 DEF OnWorkClaim
  <2>5. \A k \in Key, p \in Node : claims[n][k][p] # NoClaim => book[k][p] # NoClaim
    BY <2>2, <2>3, StoreKeeps
  <2>6. CASE NoEmit(n, claims[n])
    BY <2>6, <2>4, <1>0, <1>a DEF NoEmit
  <2>7. CASE EmitClaim(n, rec.key, FALSE, book)
    <3>1. NoneLost(n, book)
      BY <2>2, <2>3, <2>7, EmitKeeps
    <3> QED BY <3>1, <2>4, <2>5, <1>a DEF NoneLost
  <2>8. CASE NoEmit(n, book)
    <3>1. claims' = [claims EXCEPT ![n] = book]
      BY <2>8 DEF NoEmit
    <3> HIDE DEF book
    <3> QED BY <3>1, <2>4, <2>5, <1>0, <1>a
  <2> QED BY <2>6, <2>7, <2>8, <1>1 DEF OnWorkClaim
<1>2. ASSUME NEW n \in Node, NEW m \in Node, ReapPeer(n, m)
      PROVE  claims'[o][j][o] # NoClaim
  BY <1>2, <1>0, <1>a DEF ReapPeer, Book
<1>3. ASSUME NEW n \in Node, NEW k \in Key, ClaimVerb(n, k)
      PROVE  claims'[o][j][o] # NoClaim
  <2>1. EmitClaim(n, k, TRUE, claims[n]) /\ claims[n] \in Book /\ agents' = agents
    BY <1>3, <1>0 DEF ClaimVerb
  <2>2. NoneLost(n, claims[n])
    BY <2>1, EmitKeeps
  <2> QED BY <2>1, <2>2, <1>a DEF NoneLost
<1>4. ASSUME NEW n \in Node, NEW k \in Key, ReapReleased(n, k)
      PROVE  claims'[o][j][o] # NoClaim
  BY <1>4, <1>0, <1>a DEF ReapReleased, Book
<1>5. ASSUME NEW n \in Node, NEW k \in Key, WatchEnds(n, k)
      PROVE  claims'[o][j][o] # NoClaim
  <2>1. <<n, k>> # <<o, j>> /\ agents'[o][j] = agents[o][j]
    BY <1>5, <1>0 DEF WatchEnds
  <2>2. CASE claims[n][k][n] # NoClaim
    <3>1. EmitClaim(n, k, FALSE, claims[n]) /\ claims[n] \in Book
      BY <2>2, <1>5, <1>0 DEF WatchEnds
    <3>2. NoneLost(n, claims[n])
      BY <3>1, EmitKeeps
    <3> QED BY <2>1, <3>2, <1>a DEF NoneLost
  <2>3. CASE claims[n][k][n] = NoClaim
    BY <2>1, <2>3, <1>5, <1>a DEF WatchEnds
  <2> QED BY <2>2, <2>3
<1>6. ASSUME NEW n \in Node, Restart(n) PROVE claims'[o][j][o] # NoClaim
  BY <1>6, <1>0, <1>a DEF Restart
<1>7. ASSUME NEW n \in Node, NEW m \in Node,
             \/ OnHello(n, m) \/ OnAuth(n, m) \/ OnJobStatus(n, m) \/ Connect(n, m)
             \/ LinkLost(n, m) \/ Eof(n, m) \/ Hear(n, m)
      PROVE  claims'[o][j][o] # NoClaim
  BY <1>7, <1>c DEF OnHello, OnAuth, OnJobStatus, Connect, LinkLost, Eof, Hear
<1>8. ASSUME NEW n \in Node, NEW m \in Node, OnJob(n, m)
      PROVE  claims'[o][j][o] # NoClaim
  <2>1. Msg(n, m) \in Message /\ Msg(n, m).t = "dispatch"
    BY <1>0, <1>8, ReadType DEF OnJob
  <2>2. Msg(n, m).key \in Key
    BY <2>1 DEF Message
  <2> QED BY <2>2, <1>8, <1>b, <1>c DEF OnJob, NoSpawn
<1>9. ASSUME NEW n \in Node, NEW k \in Key, Dispatch(n, k) \/ \E e \in Node : DispatchTo(n, k, e)
      PROVE  claims'[o][j][o] # NoClaim
  BY <1>9, <1>d DEF Dispatch, DispatchTo
<1>10. ASSUME NEW n \in Node, FailOver(n) PROVE claims'[o][j][o] # NoClaim
  <2>1. route[n].key \in Key
    BY <1>10 DEF FailOver, TypeOK, Route
  <2> QED BY <2>1, <1>10, <1>d DEF FailOver
<1>11. ASSUME (\E n \in Node : AckTimeout(n)) \/ (\E i \in DOMAIN procs : AgentExits(i))
       PROVE  claims'[o][j][o] # NoClaim
  BY <1>11, <1>c DEF AckTimeout, AgentExits
<1>12. CASE UNCHANGED vars
  BY <1>12, <1>c DEF vars
<1> QED BY <1>1, <1>2, <1>3, <1>4, <1>5, <1>6, <1>7, <1>8, <1>9, <1>10, <1>11, <1>12
        DEF Next, Deliver

\* A watched agent has a claim record at its host: its watcher never drops
\* the lease for want of one, whatever the cap refuses and the reaper forgets.
THEOREM WatchedClaimed == Spec => []WatchedIsClaimed
<1>1. Init => WatchedIsClaimed
  BY DEF Init, WatchedIsClaimed
<1> QED BY <1>1, InitType, NextType, WatchedStep, PTL DEF Spec

----------------------------------------------------------------------------
(* Agents *)

\* No agent starts, ends or is let go; claims may be minted.
Calm ==
  /\ UNCHANGED <<epoch, agents, procs, sentinels>>
  /\ \/ UNCHANGED claimSeq
     \/ \E n \in Node, k \in Key : claimSeq' = [claimSeq EXCEPT ![n][k] = @ + 1]

\* An agent starts, past the two guards.
Born(n, k) ==
  /\ \E scan \in Scans : ~Handled(n, k, scan)
  /\ Spawn(n, k)
  /\ UNCHANGED <<epoch, sentinels>>

\* What a step may do to the agents of the hosts.
LEMMA AgentSteps ==
  ASSUME TypeOK, [Next]_vars
  PROVE  \/ Calm
         \/ \E n \in Node, k \in Key : Born(n, k)
         \/ \E n \in Node, k \in Key : WatchEnds(n, k)
         \/ \E n \in Node : Restart(n)
         \/ \E i \in DOMAIN procs : AgentExits(i)
<1> DEFINE Some == \E n \in Node, k \in Key : Born(n, k)
<1>1. ASSUME UNCHANGED <<epoch, agents, procs, sentinels, claimSeq>> PROVE Calm
  BY <1>1 DEF Calm
<1>2. ASSUME NEW n \in Node, NEW k \in Key, NEW b, NEW book, EmitClaim(n, k, b, book),
             UNCHANGED <<epoch, agents, procs, sentinels>>
      PROVE  Calm
  <2>1. claimSeq' = [claimSeq EXCEPT ![n][k] = claimSeq[n][k] + 1]
    BY <1>2 DEF EmitClaim, Minted
  <2> QED BY <2>1, <1>2 DEF Calm
<1>3. ASSUME NEW n \in Node, NEW k \in Key, NEW left, TryFrom(n, k, left),
             UNCHANGED <<epoch, sentinels>>
      PROVE  Calm \/ Some
  BY <1>3, <1>1 DEF TryFrom, NoSpawn, Born
<1>4. ASSUME NEW n \in Node, NEW m \in Node, OnWorkClaim(n, m) PROVE Calm
  <2>1. Msg(n, m) \in Message /\ Msg(n, m).t = "work-claim"
    BY <1>4, ReadType DEF OnWorkClaim, TypeOK, Wire
  <2>2. Msg(n, m).claim.key \in Key
    BY <2>1 DEF Message, Claim
  <2> QED BY <2>2, <1>1, <1>2, <1>4 DEF OnWorkClaim, NoEmit
<1>5. ASSUME NEW n \in Node, NEW k \in Key, ClaimVerb(n, k) PROVE Calm
  BY <1>5, <1>2 DEF ClaimVerb
<1>6. ASSUME NEW n \in Node, NEW m \in Node, OnJob(n, m) PROVE Calm \/ Some
  <2>1. Msg(n, m) \in Message /\ Msg(n, m).t = "dispatch"
    BY <1>6, ReadType DEF OnJob, TypeOK, Wire
  <2>2. Msg(n, m).key \in Key
    BY <2>1 DEF Message
  <2> QED BY <2>2, <1>6, <1>1 DEF OnJob, NoSpawn, Born
<1>7. ASSUME NEW n \in Node, NEW m \in Node,
             \/ OnHello(n, m) \/ OnAuth(n, m) \/ OnJobStatus(n, m) \/ Connect(n, m)
             \/ LinkLost(n, m) \/ Eof(n, m) \/ Hear(n, m) \/ ReapPeer(n, m)
      PROVE  Calm
  BY <1>7, <1>1 DEF OnHello, OnAuth, OnJobStatus, Connect, LinkLost, Eof, Hear, ReapPeer
<1>8. ASSUME NEW n \in Node, NEW k \in Key, ReapReleased(n, k) PROVE Calm
  BY <1>8, <1>1 DEF ReapReleased
<1>9. ASSUME NEW n \in Node, NEW k \in Key, Dispatch(n, k) \/ \E e \in Node : DispatchTo(n, k, e)
      PROVE  Calm \/ Some
  BY <1>9, <1>3 DEF Dispatch, DispatchTo
<1>10. ASSUME NEW n \in Node, FailOver(n) PROVE Calm \/ Some
  <2>1. route[n].key \in Key
    BY <1>10 DEF FailOver, TypeOK, Route
  <2> QED BY <2>1, <1>10, <1>3 DEF FailOver
<1>11. ASSUME NEW n \in Node, AckTimeout(n) PROVE Calm
  BY <1>11, <1>1 DEF AckTimeout
<1>12. CASE UNCHANGED vars
  BY <1>12, <1>1 DEF vars
<1>13. ASSUME NEW n \in Node, NEW m \in Node,
              \/ Deliver(n, m) \/ Connect(n, m) \/ LinkLost(n, m) \/ Eof(n, m)
              \/ Hear(n, m) \/ ReapPeer(n, m)
       PROVE  Calm \/ Some
  BY <1>13, <1>4, <1>6, <1>7 DEF Deliver
<1>14. ASSUME NEW n \in Node, NEW k \in Key,
              \/ ClaimVerb(n, k) \/ ReapReleased(n, k) \/ Dispatch(n, k)
              \/ \E e \in Node : DispatchTo(n, k, e)
       PROVE  Calm \/ Some
  BY <1>14, <1>5, <1>8, <1>9
<1> QED BY <1>10, <1>11, <1>12, <1>13, <1>14 DEF Next

\* A new agent finds no other one for its key, if the scan sees those there
\* are.
LEMMA OneAgentStep ==
  ASSUME TypeOK, OneAgentPerHost, [Next]_vars, Scans = {TRUE}
  PROVE  OneAgentPerHost'
<1> SUFFICES ASSUME NEW n \in Node, NEW k \in Key,
                    NEW i \in OnHost(n, k)', NEW j \in OnHost(n, k)'
             PROVE  i = j
  BY DEF OneAgentPerHost
<1>0. procs \in Seq(AgentProc)
  BY DEF TypeOK
<1>a. \A a, b \in OnHost(n, k) : a = b
  BY DEF OneAgentPerHost
<1>1. ASSUME OnHost(n, k)' \subseteq OnHost(n, k) PROVE i = j
  BY <1>1, <1>a
<1>2. CASE procs' = procs
  BY <1>2, <1>1 DEF OnHost
<1>3. CASE \E a \in DOMAIN procs : AgentExits(a)
  BY <1>3, <1>1, <1>0 DEF AgentExits, OnHost
<1>4. ASSUME NEW o \in Node, NEW l \in Key, Born(o, l) PROVE i = j
  <2> DEFINE p == [host |-> o, key |-> l, done |-> DonePath(o, l), live |-> TRUE]
  <2>1. procs' = Append(procs, p) /\ OnHost(o, l) = {}
    BY <1>4 DEF Born, Handled, Spawn
  <2>2. /\ DOMAIN procs' = DOMAIN procs \cup {Len(procs) + 1}
        /\ procs'[Len(procs) + 1] = p
        /\ \A a \in DOMAIN procs : procs'[a] = procs[a]
    BY <2>1, <1>0
  <2>3. p.host = o /\ p.key = l
    OBVIOUS
  <2> HIDE DEF p
  <2>4. OnHost(n, k)' \subseteq OnHost(n, k) \cup {Len(procs) + 1}
    BY <2>2 DEF OnHost
  <2>5. Len(procs) + 1 \in OnHost(n, k)' => OnHost(n, k) = {}
    BY <2>1, <2>2, <2>3 DEF OnHost
  <2> QED BY <2>4, <2>5, <1>a
<1> QED BY <1>2, <1>3, <1>4, AgentSteps DEF Calm, WatchEnds, Restart

\* Whatever was yielded, restarted or dispatched again, a host never runs two
\* agents for one key while its process scan works: the agent a restarted
\* node has forgotten still counts.
THEOREM OneAgent == Spec => [](Scans = {TRUE} => OneAgentPerHost)
<1>1. Init => (Scans = {TRUE} => OneAgentPerHost)
  BY DEF Init, OneAgentPerHost, OnHost
<1>2. TypeOK /\ (Scans = {TRUE} => OneAgentPerHost) /\ [Next]_vars
        => (Scans = {TRUE} => OneAgentPerHost)'
  BY OneAgentStep
<1> QED BY <1>1, <1>2, InitType, NextType, PTL DEF Spec

----------------------------------------------------------------------------
(* The sentinel of an agent is its own *)

\* A watcher watches an agent of its own key, spawned by this incarnation.
WatchesOwn ==
  \A n \in Node, k \in Key :
    LET i == agents[n][k]
    IN i # 0 => /\ i \in DOMAIN procs
                /\ procs[i].host = n /\ procs[i].key = k

\* Only an agent which is over has left a sentinel.
LeftByTheDead ==
  \A s \in sentinels : \E i \in DOMAIN procs : ~procs[i].live /\ s = SentinelOf(i)

\* No two agents of a host share the name of a sentinel.
NamesDiffer ==
  \A i, j \in DOMAIN procs : SentinelOf(i) = SentinelOf(j) => i = j

\* No agent's name is of a later incarnation, or later than the last claim;
\* one as late as the last claim is under watch.
Bounded(i) ==
  LET n == procs[i].host
      k == procs[i].key
      name == procs[i].done
  IN /\ name[1] <= epoch[n]
     /\ name[1] = epoch[n] => /\ name[2] <= claimSeq[n][k]
                              /\ name[2] = claimSeq[n][k] => agents[n][k] = i

NamesBounded == \A i \in DOMAIN procs : Bounded(i)

Names == WatchesOwn /\ LeftByTheDead /\ NamesDiffer /\ NamesBounded

\* A name minted past a claim, or in a new incarnation, is fresh: the names
\* differ for good.
LEMMA NamesStep ==
  ASSUME TypeOK, WatchedIsClaimed, Names, [Next]_vars
  PROVE  Names'
<1> USE DEF SentinelOf
<1>0. /\ procs \in Seq(AgentProc) /\ epoch \in [Node -> Nat]
      /\ claimSeq \in [Node -> [Key -> Nat \cup {-1}]]
      /\ agents \in [Node -> [Key -> Nat]]
      /\ \A i \in DOMAIN procs : /\ procs[i].host \in Node /\ procs[i].key \in Key
                                 /\ procs[i].done[1] \in Nat /\ procs[i].done[2] \in Nat
  <2>1. procs \in Seq(AgentProc)
    BY DEF TypeOK
  <2>2. \A i \in DOMAIN procs : procs[i] \in AgentProc
    BY <2>1
  <2> QED BY <2>1, <2>2 DEF TypeOK, AgentProc, Seqno
<1>1. CASE Calm
  <2>1. WatchesOwn' /\ LeftByTheDead' /\ NamesDiffer'
    BY <1>1 DEF Calm, Names, WatchesOwn, LeftByTheDead, NamesDiffer
  <2>2. \A n \in Node, k \in Key : claimSeq'[n][k] \in {claimSeq[n][k], claimSeq[n][k] + 1}
    <3>1. CASE UNCHANGED claimSeq
      BY <3>1, <1>0
    <3>2. CASE \E n \in Node, k \in Key : claimSeq' = [claimSeq EXCEPT ![n][k] = @ + 1]
      BY <3>2, <1>0
    <3> QED BY <3>1, <3>2, <1>1 DEF Calm
  <2>3. NamesBounded'
    <3> SUFFICES ASSUME NEW i \in DOMAIN procs PROVE Bounded(i)'
      BY <1>1 DEF Calm, NamesBounded
    <3>1. Bounded(i)
      BY DEF Names, NamesBounded
    <3>2. claimSeq'[procs[i].host][procs[i].key] \in
            {claimSeq[procs[i].host][procs[i].key], claimSeq[procs[i].host][procs[i].key] + 1}
      BY <2>2, <1>0
    <3>3. /\ procs[i].done[2] \in Nat
          /\ claimSeq[procs[i].host][procs[i].key] \in Nat \cup {-1}
      BY <1>0
    <3>4. UNCHANGED <<procs, epoch, agents>>
      BY <1>1 DEF Calm
    <3> QED BY <3>1, <3>2, <3>3, <3>4 DEF Bounded
  <2> QED BY <2>1, <2>3 DEF Names
<1>2. ASSUME NEW n \in Node, NEW k \in Key, Born(n, k) PROVE Names'
  <2> DEFINE p == [host |-> n, key |-> k, done |-> DonePath(n, k), live |-> TRUE]
  <2>0. PICK new \in Nat : new = Len(procs) + 1
    BY <1>0
  <2>1. /\ agents[n][k] = 0 /\ procs' = Append(procs, p)
        /\ agents' = [agents EXCEPT ![n][k] = new]
        /\ UNCHANGED <<epoch, sentinels>>
    BY <2>0, <1>2 DEF Born, Handled, Spawn
  <2>2. claimSeq' = [claimSeq EXCEPT ![n][k] = claimSeq[n][k] + 1]
    BY <1>2 DEF Born, Spawn, EmitClaim, Minted
  <2>3. /\ p.host = n /\ p.key = k /\ p.live
        /\ p.done[1] = epoch[n]
        /\ p.done[2] = IF claimSeq[n][k] = -1 THEN 0 ELSE claimSeq[n][k]
    BY DEF DonePath
  <2>4. /\ DOMAIN procs' = DOMAIN procs \cup {new}
        /\ procs'[new] = p /\ new \notin DOMAIN procs /\ new \in Nat \ {0}
        /\ \A i \in DOMAIN procs : procs'[i] = procs[i]
        /\ 0 \notin DOMAIN procs
    BY <2>0, <2>1, <1>0
  <2> HIDE DEF p
  <2>5. ASSUME NEW i \in DOMAIN procs, procs[i].host = n, procs[i].key = k,
               procs[i].done[1] = epoch[n]
        PROVE  procs[i].done[2] < claimSeq[n][k]
    <3>1. Bounded(i) /\ i # 0
      BY <2>4 DEF Names, NamesBounded
    <3>2. procs[i].done[2] <= claimSeq[n][k] /\ procs[i].done[2] # claimSeq[n][k]
      BY <3>1, <2>5, <2>1, <1>0 DEF Bounded
    <3>3. procs[i].done[2] \in Nat /\ claimSeq[n][k] \in Nat \cup {-1}
      BY <1>0
    <3> QED BY <3>2, <3>3
  <2>6. WatchesOwn'
    BY <2>1, <2>3, <2>4, <1>0 DEF Names, WatchesOwn
  <2>7. LeftByTheDead'
    BY <2>1, <2>4 DEF Names, LeftByTheDead
  <2>8. ASSUME NEW i \in DOMAIN procs PROVE SentinelOf(i)' # SentinelOf(new)'
    <3>1. SentinelOf(i)' = <<procs[i].host, procs[i].key, procs[i].done>>
      BY <2>4
    <3>2. SentinelOf(new)' = <<p.host, p.key, p.done>>
      BY <2>4 DEF SentinelOf
    <3>3. SentinelOf(i)' = SentinelOf(new)' =>
            procs[i].host = n /\ procs[i].key = k /\ procs[i].done = p.done
      BY <3>1, <3>2, <2>3
    <3> QED BY <3>3, <2>3, <2>5, <1>0
  <2>9. NamesDiffer'
    <3> SUFFICES ASSUME NEW i \in DOMAIN procs', NEW j \in DOMAIN procs',
                        SentinelOf(i)' = SentinelOf(j)'
                 PROVE  i = j
      BY DEF NamesDiffer
    <3>1. CASE i \in DOMAIN procs /\ j \in DOMAIN procs
      BY <3>1, <2>4 DEF Names, NamesDiffer
    <3>2. CASE i = new \/ j = new
      BY <3>2, <2>4, <2>8
    <3> QED BY <3>1, <3>2, <2>4
  <2>10. NamesBounded'
    <3> SUFFICES ASSUME NEW i \in DOMAIN procs' PROVE Bounded(i)'
      BY DEF NamesBounded
    <3>1. CASE i = new
      BY <3>1, <2>1, <2>2, <2>3, <2>4, <1>0 DEF Bounded
    <3>2. CASE i \in DOMAIN procs
      <4>1. Bounded(i) /\ procs'[i] = procs[i]
        BY <3>2, <2>4 DEF Names, NamesBounded
      <4>2. CASE procs[i].host = n /\ procs[i].key = k
        <5>1. claimSeq'[n][k] = claimSeq[n][k] + 1 /\ claimSeq[n][k] \in Nat \cup {-1}
          BY <2>2, <1>0
        <5> QED BY <4>1, <4>2, <5>1, <3>2, <2>1, <2>5, <1>0 DEF Bounded
      <4>3. CASE ~(procs[i].host = n /\ procs[i].key = k)
        <5>1. /\ claimSeq'[procs[i].host][procs[i].key] = claimSeq[procs[i].host][procs[i].key]
              /\ agents'[procs[i].host][procs[i].key] = agents[procs[i].host][procs[i].key]
          BY <3>2, <4>3, <2>1, <2>2, <1>0
        <5> QED BY <4>1, <5>1, <2>1 DEF Bounded
      <4> QED BY <4>2, <4>3
    <3> QED BY <3>1, <3>2, <2>4
  <2> QED BY <2>6, <2>7, <2>9, <2>10 DEF Names
<1>3. ASSUME NEW n \in Node, NEW k \in Key, WatchEnds(n, k) PROVE Names'
  <2>1. /\ agents[n][k] # 0 /\ agents' = [agents EXCEPT ![n][k] = 0]
        /\ UNCHANGED <<epoch, procs>> /\ sentinels' \subseteq sentinels
    BY <1>3 DEF WatchEnds
  <2>2. claimSeq' = [claimSeq EXCEPT ![n][k] = claimSeq[n][k] + 1]
    <3>1. claims[n][k][n] # NoClaim
      BY <2>1 DEF WatchedIsClaimed
    <3> QED BY <3>1, <1>3 DEF WatchEnds, EmitClaim, Minted
  <2>3. WatchesOwn' /\ LeftByTheDead' /\ NamesDiffer'
    BY <2>1, <1>0 DEF Names, WatchesOwn, LeftByTheDead, NamesDiffer
  <2>4. NamesBounded'
    <3> SUFFICES ASSUME NEW i \in DOMAIN procs PROVE Bounded(i)'
      BY <2>1 DEF NamesBounded
    <3>1. Bounded(i)
      BY DEF Names, NamesBounded
    <3>2. CASE procs[i].host = n /\ procs[i].key = k
      <4>1. claimSeq'[n][k] = claimSeq[n][k] + 1 /\ claimSeq[n][k] \in Nat \cup {-1}
        BY <2>2, <1>0
      <4> QED BY SMTT(20), <3>1, <3>2, <4>1, <2>1, <1>0 DEF Bounded
    <3>3. CASE ~(procs[i].host = n /\ procs[i].key = k)
      <4>1. /\ claimSeq'[procs[i].host][procs[i].key] = claimSeq[procs[i].host][procs[i].key]
            /\ agents'[procs[i].host][procs[i].key] = agents[procs[i].host][procs[i].key]
        BY <3>3, <2>1, <2>2, <1>0
      <4> QED BY <3>1, <4>1, <2>1 DEF Bounded
    <3> QED BY <3>2, <3>3
  <2> QED BY <2>3, <2>4 DEF Names
<1>4. ASSUME NEW n \in Node, Restart(n) PROVE Names'
  <2>1. /\ epoch' = [epoch EXCEPT ![n] = epoch[n] + 1]
        /\ claimSeq' = [claimSeq EXCEPT ![n] = [k \in Key |-> -1]]
        /\ agents' = [agents EXCEPT ![n] = [k \in Key |-> 0]]
        /\ procs' = procs /\ sentinels' \subseteq sentinels
    BY <1>4 DEF Restart
  <2>2. WatchesOwn' /\ LeftByTheDead' /\ NamesDiffer'
    BY <2>1, <1>0 DEF Names, WatchesOwn, LeftByTheDead, NamesDiffer
  <2>3. NamesBounded'
    <3> SUFFICES ASSUME NEW i \in DOMAIN procs PROVE Bounded(i)'
      BY <2>1 DEF NamesBounded
    <3>1. Bounded(i)
      BY DEF Names, NamesBounded
    <3>2. CASE procs[i].host = n
      <4>1. epoch'[n] = epoch[n] + 1
        BY <2>1, <1>0
      <4> QED BY <3>1, <3>2, <4>1, <2>1, <1>0 DEF Bounded
    <3>3. CASE procs[i].host # n
      <4>1. /\ claimSeq'[procs[i].host] = claimSeq[procs[i].host]
            /\ agents'[procs[i].host] = agents[procs[i].host]
            /\ epoch'[procs[i].host] = epoch[procs[i].host]
        BY <3>3, <2>1, <1>0
      <4> QED BY <3>1, <4>1, <2>1 DEF Bounded
    <3> QED BY <3>2, <3>3
  <2> QED BY <2>2, <2>3 DEF Names
<1>5. ASSUME NEW d \in DOMAIN procs, AgentExits(d) PROVE Names'
  <2>1. /\ procs' = [procs EXCEPT ![d] = [procs[d] EXCEPT !.live = FALSE]]
        /\ sentinels' \subseteq sentinels \cup {SentinelOf(d)}
        /\ UNCHANGED <<epoch, claimSeq, agents>>
    BY <1>5 DEF AgentExits
  <2>2. /\ DOMAIN procs' = DOMAIN procs
        /\ \A i \in DOMAIN procs : /\ procs'[i].host = procs[i].host
                                   /\ procs'[i].key = procs[i].key
                                   /\ procs'[i].done = procs[i].done
                                   /\ ~procs[i].live => ~procs'[i].live
        /\ ~procs'[d].live
    <3>1. \A i \in DOMAIN procs : procs[i] \in AgentProc
      BY <1>0
    <3>2. [procs[d] EXCEPT !.live = FALSE].live = FALSE
      BY <3>1, <1>5 DEF AgentProc
    <3> QED BY <2>1, <3>1, <3>2, <1>0 DEF AgentProc
  <2>3. ASSUME NEW i \in DOMAIN procs PROVE SentinelOf(i)' = SentinelOf(i)
    BY <2>2
  <2>4. WatchesOwn' /\ NamesBounded'
    BY <2>1, <2>2 DEF Names, WatchesOwn, NamesBounded, Bounded
  <2>5. LeftByTheDead' /\ NamesDiffer'
    BY <2>1, <2>2, <2>3 DEF Names, LeftByTheDead, NamesDiffer
  <2> QED BY <2>4, <2>5 DEF Names
<1> QED BY <1>1, <1>2, <1>3, <1>4, <1>5, AgentSteps

\* A watcher that finds the sentinel of its agent finds one which that agent
\* wrote: neither an earlier run of the same key nor one of an earlier
\* incarnation of the node can end the watch.
THEOREM OwnSentinel == Spec => []SentinelIsOwn
<1>1. Init => Names
  BY DEF Init, Names, WatchesOwn, LeftByTheDead, NamesDiffer, NamesBounded, Bounded
<1>2. Names => SentinelIsOwn
  BY DEF Names, WatchesOwn, LeftByTheDead, NamesDiffer, SentinelIsOwn
<1> QED BY <1>1, <1>2, InitType, NextType, WatchedClaimed, NamesStep, PTL DEF Spec

----------------------------------------------------------------------------
(* The copies of a claim *)

Carries(q, r) ==
  \E a, b \in Node : \E i \in DOMAIN q[a][b] :
    q[a][b][i].t = "work-claim" /\ q[a][b][i].claim = r

Keeps(c, r) == r # NoClaim /\ \E n \in Node, k \in Key, m \in Node : c[n][k][m] = r

\* r is in a book or on a wire.
Copy(r) == Keeps(claims, r) \/ Carries(net, r)

LEMMA WireIsWire ==
  ASSUME NEW r PROVE r \in OnWire <=> Carries(net, r)
<1> DEFINE Sent(a, b) == {net[a][b][i].claim : i \in {j \in DOMAIN net[a][b] : net[a][b][j].t = "work-claim"}}
<1>1. r \in OnWire <=> \E a, b \in Node : r \in Sent(a, b)
  <2>1. OnWire = UNION {Sent(a, b) : a \in Node, b \in Node}
    BY DEF OnWire
  <2> HIDE DEF Sent
  <2> QED BY <2>1
<1>2. ASSUME NEW a \in Node, NEW b \in Node
      PROVE  r \in Sent(a, b) <=> \E i \in DOMAIN net[a][b] : net[a][b][i].t = "work-claim" /\ net[a][b][i].claim = r
  OBVIOUS
<1> HIDE DEF Sent
<1> QED BY <1>1, <1>2 DEF Carries

LEMMA CopyIsCopy ==
  ASSUME NEW r PROVE r \in InBooks \cup OnWire <=> Copy(r)
<1>1. r \in InBooks <=> Keeps(claims, r)
  BY DEF InBooks, Keeps
<1> QED BY <1>1, WireIsWire DEF Copy

\* Every message of the wire w is one of q, or is x.
MadeOf(w, q, x) ==
  \A a, b \in Node : \A i \in DOMAIN w[a][b] :
    w[a][b][i] = x \/ \E j \in DOMAIN q[a][b] : w[a][b][i] = q[a][b][j]

\* Such a wire carries no claim of its own.
LEMMA CarriesLess ==
  ASSUME NEW q, NEW w, NEW x, NEW r, Carries(w, r), MadeOf(w, q, x)
  PROVE  Carries(q, r) \/ (x.t = "work-claim" /\ x.claim = r)
BY DEF Carries, MadeOf

LEMMA CarriesBroadcast ==
  ASSUME NEW q \in Wire, NEW n \in Node, NEW x \in Message, NEW r,
         Carries(Broadcast(q, n, <<x>>), r)
  PROVE  Carries(q, r) \/ (x.t = "work-claim" /\ x.claim = r)
<1> DEFINE w == Broadcast(q, n, <<x>>)
<1>1. <<x>> \in Seq(Message) /\ w \in Wire
  BY BroadcastType
<1>2. ASSUME NEW a \in Node, NEW b \in Node, NEW i \in DOMAIN w[a][b]
      PROVE  w[a][b][i] = x \/ \E j \in DOMAIN q[a][b] : w[a][b][i] = q[a][b][j]
  <2>1. q[a][b] \in Seq(Message)
    BY DEF Wire
  <2>2. CASE w[a][b] = q[a][b]
    BY <2>2
  <2>3. CASE w[a][b] = q[a][b] \o <<x>>
    <3>1. q[a][b] \o <<x>> = Append(q[a][b], x)
      BY <2>1
    <3> HIDE DEF w
    <3> QED BY <2>1, <2>3, <3>1
  <2>4. w[a][b] = q[a][b] \/ w[a][b] = q[a][b] \o <<x>>
    BY DEF Broadcast, Wire
  <2> QED BY <2>2, <2>3, <2>4
<1>3. Carries(w, r)
  OBVIOUS
<1> HIDE DEF w
<1>4. MadeOf(w, q, x)
  BY <1>2 DEF MadeOf
<1> QED BY <1>3, <1>4, CarriesLess

LEMMA CarriesAppend ==
  ASSUME NEW q \in Wire, NEW n \in Node, NEW m \in Node, NEW x \in Message, NEW r,
         NEW w \in Wire, Carries(w, r), w \in {q, [q EXCEPT ![n][m] = Append(q[n][m], x)]}
  PROVE  Carries(q, r) \/ (x.t = "work-claim" /\ x.claim = r)
<1>1. ASSUME NEW a \in Node, NEW b \in Node, NEW i \in DOMAIN w[a][b]
      PROVE  w[a][b][i] = x \/ \E j \in DOMAIN q[a][b] : w[a][b][i] = q[a][b][j]
  <2>1. q[a][b] \in Seq(Message)
    BY DEF Wire
  <2>2. CASE w[a][b] = q[a][b]
    BY <2>2
  <2>3. CASE w[a][b] = Append(q[a][b], x)
    BY <2>1, <2>3
  <2>4. w[a][b] = q[a][b] \/ w[a][b] = Append(q[a][b], x)
    <3>1. CASE w = q
      BY <3>1
    <3>2. CASE w = [q EXCEPT ![n][m] = Append(q[n][m], x)]
      BY <3>2 DEF Wire
    <3> QED BY <3>1, <3>2
  <2> QED BY <2>2, <2>3, <2>4
<1>2. MadeOf(w, q, x)
  BY <1>1 DEF MadeOf
<1> QED BY <1>2, CarriesLess

LEMMA CarriesReply ==
  ASSUME NEW q \in Wire, NEW n \in Node, NEW m \in Node, NEW x \in Message, NEW r,
         x.t # "work-claim", Carries(Reply(q, n, m, x), r)
  PROVE  Carries(q, r)
<1>1. Reply(q, n, m, x) \in Wire
  BY ReplyType
<1>2. Reply(q, n, m, x) \in {q, [q EXCEPT ![n][m] = Append(q[n][m], x)]}
  BY DEF Reply, Wire
<1> QED BY <1>1, <1>2, CarriesAppend

LEMMA CarriesRest ==
  ASSUME net \in Wire, NEW n \in Node, NEW m \in Node, NEW t, Reads(n, m, t),
         NEW r, Carries(Rest(n, m), r)
  PROVE  Carries(net, r)
<1> DEFINE w == Rest(n, m)
<1>1. w \in Wire
  BY ReadType
<1>2. ASSUME NEW a \in Node, NEW b \in Node, NEW i \in DOMAIN w[a][b]
      PROVE  \E j \in DOMAIN net[a][b] : w[a][b][i] = net[a][b][j]
  <2>1. net[a][b] \in Seq(Message)
    BY DEF Wire
  <2>2. CASE w[a][b] = net[a][b]
    BY <2>2
  <2>3. CASE w[a][b] = Tail(net[a][b]) /\ net[a][b] # <<>>
    <3>1. i + 1 \in DOMAIN net[a][b] /\ w[a][b][i] = net[a][b][i + 1]
      BY <2>1, <2>3
    <3> QED BY <3>1
  <2>4. w[a][b] = net[a][b] \/ (w[a][b] = Tail(net[a][b]) /\ net[a][b] # <<>>)
    BY DEF Rest, Wire, Reads
  <2> QED BY <2>2, <2>3, <2>4
<1> HIDE DEF w
<1> QED BY <1>1, <1>2 DEF Carries, w

\* The claim read from a wire was on it.
LEMMA CarriesRead ==
  ASSUME net \in Wire, NEW n \in Node, NEW m \in Node, Reads(n, m, "work-claim")
  PROVE  Carries(net, Msg(n, m).claim)
<1>1. net[m][n] \in Seq(Message) /\ net[m][n] # <<>>
  BY DEF Wire, Reads
<1>2. 1 \in DOMAIN net[m][n] /\ Msg(n, m) = net[m][n][1]
  BY <1>1 DEF Msg
<1> QED BY <1>2 DEF Carries, Msg, Reads

LEMMA CarriesAnnounce ==
  ASSUME TypeOK, NEW q \in Wire, NEW n \in Node, NEW k \in Key, NEW b \in BOOLEAN, NEW r,
         Carries(Announce(q, n, k, b), r)
  PROVE  Carries(q, r) \/ r = Minted(n, k, b)
<1> DEFINE x == WorkClaim(Minted(n, k, b))
<1>1. x \in Message /\ x.claim = Minted(n, k, b)
  BY MintedType, MessageTypes DEF WorkClaim
<1>2. Carries(Broadcast(q, n, <<x>>), r)
  BY DEF Announce
<1> HIDE DEF x
<1> QED BY <1>1, <1>2, CarriesBroadcast

InBook(book, r) == r # NoClaim /\ \E k \in Key, m \in Node : book[k][m] = r
Stored(n, book, rec) == [claims EXCEPT ![n] = StoreClaim(n, book, rec)]

\* A book that stores a record keeps no other new one.
LEMMA KeepsStored ==
  ASSUME claims \in [Node -> Book], NEW n \in Node, NEW book \in Book, NEW rec \in Claim,
         NEW r, Keeps(Stored(n, book, rec), r)
  PROVE  Keeps(claims, r) \/ r = rec \/ InBook(book, r)
<1> DEFINE c == Stored(n, book, rec)
<1>1. PICK o \in Node, k \in Key, m \in Node : c[o][k][m] = r /\ r # NoClaim
  BY DEF Keeps
<1>2. CASE o # n
  BY <1>1, <1>2 DEF Keeps, Stored
<1>3. CASE o = n
  <2>1. r = StoreClaim(n, book, rec)[k][m]
    BY <1>1, <1>3 DEF Stored
  <2> QED BY <2>1, <1>1 DEF StoreClaim, Book, Claim, InBook
<1> QED BY <1>2, <1>3

NoNewCopy == \A r : Copy(r)' => Copy(r)

Quiet == UNCHANGED <<epoch, claimSeq>> /\ NoNewCopy

Mints(n, k, b) ==
  /\ epoch' = epoch
  /\ claimSeq' = [claimSeq EXCEPT ![n][k] = claimSeq[n][k] + 1]
  /\ \A r : Copy(r)' => Copy(r) \/ r = Minted(n, k, b)

\* n has started an agent for k, or takes claims for k from a caller.
Started(n, k) == n \in Callers \/ \E i \in DOMAIN procs : procs[i].host = n /\ procs[i].key = k

\* A claim is minted for an agent, or for a caller of the verb.
Founds(n, k, b) == Mints(n, k, b) /\ (b => Started(n, k)')

LEMMA SpawnStarts ==
  ASSUME TypeOK, NEW n \in Node, NEW k \in Key, Spawn(n, k) PROVE Started(n, k)'
<1> DEFINE p == [host |-> n, key |-> k, done |-> DonePath(n, k), live |-> TRUE]
<1>1. procs' = Append(procs, p) /\ procs \in Seq(AgentProc) /\ p.host = n /\ p.key = k
  BY DEF Spawn, TypeOK
<1> HIDE DEF p
<1>2. Len(procs) + 1 \in DOMAIN procs' /\ procs'[Len(procs) + 1] = p
  BY <1>1
<1> QED BY <1>1, <1>2 DEF Started

\* Who has started an agent has.
LEMMA StartsStay ==
  ASSUME TypeOK, [Next]_vars, NEW n, NEW k, Started(n, k) PROVE Started(n, k)'
<1>0. procs \in Seq(AgentProc)
  BY DEF TypeOK
<1>1. CASE UNCHANGED procs
  BY <1>1 DEF Started
<1>2. CASE \E i \in DOMAIN procs : AgentExits(i)
  <2>1. PICK j \in DOMAIN procs : procs' = [procs EXCEPT ![j].live = FALSE]
    BY <1>2 DEF AgentExits
  <2>2. DOMAIN procs' = DOMAIN procs
    BY <2>1
  <2>3. ASSUME NEW i \in DOMAIN procs PROVE procs'[i].host = procs[i].host /\ procs'[i].key = procs[i].key
    <3>1. procs[i] \in AgentProc
      BY <1>0
    <3> QED BY <2>1, <3>1 DEF AgentProc
  <2> QED BY <2>2, <2>3 DEF Started
<1>3. ASSUME NEW o \in Node, NEW l \in Key, Spawn(o, l) PROVE Started(n, k)'
  <2>1. PICK p : procs' = Append(procs, p)
    BY <1>3 DEF Spawn
  <2>2. \A i \in DOMAIN procs : i \in DOMAIN procs' /\ procs'[i] = procs[i]
    BY <1>0, <2>1
  <2> QED BY <2>2 DEF Started
<1> QED BY <1>1, <1>2, <1>3, AgentSteps DEF Calm, Born, WatchEnds, Restart

\* What a handler has at hand, a wire or a book, holds known copies only.
WireKnown(q) == \A r : Carries(q, r) => Copy(r)
BookKnown(book) == \A r : InBook(book, r) => Copy(r)
WireWithin(w, q) == \A r : Carries(w, r) => Carries(q, r)

LEMMA NetKnown == WireKnown(net)
BY DEF WireKnown, Copy

LEMMA ReadKnown ==
  ASSUME net \in Wire, NEW n \in Node, NEW m \in Node, NEW t, Reads(n, m, t)
  PROVE  WireKnown(Rest(n, m))
BY CarriesRest DEF WireKnown, Copy

LEMMA RelayKnown ==
  ASSUME NEW q \in Wire, NEW n \in Node, NEW rec \in Claim, WireKnown(q), Copy(rec)
  PROVE  WireKnown(Broadcast(q, n, <<WorkClaim(rec)>>))
<1> SUFFICES ASSUME NEW r, Carries(Broadcast(q, n, <<WorkClaim(rec)>>), r) PROVE Copy(r)
  BY DEF WireKnown
<1>1. WorkClaim(rec) \in Message /\ WorkClaim(rec).claim = rec
  BY MessageTypes DEF WorkClaim
<1>2. Carries(q, r) \/ r = rec
  BY <1>1, CarriesBroadcast
<1> QED BY <1>2 DEF WireKnown

LEMMA ReplyWithin ==
  ASSUME NEW q \in Wire, NEW n \in Node, NEW m \in Node, NEW x \in Message, x.t # "work-claim"
  PROVE  WireWithin(Reply(q, n, m, x), q)
BY CarriesReply DEF WireWithin

LEMMA OwnBookKnown ==
  ASSUME NEW n \in Node PROVE BookKnown(claims[n])
BY DEF BookKnown, InBook, Copy, Keeps

LEMMA StoredKnown ==
  ASSUME NEW n \in Node, NEW book \in Book, NEW rec \in Claim, BookKnown(book), Copy(rec)
  PROVE  BookKnown(StoreClaim(n, book, rec))
<1> SUFFICES ASSUME NEW r, InBook(StoreClaim(n, book, rec), r) PROVE Copy(r)
  BY DEF BookKnown
<1>1. InBook(book, r) \/ r = rec
  BY DEF InBook, StoreClaim, Book, Claim
<1> QED BY <1>1 DEF BookKnown

\* An emission over a known book, announced on a known wire, makes one new
\* record.
LEMMA EmitMints ==
  ASSUME TypeOK, NEW n \in Node, NEW k \in Key, NEW b \in BOOLEAN,
         NEW book \in Book, NEW q \in Wire,
         EmitClaim(n, k, b, book), epoch' = epoch,
         WireKnown(q), BookKnown(book), WireWithin(net', Announce(q, n, k, b))
  PROVE  Mints(n, k, b)
<1>1. claimSeq' = [claimSeq EXCEPT ![n][k] = claimSeq[n][k] + 1]
  BY DEF EmitClaim, Minted
<1>2. ASSUME NEW r, Copy(r)' PROVE Copy(r) \/ r = Minted(n, k, b)
  <2>1. CASE Keeps(claims', r)
    <3>1. Keeps(Stored(n, book, Minted(n, k, b)), r)
      BY <2>1 DEF EmitClaim, Stored
    <3>2. claims \in [Node -> Book] /\ Minted(n, k, b) \in Claim
      BY MintedType DEF TypeOK, Book
    <3>3. Keeps(claims, r) \/ r = Minted(n, k, b) \/ InBook(book, r)
      BY <3>1, <3>2, KeepsStored
    <3> QED BY <3>3 DEF Copy, BookKnown
  <2>2. CASE Carries(net', r)
    <3>1. Carries(q, r) \/ r = Minted(n, k, b)
      BY <2>2, CarriesAnnounce DEF WireWithin
    <3> QED BY <3>1 DEF WireKnown
  <2> QED BY <1>2, <2>1, <2>2 DEF Copy
<1> QED BY <1>1, <1>2 DEF Mints

LEMMA OwnEmitMints ==
  ASSUME TypeOK, NEW n \in Node, NEW k \in Key, NEW b \in BOOLEAN, NEW q \in Wire,
         EmitClaim(n, k, b, claims[n]), epoch' = epoch,
         WireKnown(q), WireWithin(net', Announce(q, n, k, b))
  PROVE  Mints(n, k, b)
<1>1. claims[n] \in Book
  BY DEF TypeOK, Book
<1> QED BY <1>1, OwnBookKnown, EmitMints

\* A step that mints nothing and writes only known copies.
LEMMA QuietStep ==
  ASSUME UNCHANGED <<epoch, claimSeq>>, WireKnown(net'),
         \A n \in Node, k \in Key, m \in Node :
           claims'[n][k][m] # NoClaim => Copy(claims'[n][k][m])
  PROVE  Quiet
BY DEF Quiet, NoNewCopy, Copy, WireKnown, Keeps

\* In particular one that leaves the books alone.
LEMMA QuietBooks ==
  ASSUME UNCHANGED <<epoch, claimSeq, claims>>, WireKnown(net')
  PROVE  Quiet
BY QuietStep DEF Copy, Keeps

LEMMA SentMints ==
  ASSUME TypeOK, NEW n \in Node, NEW k \in Key, NEW b \in BOOLEAN,
         EmitClaim(n, k, b, claims[n]), epoch' = epoch, net' = Announce(net, n, k, b)
  PROVE  Mints(n, k, b)
<1>1. net \in Wire /\ WireWithin(net', Announce(net, n, k, b))
  BY DEF TypeOK, Wire, WireWithin
<1> QED BY <1>1, NetKnown, OwnEmitMints

\* What a dispatch, up to the next await, does to the copies.
LEMMA TryCopies ==
  ASSUME TypeOK, NEW n \in Node, NEW k \in Key, NEW left \in SUBSET Node, TryFrom(n, k, left), epoch' = epoch
  PROVE  Quiet \/ Founds(n, k, TRUE)
<1>1. ASSUME NoSpawn, net' = net PROVE Quiet
  BY <1>1, NetKnown, QuietBooks DEF NoSpawn
<1>2. ASSUME NEW e \in Node, NEW j \in Nat, NoSpawn, net' = Reply(net, n, e, Job(k, j)) PROVE Quiet
  <2>1. net \in Wire /\ Job(k, j) \in Message /\ Job(k, j).t # "work-claim"
    BY MessageTypes DEF TypeOK, Wire, Job
  <2>2. WireKnown(net')
    BY <2>1, <1>2, ReplyWithin, NetKnown DEF WireWithin, WireKnown
  <2> QED BY <2>2, <1>2, QuietBooks DEF NoSpawn
<1>3. ASSUME Spawn(n, k), net' = Announce(net, n, k, TRUE) PROVE Founds(n, k, TRUE)
  BY <1>3, SentMints, SpawnStarts DEF Spawn, Founds
<1>4. PICK passed \in SUBSET PassedOver(n, left) : TryFrom(n, k, left)!(passed)
  BY DEF TryFrom
<1>5. jobs + 1 \in Nat
  BY DEF TypeOK
<1> QED BY <1>1, <1>2, <1>3, <1>4, <1>5

\* What a step may do to the copies of claims.
LEMMA CopySteps ==
  ASSUME TypeOK, [Next]_vars
  PROVE  \/ Quiet
         \/ \E n \in Node, k \in Key, b \in BOOLEAN : Founds(n, k, b)
         \/ \E n \in Node : Restart(n) /\ NoNewCopy
<1> DEFINE Some == \E n \in Node, k \in Key, b \in BOOLEAN : Founds(n, k, b)
<1>0. /\ net \in Wire /\ claims \in [Node -> Book]
      /\ \A n, m \in Node : net[n][m] \in Seq(Message)
  BY DEF TypeOK, Wire, Book
<1>a. \A n \in Node, k \in Key, m \in Node : claims[n][k][m] # NoClaim => Copy(claims[n][k][m])
  BY DEF Copy, Keeps
<1>1. ASSUME NEW n \in Node, NEW m \in Node, OnHello(n, m) PROVE Quiet
  <2>1. Rest(n, m) \in Wire /\ WireKnown(Rest(n, m)) /\ Auth \in Message /\ Auth.t # "work-claim"
    BY <1>0, <1>1, ReadType, ReadKnown, MessageTypes DEF OnHello, Auth
  <2>2. net' \in {Rest(n, m), [Rest(n, m) EXCEPT ![n][m] = Append(Rest(n, m)[n][m], Auth)]}
    BY <1>1, <2>1 DEF OnHello, Wire
  <2>3. net' \in Wire
    BY NextType DEF TypeOK, Wire
  <2>4. \A r : Carries(net', r) => Carries(Rest(n, m), r)
    BY <2>1, <2>2, <2>3, CarriesAppend
  <2>5. WireKnown(net')
    BY <2>1, <2>4 DEF WireKnown
  <2> QED BY <2>5, <1>1, QuietBooks DEF OnHello
<1>2. ASSUME NEW n \in Node, NEW m \in Node, OnAuth(n, m) \/ OnJobStatus(n, m) PROVE Quiet
  <2>1. WireKnown(Rest(n, m))
    BY <1>0, <1>2, ReadKnown DEF OnAuth, OnJobStatus
  <2>2. net' = Rest(n, m) /\ UNCHANGED <<epoch, claimSeq, claims>>
    BY <1>2 DEF OnAuth, OnJobStatus
  <2> QED BY <2>1, <2>2, QuietBooks
<1>3. ASSUME NEW n \in Node, NEW m \in Node, OnWorkClaim(n, m) PROVE Quiet \/ Some
  <2> DEFINE rec == Msg(n, m).claim
             book == StoreClaim(n, claims[n], rec)
             relayed == Broadcast(Rest(n, m), n, <<WorkClaim(rec)>>)
  <2>1. /\ Rest(n, m) \in Wire /\ WireKnown(Rest(n, m))
        /\ Msg(n, m) \in Message /\ Msg(n, m).t = "work-claim"
        /\ Carries(net, rec)
    BY <1>0, <1>3, ReadType, ReadKnown, CarriesRead DEF OnWorkClaim
  <2>2. rec \in Claim /\ rec.key \in Key /\ Copy(rec)
    BY <2>1 DEF Message, Claim, Copy
  <2>3. book \in Book /\ BookKnown(book)
    <3>1. claims[n] \in Book /\ BookKnown(claims[n])
      BY <1>0, OwnBookKnown
    <3> HIDE DEF rec
    <3> QED BY <3>1, <2>2, StoreType, StoredKnown
  <2>4. relayed \in Wire /\ WireKnown(relayed)
    <3> HIDE DEF rec
    <3>1. <<WorkClaim(rec)>> \in Seq(Message)
      BY <2>2, MessageTypes
    <3> QED BY <3>1, <2>1, <2>2, BroadcastType, RelayKnown
  <2>5. epoch' = epoch
    BY <1>3 DEF OnWorkClaim
  <2>6. CASE NoEmit(n, claims[n]) /\ net' = Rest(n, m)
    <3>1. claims' = claims
      BY <2>6, <1>0 DEF NoEmit
    <3> QED BY <3>1, <2>1, <2>5, <2>6, QuietBooks DEF NoEmit
  <2>7. CASE EmitClaim(n, rec.key, FALSE, book) /\ net' = Announce(relayed, n, rec.key, FALSE)
    <3>1. WireWithin(net', Announce(relayed, n, rec.key, FALSE))
      BY <2>7 DEF WireWithin
    <3> HIDE DEF rec, book, relayed
    <3>2. Mints(n, rec.key, FALSE)
      BY <3>1, <2>2, <2>3, <2>4, <2>5, <2>7, EmitMints
    <3> QED BY <3>2, <2>2 DEF Founds
  <2>8. CASE NoEmit(n, book) /\ net' = relayed
    <3>1. claims' = [claims EXCEPT ![n] = book] /\ claimSeq' = claimSeq
      BY <2>8 DEF NoEmit
    <3> HIDE DEF book, relayed
    <3>2. \A o \in Node, k \in Key, p \in Node :
            claims'[o][k][p] # NoClaim => Copy(claims'[o][k][p])
      BY <3>1, <2>3, <1>0, <1>a DEF BookKnown, InBook
    <3> QED BY <3>1, <3>2, <2>4, <2>5, <2>8, QuietStep
  <2> QED BY <2>6, <2>7, <2>8, <1>3 DEF OnWorkClaim
<1>4. ASSUME NEW n \in Node, NEW m \in Node, OnJob(n, m) PROVE Quiet \/ Some
  <2>1. /\ Rest(n, m) \in Wire /\ WireKnown(Rest(n, m))
        /\ Msg(n, m) \in Message /\ Msg(n, m).t = "dispatch"
    BY <1>0, <1>4, ReadType, ReadKnown DEF OnJob
  <2>2. PICK k \in Key, j \in Nat : k = Msg(n, m).key /\ j = Msg(n, m).job
    BY <2>1 DEF Message
  <2>3. ASSUME NEW b \in BOOLEAN, NEW q \in Wire
        PROVE  WireWithin(Reply(q, n, m, JobStatus(j, b)), q)
    <3>1. JobStatus(j, b) \in Message /\ JobStatus(j, b).t # "work-claim"
      BY <2>2, MessageTypes DEF JobStatus
    <3> QED BY <3>1, ReplyWithin
  <2>4. ASSUME NEW b \in BOOLEAN, NoSpawn, net' = Reply(Rest(n, m), n, m, JobStatus(j, b)) PROVE Quiet
    <3>1. WireKnown(net')
      BY <2>1, <2>3, <2>4 DEF WireWithin, WireKnown
    <3> QED BY <3>1, <2>4, <1>4, QuietBooks DEF NoSpawn, OnJob
  <2>5. ASSUME Spawn(n, k),
               net' = Reply(Announce(Rest(n, m), n, k, TRUE), n, m, JobStatus(j, TRUE))
        PROVE  Founds(n, k, TRUE)
    <3>1. Announce(Rest(n, m), n, k, TRUE) \in Wire
      BY <2>1, <2>2, AnnounceType
    <3>2. WireWithin(net', Announce(Rest(n, m), n, k, TRUE))
      BY <3>1, <2>3, <2>5
    <3>3. epoch' = epoch /\ EmitClaim(n, k, TRUE, claims[n])
      BY <1>4, <2>5 DEF OnJob, Spawn
    <3>4. Mints(n, k, TRUE)
      BY <3>2, <3>3, <2>1, <2>2, OwnEmitMints
    <3>5. Started(n, k)'
      BY <2>2, <2>5, SpawnStarts
    <3> QED BY <3>4, <3>5 DEF Founds
  <2>6. \/ \E b \in BOOLEAN : NoSpawn /\ net' = Reply(Rest(n, m), n, m, JobStatus(j, b))
        \/ /\ Spawn(n, k)
           /\ net' = Reply(Announce(Rest(n, m), n, k, TRUE), n, m, JobStatus(j, TRUE))
    BY <1>4, <2>2 DEF OnJob
  <2> QED BY <2>2, <2>4, <2>5, <2>6
<1>5. ASSUME NEW n \in Node, NEW m \in Node, Connect(n, m) PROVE Quiet
  <2>1. ASSUME NEW a \in Node, NEW b \in Node
        PROVE  net'[a][b] \in {net[a][b], <<Hello(epoch[n])>>, <<Hello(epoch[m])>>}
    BY <1>0, <1>5 DEF Connect, Wire
  <2>2. WireKnown(net')
    <3> SUFFICES ASSUME NEW r, Carries(net', r) PROVE Carries(net, r)
      BY DEF WireKnown, Copy
    <3>0. PICK a \in Node, b \in Node :
            \E i \in DOMAIN net'[a][b] : net'[a][b][i].t = "work-claim" /\ net'[a][b][i].claim = r
      BY DEF Carries
    <3>1. PICK i \in DOMAIN net'[a][b] :
            net'[a][b][i].t = "work-claim" /\ net'[a][b][i].claim = r
      BY <3>0
    <3>2. \A e : Hello(e).t # "work-claim"
      BY DEF Hello
    <3>3. net'[a][b] = net[a][b]
      BY <3>1, <3>2, <2>1
    <3> QED BY <3>1, <3>3 DEF Carries
  <2> QED BY <2>2, <1>5, QuietBooks DEF Connect
<1>6. ASSUME NEW n \in Node, NEW m \in Node,
             \/ LinkLost(n, m) \/ Eof(n, m) \/ Hear(n, m)
      PROVE  Quiet
  <2>1. ASSUME NEW a \in Node, NEW b \in Node PROVE net'[a][b] \in {net[a][b], <<>>}
    BY SMTT(20), <1>0, <1>6 DEF LinkLost, Eof, Hear, Wire
  <2>2. \A r : Carries(net', r) => Carries(net, r)
    BY <2>1 DEF Carries
  <2>3. WireKnown(net')
    BY <2>2 DEF WireKnown, Copy
  <2> QED BY <2>3, <1>6, QuietBooks DEF LinkLost, Eof, Hear
<1>7. ASSUME NEW n \in Node, NEW m \in Node, ReapPeer(n, m) PROVE Quiet
  <2>1. ASSUME NEW o \in Node, NEW k \in Key, NEW p \in Node
        PROVE  claims'[o][k][p] \in {claims[o][k][p], NoClaim}
    BY <1>0, <1>7 DEF ReapPeer, Book
  <2>2. UNCHANGED <<epoch, claimSeq, net>>
    BY <1>7 DEF ReapPeer
  <2> QED BY <2>1, <2>2, <1>a, NetKnown, QuietStep
<1>8. ASSUME NEW n \in Node, NEW k \in Key, ReapReleased(n, k) PROVE Quiet
  <2>1. ASSUME NEW o \in Node, NEW l \in Key, NEW p \in Node
        PROVE  claims'[o][l][p] \in {claims[o][l][p], NoClaim}
    BY <1>0, <1>8 DEF ReapReleased, Book
  <2>2. UNCHANGED <<epoch, claimSeq, net>>
    BY <1>8 DEF ReapReleased
  <2> QED BY <2>1, <2>2, <1>a, NetKnown, QuietStep
<1>9. ASSUME NEW n \in Node, NEW k \in Key, ClaimVerb(n, k) PROVE Some
  <2>1. Mints(n, k, TRUE) /\ n \in Callers
    BY <1>9, SentMints DEF ClaimVerb
  <2> QED BY <2>1 DEF Founds, Started
<1>10. ASSUME NEW n \in Node, NEW k \in Key, WatchEnds(n, k) PROVE Quiet \/ Some
  <2>1. CASE claims[n][k][n] # NoClaim
    <3>1. Mints(n, k, FALSE)
      BY <2>1, <1>10, SentMints DEF WatchEnds
    <3> QED BY <3>1 DEF Founds
  <2>2. CASE claims[n][k][n] = NoClaim
    BY <2>2, <1>10, NetKnown, QuietBooks DEF WatchEnds
  <2> QED BY <2>1, <2>2
<1>11. ASSUME NEW n \in Node, NEW k \in Key, Dispatch(n, k) \/ \E e \in Node : DispatchTo(n, k, e)
       PROVE  Quiet \/ Some
  <2>1. (\E left \in SUBSET Node : TryFrom(n, k, left)) /\ epoch' = epoch
    BY <1>11 DEF Dispatch, DispatchTo
  <2>2. Quiet \/ Founds(n, k, TRUE)
    BY <2>1, TryCopies
  <2> QED BY <2>2
<1>12. ASSUME NEW n \in Node, FailOver(n) PROVE Quiet \/ Some
  <2>1. route[n].key \in Key /\ route[n].left \in SUBSET Node
    BY <1>12 DEF FailOver, TypeOK, Route
  <2>2. Quiet \/ Founds(n, route[n].key, TRUE)
    BY <2>1, <1>12, TryCopies DEF FailOver
  <2> QED BY <2>1, <2>2
<1>13. ASSUME NEW n \in Node, Restart(n) PROVE NoNewCopy
  <2>1. ASSUME NEW a \in Node, NEW b \in Node PROVE net'[a][b] \in {net[a][b], <<>>}
    BY <1>0, <1>13 DEF Restart, Wire
  <2>2. ASSUME NEW o \in Node, NEW k \in Key, NEW p \in Node
        PROVE  claims'[o][k][p] \in {claims[o][k][p], NoClaim}
    BY <1>0, <1>13 DEF Restart, Book
  <2>3. \A r : Carries(net', r) => Carries(net, r)
    BY <2>1 DEF Carries
  <2>4. \A r : Keeps(claims', r) => Keeps(claims, r)
    BY <2>2 DEF Keeps
  <2> QED BY <2>3, <2>4 DEF NoNewCopy, Copy
<1>14. ASSUME NEW n \in Node, AckTimeout(n) PROVE Quiet
  BY <1>14, NetKnown, QuietBooks DEF AckTimeout
<1>15. ASSUME NEW i \in DOMAIN procs, AgentExits(i) PROVE Quiet
  BY <1>15, NetKnown, QuietBooks DEF AgentExits
<1>16. CASE UNCHANGED vars
  BY <1>16, NetKnown, QuietBooks DEF vars
<1>17. ASSUME NEW n \in Node, NEW m \in Node,
              \/ Deliver(n, m) \/ Connect(n, m) \/ LinkLost(n, m) \/ Eof(n, m)
              \/ Hear(n, m) \/ ReapPeer(n, m)
       PROVE  Quiet \/ Some
  BY <1>17, <1>1, <1>2, <1>3, <1>4, <1>5, <1>6, <1>7 DEF Deliver
<1>18. ASSUME NEW n \in Node, NEW k \in Key,
              \/ ClaimVerb(n, k) \/ ReapReleased(n, k) \/ WatchEnds(n, k) \/ Dispatch(n, k)
              \/ \E e \in Node : DispatchTo(n, k, e)
       PROVE  Quiet \/ Some
  BY <1>18, <1>8, <1>9, <1>10, <1>11
<1> QED BY <1>12, <1>13, <1>14, <1>15, <1>16, <1>17, <1>18 DEF Next

\* No copy is later than what its claimant has minted last.
Ordered ==
  \A r : Copy(r) =>
    /\ r \in Claim
    /\ r.epoch <= epoch[r.node]
    /\ r.epoch = epoch[r.node] => r.seq <= claimSeq[r.node][r.key]

Agree ==
  \A r, s : (/\ Copy(r) /\ Copy(s) /\ r.node = s.node /\ r.key = s.key
             /\ ~Newer(r, s) /\ ~Newer(s, r)) => r = s

\* A record is minted past all the copies there are, so the order of a
\* claimant's records tells them apart.
LEMMA AgreeStep ==
  ASSUME TypeOK, Ordered, Agree, [Next]_vars
  PROVE  Ordered' /\ Agree'
<1>0. epoch \in [Node -> Nat] /\ claimSeq \in [Node -> [Key -> Nat \cup {-1}]]
  BY DEF TypeOK, Seqno
<1>a. ASSUME NEW r, Copy(r)
      PROVE  /\ r \in Claim /\ r.node \in Node /\ r.key \in Key
             /\ r.epoch \in Nat /\ r.seq \in Nat
             /\ r.epoch <= epoch[r.node]
             /\ r.epoch = epoch[r.node] => r.seq <= claimSeq[r.node][r.key]
  BY <1>a DEF Ordered, Claim
<1>1. CASE Quiet
  BY <1>1 DEF Quiet, NoNewCopy, Ordered, Agree
<1>2. ASSUME NEW n \in Node, NEW k \in Key, NEW b \in BOOLEAN, Mints(n, k, b)
      PROVE  Ordered' /\ Agree'
  <2> DEFINE new == Minted(n, k, b)
  <2>1. /\ new \in Claim /\ new.node = n /\ new.key = k
        /\ new.epoch = epoch[n] /\ new.seq = claimSeq[n][k] + 1
    BY MintedType DEF Minted
  <2>2. /\ epoch' = epoch /\ claimSeq' = [claimSeq EXCEPT ![n][k] = claimSeq[n][k] + 1]
        /\ \A r : Copy(r)' => Copy(r) \/ r = new
    BY <1>2 DEF Mints
  <2>3. claimSeq[n][k] \in Nat \cup {-1} /\ epoch[n] \in Nat
    BY <1>0
  <2>4. PICK rec : rec = new
    OBVIOUS
  <2> HIDE DEF new
  <2>5. ASSUME NEW r, Copy(r)'
        PROVE  /\ r \in Claim
               /\ r.epoch <= epoch'[r.node]
               /\ r.epoch = epoch'[r.node] => r.seq <= claimSeq'[r.node][r.key]
    <3>1. CASE r = rec
      BY <3>1, <2>1, <2>2, <2>3, <2>4, <1>0
    <3>2. CASE Copy(r)
      <4>1. /\ r \in Claim /\ r.node \in Node /\ r.key \in Key /\ r.seq \in Nat
            /\ r.epoch <= epoch[r.node]
            /\ r.epoch = epoch[r.node] => r.seq <= claimSeq[r.node][r.key]
        BY <3>2, <1>a
      <4>2. /\ claimSeq[r.node][r.key] \in Nat \cup {-1}
            /\ claimSeq'[r.node][r.key] \in {claimSeq[r.node][r.key], claimSeq[r.node][r.key] + 1}
        BY <4>1, <2>2, <1>0
      <4> QED BY <4>1, <4>2, <2>2
    <3> QED BY <3>1, <3>2, <2>2, <2>4, <2>5
  <2>6. ASSUME NEW s, Copy(s), s.node = n, s.key = k PROVE Newer(rec, s)
    BY <2>6, <1>a, <2>1, <2>3, <2>4 DEF Newer
  <2>7. Agree'
    <3> SUFFICES ASSUME NEW r, NEW s, Copy(r)', Copy(s)', r.node = s.node, r.key = s.key,
                        ~Newer(r, s), ~Newer(s, r)
                 PROVE  r = s
      BY DEF Agree
    <3>1. (Copy(r) \/ r = rec) /\ (Copy(s) \/ s = rec)
      BY <2>2, <2>4
    <3>2. CASE Copy(r) /\ Copy(s)
      BY <3>2 DEF Agree
    <3>3. CASE r = rec /\ Copy(s)
      BY <3>3, <2>1, <2>4, <2>6
    <3>4. CASE s = rec /\ Copy(r)
      BY <3>4, <2>1, <2>4, <2>6
    <3> QED BY <3>1, <3>2, <3>3, <3>4
  <2> QED BY <2>5, <2>7 DEF Ordered
<1>3. ASSUME NEW n \in Node, Restart(n), NoNewCopy PROVE Ordered' /\ Agree'
  <2>1. /\ epoch' = [epoch EXCEPT ![n] = epoch[n] + 1]
        /\ claimSeq' = [claimSeq EXCEPT ![n] = [k \in Key |-> -1]]
    BY <1>3 DEF Restart
  <2>2. ASSUME NEW r, Copy(r)
        PROVE  /\ r \in Claim
               /\ r.epoch <= epoch'[r.node]
               /\ r.epoch = epoch'[r.node] => r.seq <= claimSeq'[r.node][r.key]
    <3>1. CASE r.node = n
      <4>1. epoch'[n] = epoch[n] + 1 /\ epoch[n] \in Nat
        BY <2>1, <1>0
      <4>2. r \in Claim /\ r.epoch \in Nat /\ r.epoch <= epoch[n]
        BY <2>2, <1>a, <3>1
      <4> QED BY <3>1, <4>1, <4>2
    <3>2. CASE r.node # n
      BY <3>2, <2>2, <1>a, <2>1, <1>0
    <3> QED BY <3>1, <3>2
  <2>3. Ordered'
    BY <2>2, <1>3 DEF Ordered, NoNewCopy
  <2> QED BY <2>3, <1>3 DEF Agree, NoNewCopy
<1> QED BY <1>1, <1>2, <1>3, CopySteps DEF Founds

\* (epoch, seq) orders the records of a claimant on a key: two copies that
\* neither out-fresh the other, wherever they were relayed or kept, are one
\* record.  No two nodes can keep different owners because of what they heard.
THEOREM CopiesAlike == Spec => []CopiesAgree
<1>1. Init => Ordered /\ Agree
  <2> SUFFICES ASSUME Init, NEW r PROVE ~Copy(r)
    BY DEF Ordered, Agree
  <2>1. ~Keeps(claims, r)
    BY DEF Init, Keeps
  <2>2. ~Carries(net, r)
    BY DEF Init, Carries
  <2> QED BY <2>1, <2>2 DEF Copy
<1>2. TypeOK /\ Ordered /\ Agree /\ [Next]_vars => Ordered' /\ Agree'
  BY AgreeStep
<1>3. Agree => CopiesAgree
  BY CopyIsCopy DEF Agree, CopiesAgree
<1> QED BY <1>1, <1>2, <1>3, InitType, NextType, PTL DEF Spec

----------------------------------------------------------------------------
(* Who is yielded to *)

\* A book keeps each record under its own key and claimant.
Filed(book) ==
  \A k \in Key, m \in Node : book[k][m] # NoClaim => book[k][m].node = m /\ book[k][m].key = k

\* Every active claim there is stands for an agent that was started, or for a
\* caller of the verb.
Backed == \A r : Copy(r) /\ r.active => Started(r.node, r.key)

ClaimsSound == Backed /\ \A n \in Node : Filed(claims[n])

LEMMA StoreFiles ==
  ASSUME NEW n, NEW book \in Book, NEW rec \in Claim
  PROVE  /\ Filed(book) => Filed(StoreClaim(n, book, rec))
         /\ \A k \in Key, m \in Node :
              /\ StoreClaim(n, book, rec)[k][m] \in {book[k][m], rec}
              /\ k # rec.key \/ m # rec.node => StoreClaim(n, book, rec)[k][m] = book[k][m]
<1>1. rec.key \in Key /\ rec.node \in Node
  BY DEF Claim
<1>2. \A k \in Key, m \in Node :
        /\ StoreClaim(n, book, rec)[k][m] \in {book[k][m], rec}
        /\ k # rec.key \/ m # rec.node => StoreClaim(n, book, rec)[k][m] = book[k][m]
  BY <1>1 DEF StoreClaim, Book
<1> QED BY <1>1, <1>2 DEF Filed

\* What an emission makes of its book.
LEMMA EmitFiles ==
  ASSUME TypeOK, \A o \in Node : Filed(claims[o]), NEW n \in Node, NEW k \in Key, NEW b \in BOOLEAN,
         NEW book \in Book, Filed(book), EmitClaim(n, k, b, book)
  PROVE  /\ \A o \in Node : Filed(claims'[o])
         /\ \A o \in Node \ {n} : claims'[o] = claims[o]
         /\ \A j \in Key, m \in Node : j # k \/ m # n => claims'[n][j][m] = book[j][m]
         /\ b = TRUE => \A j \in Key, m \in Node :
                          Held(claims'[n][j][m]) \/ claims'[n][j][m] = book[j][m]
<1> DEFINE rec == Minted(n, k, b)
<1>1. rec \in Claim /\ rec.node = n /\ rec.key = k /\ rec.active = b /\ rec # NoClaim
  BY MintedType, NoClaimAssumption DEF Minted
<1>2. claims' = [claims EXCEPT ![n] = StoreClaim(n, book, rec)] /\ claims \in [Node -> Book]
  BY DEF EmitClaim, TypeOK, Book
<1> HIDE DEF rec
<1>3. /\ Filed(StoreClaim(n, book, rec))
      /\ \A j \in Key, m \in Node :
           /\ StoreClaim(n, book, rec)[j][m] \in {book[j][m], rec}
           /\ j # k \/ m # n => StoreClaim(n, book, rec)[j][m] = book[j][m]
  BY <1>1, StoreFiles
<1>4. claims'[n] = StoreClaim(n, book, rec) /\ \A o \in Node \ {n} : claims'[o] = claims[o]
  BY <1>2
<1>5. b = TRUE => Held(rec)
  BY <1>1 DEF Held
<1> QED BY <1>3, <1>4, <1>5

\* A claim is no longer held.
Lapses(n, k) == Held(claims[n][k][n]) /\ ~Held(claims'[n][k][n])

\* A node that ends no watch and lives on lets a claim go only for a lower
\* node that has started an agent, or has a caller.
Excused(n, k) ==
  \/ agents'[n][k] = 0 \/ epoch'[n] # epoch[n]
  \/ \E m \in Node : m < n /\ Started(m, k)

Tidy ==
  /\ \A n \in Node : Filed(claims'[n])
  /\ \A n \in Node, k \in Key : Lapses(n, k) => Excused(n, k)

LEMMA FiledStep ==
  ASSUME TypeOK, ClaimsSound, [Next]_vars
  PROVE  Tidy
<1>0. claims \in [Node -> Book] /\ net \in Wire /\ \A n \in Node : Filed(claims[n])
  BY DEF TypeOK, Book, Wire, ClaimsSound
<1>1. ASSUME UNCHANGED claims PROVE Tidy
  BY <1>0, <1>1 DEF Tidy, Lapses
<1>2. ASSUME NEW n \in Node, NEW k \in Key, EmitClaim(n, k, TRUE, claims[n]) PROVE Tidy
  <2>1. claims[n] \in Book /\ Filed(claims[n])
    BY <1>0
  <2>2. /\ \A o \in Node : Filed(claims'[o])
        /\ \A o \in Node \ {n} : claims'[o] = claims[o]
        /\ \A j \in Key, m \in Node : Held(claims'[n][j][m]) \/ claims'[n][j][m] = claims[n][j][m]
    <3>1. \A o \in Node : Filed(claims[o])
      BY <1>0
    <3> QED BY <1>2, <2>1, <3>1, EmitFiles
  <2> QED BY <2>2 DEF Tidy, Lapses
<1>3. ASSUME NEW n \in Node, NEW k \in Key, NEW left, TryFrom(n, k, left) PROVE Tidy
  BY <1>1, <1>2, <1>3 DEF TryFrom, Spawn, NoSpawn
<1>4. ASSUME NEW n \in Node, NEW m \in Node, OnWorkClaim(n, m) PROVE Tidy
  <2> DEFINE rec == Msg(n, m).claim
             k == rec.key
             book == StoreClaim(n, claims[n], rec)
  <2>1. /\ Msg(n, m) \in Message /\ Msg(n, m).t = "work-claim"
        /\ Carries(net, rec)
    BY <1>0, <1>4, ReadType, CarriesRead DEF OnWorkClaim
  <2>2. rec \in Claim /\ k \in Key /\ Copy(rec)
    BY <2>1 DEF Message, Claim, Copy
  <2>3. claims[n] \in Book /\ Filed(claims[n])
    BY <1>0
  <2>4. \/ NoEmit(n, claims[n])
        \/ rec.node # n /\ NoEmit(n, book)
        \/ rec.node # n /\ EmitClaim(n, k, FALSE, book) /\ Outranked(n, OwnersIn(book, n, k))
    BY <1>4 DEF OnWorkClaim
  <2> HIDE DEF rec, k, book
  <2>5. /\ book \in Book /\ Filed(book)
        /\ \A j \in Key, p \in Node : book[j][p] \in {claims[n][j][p], rec}
        /\ rec.node # n => \A j \in Key : book[j][n] = claims[n][j][n]
    <3>1. book \in Book
      BY <2>2, <2>3, StoreType DEF book
    <3>2. /\ Filed(book)
          /\ \A j \in Key, p \in Node : /\ book[j][p] \in {claims[n][j][p], rec}
                                        /\ j # rec.key \/ p # rec.node => book[j][p] = claims[n][j][p]
      BY <2>2, <2>3, StoreFiles DEF book
    <3> QED BY <3>1, <3>2
  <2>6. CASE NoEmit(n, claims[n])
    BY <2>6, <1>0, <1>1 DEF NoEmit
  <2>7. CASE rec.node # n /\ NoEmit(n, book)
    <3>1. claims'[n] = book /\ \A o \in Node \ {n} : claims'[o] = claims[o]
      BY <2>7, <1>0 DEF NoEmit
    <3> QED BY <1>0, <2>5, <2>7, <3>1 DEF Tidy, Lapses
  <2>8. CASE rec.node # n /\ EmitClaim(n, k, FALSE, book) /\ Outranked(n, OwnersIn(book, n, k))
    <3>1. /\ \A o \in Node : Filed(claims'[o])
          /\ \A o \in Node \ {n} : claims'[o] = claims[o]
          /\ \A j \in Key : j # k => claims'[n][j][n] = book[j][n]
      <4>1. k \in Key /\ book \in Book /\ Filed(book) /\ EmitClaim(n, k, FALSE, book)
        BY <2>2, <2>5, <2>8
      <4>2. \A o \in Node : Filed(claims[o])
        BY <1>0
      <4> QED BY ZenonT(40), <4>1, <4>2, EmitFiles
    <3>2. PICK p \in Node : p < n /\ Held(book[k][p])
      BY <2>8 DEF Outranked, OwnersIn
    <3>3. Copy(book[k][p]) /\ book[k][p].active
      BY <2>2, <2>5, <3>2 DEF Held, Copy, Keeps
    <3>4. book[k][p].node = p /\ book[k][p].key = k
      BY <2>2, <2>5, <3>2 DEF Filed, Held
    <3>5. Started(p, k)
      BY <3>3, <3>4 DEF ClaimsSound, Backed
    <3> QED BY <2>5, <2>8, <3>1, <3>2, <3>5 DEF Tidy, Lapses, Excused
  <2> QED BY <2>4, <2>6, <2>7, <2>8
<1>5. ASSUME NEW n \in Node, NEW m \in Node, OnJob(n, m) PROVE Tidy
  <2>1. Msg(n, m) \in Message /\ Msg(n, m).t = "dispatch"
    BY <1>0, <1>5, ReadType DEF OnJob
  <2>2. Msg(n, m).key \in Key
    BY <2>1 DEF Message
  <2> QED BY <1>1, <1>2, <1>5, <2>2 DEF OnJob, NoSpawn, Spawn
<1>6. ASSUME NEW n \in Node, NEW m \in Node, ReapPeer(n, m) PROVE Tidy
  <2>1. n # m /\ \A o \in Node, k \in Key, p \in Node :
          claims'[o][k][p] = IF o = n /\ p = m THEN NoClaim ELSE claims[o][k][p]
    BY <1>6, <1>0 DEF ReapPeer, Book
  <2> QED BY <1>0, <2>1 DEF Tidy, Filed, Lapses
<1>7. ASSUME NEW n \in Node, NEW k \in Key, ReapReleased(n, k) PROVE Tidy
  <2>1. \A o \in Node, j \in Key, p \in Node :
          claims'[o][j][p] = IF o = n /\ j = k /\ p = n /\ ~Held(claims[n][k][n]) THEN NoClaim
                                                                                  ELSE claims[o][j][p]
    BY <1>7, <1>0 DEF ReapReleased, Book
  <2> QED BY <1>0, <2>1 DEF Tidy, Filed, Lapses
<1>8. ASSUME NEW n \in Node, NEW k \in Key, WatchEnds(n, k) PROVE Tidy
  <2>1. agents'[n][k] = 0
    BY <1>8 DEF WatchEnds, TypeOK
  <2>2. CASE claims[n][k][n] # NoClaim
    <3>1. EmitClaim(n, k, FALSE, claims[n]) /\ claims[n] \in Book /\ Filed(claims[n])
      BY <1>0, <1>8, <2>2 DEF WatchEnds
    <3>2. /\ \A o \in Node : Filed(claims'[o])
          /\ \A o \in Node \ {n} : claims'[o] = claims[o]
          /\ \A j \in Key : j # k => claims'[n][j][n] = claims[n][j][n]
      <4>1. \A o \in Node : Filed(claims[o])
        BY <1>0
      <4>2. /\ \A o \in Node : Filed(claims'[o])
            /\ \A o \in Node \ {n} : claims'[o] = claims[o]
            /\ \A j \in Key, m \in Node : j # k \/ m # n => claims'[n][j][m] = claims[n][j][m]
        BY <3>1, <4>1, EmitFiles
      <4> QED BY <4>2
    <3> QED BY <2>1, <3>2 DEF Tidy, Lapses, Excused
  <2>3. CASE claims[n][k][n] = NoClaim
    BY <1>1, <1>8, <2>3 DEF WatchEnds
  <2> QED BY <2>2, <2>3
<1>9. ASSUME NEW n \in Node, Restart(n) PROVE Tidy
  <2>1. epoch'[n] # epoch[n]
    <3>1. epoch[n] \in Nat /\ epoch'[n] = epoch[n] + 1
      BY <1>9 DEF Restart, TypeOK
    <3> QED BY <3>1
  <2>2. /\ \A k \in Key, m \in Node : claims'[n][k][m] = NoClaim
        /\ \A o \in Node \ {n} : claims'[o] = claims[o]
    BY <1>9, <1>0 DEF Restart
  <2> QED BY <1>0, <2>1, <2>2 DEF Tidy, Filed, Lapses, Excused
<1>10. ASSUME NEW n \in Node, NEW m \in Node,
              \/ OnHello(n, m) \/ OnAuth(n, m) \/ OnJobStatus(n, m) \/ Connect(n, m)
              \/ LinkLost(n, m) \/ Eof(n, m) \/ Hear(n, m)
       PROVE  Tidy
  <2>1. UNCHANGED claims
    BY <1>10 DEF OnHello, OnAuth, OnJobStatus, Connect, LinkLost, Eof, Hear
  <2> QED BY <2>1, <1>1
<1>11. ASSUME NEW n \in Node, NEW k \in Key, ClaimVerb(n, k) PROVE Tidy
  <2>1. EmitClaim(n, k, TRUE, claims[n])
    BY <1>11 DEF ClaimVerb
  <2> QED BY <2>1, <1>2
<1>12. ASSUME NEW n \in Node, NEW k \in Key, Dispatch(n, k) \/ \E e \in Node : DispatchTo(n, k, e)
       PROVE  Tidy
  <2>1. \E left : TryFrom(n, k, left)
    BY <1>12 DEF Dispatch, DispatchTo
  <2> QED BY <2>1, <1>3
<1>13. ASSUME NEW n \in Node, FailOver(n) PROVE Tidy
  <2>1. route[n].key \in Key /\ TryFrom(n, route[n].key, route[n].left)
    BY <1>13 DEF FailOver, TypeOK, Route
  <2> QED BY <2>1, <1>3
<1>14. CASE UNCHANGED vars \/ (\E n \in Node : AckTimeout(n)) \/ (\E i \in DOMAIN procs : AgentExits(i))
  <2>1. UNCHANGED claims
    BY <1>14 DEF vars, AckTimeout, AgentExits
  <2> QED BY <2>1, <1>1
<1> QED BY <1>4, <1>5, <1>6, <1>7, <1>8, <1>9, <1>10, <1>11, <1>12, <1>13, <1>14 DEF Next, Deliver

LEMMA SoundStep == TypeOK /\ ClaimsSound /\ [Next]_vars => ClaimsSound'
<1> SUFFICES ASSUME TypeOK, ClaimsSound, [Next]_vars PROVE ClaimsSound'
  OBVIOUS
<1>1. ASSUME NEW r, Copy(r)', r.active PROVE Started(r.node, r.key)'
  <2>1. CASE Copy(r)
    <3>1. Started(r.node, r.key)
      BY <1>1, <2>1 DEF ClaimsSound, Backed
    <3> QED BY <3>1, StartsStay
  <2>2. CASE ~Copy(r)
    <3>1. PICK n \in Node, k \in Key, b \in BOOLEAN : Founds(n, k, b)
      BY <1>1, <2>2, CopySteps DEF Quiet, NoNewCopy
    <3>2. r = Minted(n, k, b) /\ (b => Started(n, k)')
      BY <1>1, <2>2, <3>1 DEF Founds, Mints
    <3>3. r.node = n /\ r.key = k /\ r.active = b
      BY <3>2 DEF Minted
    <3> QED BY <1>1, <3>2, <3>3
  <2> QED BY <2>1, <2>2
<1>2. \A n \in Node : Filed(claims'[n])
  BY FiledStep DEF Tidy
<1>3. Backed'
  BY <1>1 DEF Backed
<1> QED BY <1>2, <1>3 DEF ClaimsSound, Filed

\* A claim whose agent still runs is given up only for a lower node that has
\* started one for the same work: the work never ends up with nobody.  The
\* claim verb, which claims for a caller and starts nothing, is not called.
THEOREM NoOneYieldsToNobody ==
  ASSUME Callers = {}
  PROVE  Spec => NobodyYieldsToNobody
<1>1. Init => ClaimsSound
  <2> SUFFICES ASSUME Init PROVE ClaimsSound
    OBVIOUS
  <2>1. ASSUME NEW r PROVE ~Copy(r)
    <3>1. ~Keeps(claims, r)
      BY DEF Init, Keeps
    <3>2. ~Carries(net, r)
      BY DEF Init, Carries
    <3> QED BY <3>1, <3>2 DEF Copy
  <2> QED BY <2>1 DEF Init, ClaimsSound, Backed, Filed
<1>2. TypeOK /\ ClaimsSound /\ [Next]_vars =>
        [\A n \in Node, k \in Key :
           (/\ agents[n][k] # 0 /\ Held(claims[n][k][n])
            /\ procs[agents[n][k]].live
            /\ epoch'[n] = epoch[n] /\ agents'[n][k] # 0 /\ ~Held(claims'[n][k][n]))
              => \E i \in DOMAIN procs : procs[i].host < n /\ procs[i].key = k]_vars
  BY FiledStep DEF Tidy, Lapses, Excused, Started
<1> QED BY <1>1, <1>2, SoundStep, InitType, NextType, PTL DEF Spec, NobodyYieldsToNobody

----------------------------------------------------------------------------
(* What is on the wires *)

\* A claim on its way from a to b.
Sends(q, a, b, r) == \E i \in DOMAIN q[a][b] : q[a][b][i].t = "work-claim" /\ q[a][b][i].claim = r

\* A hello is read first, or not at all: w has no other hellos than q, and
\* those first where they were.
SameHellos(w, q) ==
  \A a, b \in Node :
    /\ \A i \in DOMAIN w[a][b] : w[a][b][i].t = "hello" => i \in DOMAIN q[a][b] /\ w[a][b][i] = q[a][b][i]
    /\ (q[a][b] # <<>> /\ Head(q[a][b]).t = "hello") => w[a][b] # <<>> /\ Head(w[a][b]) = Head(q[a][b])

LEMMA HellosCompose ==
  ASSUME NEW u, NEW v, NEW w, SameHellos(u, v), SameHellos(v, w)
  PROVE  SameHellos(u, w)
BY DEF SameHellos

\* What a message more on one wire changes.
LEMMA OneMore ==
  ASSUME NEW s \in Seq(Message), NEW x \in Message, NEW t, t = Append(s, x) \/ t = s \o <<x>>
  PROVE  /\ t \in Seq(Message) /\ t # <<>> /\ t = Append(s, x)
         /\ \A i \in DOMAIN t : (i \in DOMAIN s /\ t[i] = s[i]) \/ t[i] = x
         /\ \A i \in DOMAIN s : i \in DOMAIN t /\ t[i] = s[i]
         /\ Len(t) \in DOMAIN t /\ t[Len(t)] = x
         /\ s # <<>> => Head(t) = Head(s)
<1>1. t = Append(s, x)
  OBVIOUS
<1> QED BY <1>1

\* Messages that are added to wires, the same one to each.
Adds(w, q, x) ==
  \A a, b \in Node : w[a][b] = q[a][b] \/ w[a][b] = Append(q[a][b], x)

LEMMA AddsHellos ==
  ASSUME NEW q \in Wire, NEW w, NEW x \in Message, x.t # "hello", Adds(w, q, x)
  PROVE  SameHellos(w, q)
<1> SUFFICES ASSUME NEW a \in Node, NEW b \in Node
             PROVE  /\ \A i \in DOMAIN w[a][b] : w[a][b][i].t = "hello" => i \in DOMAIN q[a][b] /\ w[a][b][i] = q[a][b][i]
                    /\ (q[a][b] # <<>> /\ Head(q[a][b]).t = "hello") => w[a][b] # <<>> /\ Head(w[a][b]) = Head(q[a][b])
  BY DEF SameHellos
<1>1. CASE w[a][b] = q[a][b]
  BY <1>1
<1>2. CASE w[a][b] = Append(q[a][b], x)
  <2>1. q[a][b] \in Seq(Message)
    BY DEF Wire
  <2> QED BY <1>2, <2>1, OneMore
<1> QED BY <1>1, <1>2 DEF Adds

LEMMA AddsSends ==
  ASSUME NEW q \in Wire, NEW w, NEW x \in Message, Adds(w, q, x), NEW a \in Node, NEW b \in Node, NEW r
  PROVE  /\ Sends(q, a, b, r) => Sends(w, a, b, r)
         /\ Sends(w, a, b, r) => Sends(q, a, b, r) \/ (x.t = "work-claim" /\ x.claim = r /\ w[a][b] # q[a][b])
<1>1. CASE w[a][b] = q[a][b]
  BY <1>1 DEF Sends
<1>2. CASE w[a][b] = Append(q[a][b], x)
  <2>1. q[a][b] \in Seq(Message)
    BY DEF Wire
  <2>2. /\ \A i \in DOMAIN w[a][b] : (i \in DOMAIN q[a][b] /\ w[a][b][i] = q[a][b][i]) \/ w[a][b][i] = x
        /\ \A i \in DOMAIN q[a][b] : i \in DOMAIN w[a][b] /\ w[a][b][i] = q[a][b][i]
        /\ w[a][b] # q[a][b]
    <3>1. Len(w[a][b]) = Len(q[a][b]) + 1
      BY <1>2, <2>1
    <3> QED BY <1>2, <2>1, <3>1, OneMore
  <2> QED BY <2>2 DEF Sends
<1> QED BY <1>1, <1>2 DEF Adds

LEMMA BroadcastAdds ==
  ASSUME NEW q \in Wire, NEW n \in Node, NEW x \in Message
  PROVE  /\ Adds(Broadcast(q, n, <<x>>), q, x)
         /\ \A a, b \in Node : Broadcast(q, n, <<x>>)[a][b] =
              IF a = n /\ Reaches(n, b) THEN Append(q[a][b], x) ELSE q[a][b]
<1> DEFINE w == Broadcast(q, n, <<x>>)
<1>1. ASSUME NEW a \in Node, NEW b \in Node
      PROVE  w[a][b] = IF a = n /\ Reaches(n, b) THEN q[a][b] \o <<x>> ELSE q[a][b]
  BY DEF Broadcast, Wire
<1>2. ASSUME NEW a \in Node, NEW b \in Node PROVE q[a][b] \o <<x>> = Append(q[a][b], x)
  <2>1. q[a][b] \in Seq(Message)
    BY DEF Wire
  <2> QED BY <2>1
<1> HIDE DEF w
<1>3. \A a, b \in Node : w[a][b] = IF a = n /\ Reaches(n, b) THEN Append(q[a][b], x) ELSE q[a][b]
  BY <1>1, <1>2
<1> QED BY <1>3 DEF Adds, w

LEMMA ReplyAdds ==
  ASSUME NEW q \in Wire, NEW n \in Node, NEW m \in Node, NEW x \in Message
  PROVE  Adds(Reply(q, n, m, x), q, x)
BY DEF Reply, Wire, Adds

\* A broadcast claim reaches whom its sender reaches, and nobody else.
LEMMA BroadcastSends ==
  ASSUME NEW q \in Wire, NEW n \in Node, NEW rec \in Claim, NEW a \in Node, NEW b \in Node, NEW r
  PROVE  Sends(Broadcast(q, n, <<WorkClaim(rec)>>), a, b, r)
           <=> Sends(q, a, b, r) \/ (r = rec /\ a = n /\ Reaches(n, b))
<1> DEFINE x == WorkClaim(rec)
           w == Broadcast(q, n, <<x>>)
<1>1. x \in Message /\ x.t = "work-claim" /\ x.claim = rec
  BY MessageTypes DEF WorkClaim
<1> HIDE DEF x
<1>2. /\ Adds(w, q, x)
      /\ w[a][b] = IF a = n /\ Reaches(n, b) THEN Append(q[a][b], x) ELSE q[a][b]
  BY <1>1, BroadcastAdds
<1> HIDE DEF w
<1>3. Sends(q, a, b, r) => Sends(w, a, b, r)
  BY <1>1, <1>2, AddsSends
<1>4. Sends(w, a, b, r) => Sends(q, a, b, r) \/ (r = rec /\ a = n /\ Reaches(n, b))
  BY <1>1, <1>2, AddsSends
<1>5. ASSUME r = rec, a = n, Reaches(n, b) PROVE Sends(w, a, b, r)
  <2>1. w[a][b] = Append(q[a][b], x) /\ q[a][b] \in Seq(Message)
    BY <1>2, <1>5 DEF Wire
  <2>2. Len(w[a][b]) \in DOMAIN w[a][b] /\ w[a][b][Len(w[a][b])] = x
    BY <1>1, <2>1, OneMore
  <2> QED BY <1>1, <1>5, <2>2 DEF Sends
<1> QED BY <1>3, <1>4, <1>5 DEF w, x

\* Taking the first message off a wire.
LEMMA RestSends ==
  ASSUME net \in Wire, NEW n \in Node, NEW m \in Node, NEW t, Reads(n, m, t), NEW a \in Node, NEW b \in Node, NEW r
  PROVE  /\ Sends(Rest(n, m), a, b, r) => Sends(net, a, b, r)
         /\ Sends(net, a, b, r) =>
              Sends(Rest(n, m), a, b, r) \/ (t = "work-claim" /\ a = m /\ b = n /\ r = Msg(n, m).claim)
<1>1. net[a][b] \in Seq(Message)
  BY DEF Wire
<1>2. CASE a # m \/ b # n
  <2>1. Rest(n, m)[a][b] = net[a][b]
    BY <1>2 DEF Rest, Wire
  <2> QED BY <2>1 DEF Sends
<1>3. CASE a = m /\ b = n
  <2>1. Rest(n, m)[a][b] = Tail(net[a][b]) /\ net[a][b] # <<>> /\ Msg(n, m) = net[a][b][1] /\ Msg(n, m).t = t
    BY <1>1, <1>3 DEF Rest, Wire, Reads, Msg
  <2>2. /\ \A i \in DOMAIN Tail(net[a][b]) : i + 1 \in DOMAIN net[a][b] /\ Tail(net[a][b])[i] = net[a][b][i + 1]
        /\ \A i \in DOMAIN net[a][b] : i = 1 \/ (i - 1 \in DOMAIN Tail(net[a][b]) /\ Tail(net[a][b])[i - 1] = net[a][b][i])
    BY <1>1, <2>1
  <2> DEFINE w == Rest(n, m)[a][b]
  <2> HIDE DEF w
  <2>3. /\ \A i \in DOMAIN w : i + 1 \in DOMAIN net[a][b] /\ w[i] = net[a][b][i + 1]
        /\ \A i \in DOMAIN net[a][b] : i = 1 \/ (i - 1 \in DOMAIN w /\ w[i - 1] = net[a][b][i])
    BY <2>1, <2>2 DEF w
  <2>4. Sends(Rest(n, m), a, b, r) => Sends(net, a, b, r)
    BY <2>3 DEF Sends, w
  <2>5. ASSUME Sends(net, a, b, r) PROVE Sends(Rest(n, m), a, b, r) \/ (t = "work-claim" /\ r = Msg(n, m).claim)
    <3>1. PICK i \in DOMAIN net[a][b] : net[a][b][i].t = "work-claim" /\ net[a][b][i].claim = r
      BY <2>5 DEF Sends
    <3> QED BY <3>1, <2>1, <2>3 DEF Sends, w
  <2> QED BY <1>3, <2>4, <2>5
<1> QED BY <1>2, <1>3

\* Every hello is the first message of its wire, of an incarnation there was.
Hellos ==
  \A a, b \in Node : \A i \in DOMAIN net[a][b] :
    net[a][b][i].t = "hello" =>
      a # b /\ i = 1 /\ net[a][b][i].epoch <= epoch[a] /\ "connect" \in Traffic

LEMMA RestHellos ==
  ASSUME net \in Wire, Hellos, NEW n \in Node, NEW m \in Node, NEW t, Reads(n, m, t), t # "hello"
  PROVE  SameHellos(Rest(n, m), net)
<1> SUFFICES ASSUME NEW a \in Node, NEW b \in Node
             PROVE  /\ \A i \in DOMAIN Rest(n, m)[a][b] :
                         Rest(n, m)[a][b][i].t = "hello" => i \in DOMAIN net[a][b] /\ Rest(n, m)[a][b][i] = net[a][b][i]
                    /\ (net[a][b] # <<>> /\ Head(net[a][b]).t = "hello") =>
                         Rest(n, m)[a][b] # <<>> /\ Head(Rest(n, m)[a][b]) = Head(net[a][b])
  BY DEF SameHellos
<1>1. net[a][b] \in Seq(Message)
  BY DEF Wire
<1>2. CASE a # m \/ b # n
  <2>1. Rest(n, m)[a][b] = net[a][b]
    BY <1>2 DEF Rest, Wire
  <2> QED BY <2>1
<1>3. CASE a = m /\ b = n
  <2>1. Rest(n, m)[a][b] = Tail(net[a][b]) /\ net[a][b] # <<>> /\ Head(net[a][b]).t # "hello"
    BY <1>3 DEF Rest, Wire, Reads
  <2>2. \A i \in DOMAIN Tail(net[a][b]) : i + 1 \in DOMAIN net[a][b] /\ i + 1 # 1 /\ Tail(net[a][b])[i] = net[a][b][i + 1]
    BY <1>1, <2>1
  <2>3. \A i \in DOMAIN Tail(net[a][b]) : Tail(net[a][b])[i].t # "hello"
    BY <2>2 DEF Hellos
  <2> QED BY <2>1, <2>3
<1> QED BY <1>2, <1>3

----------------------------------------------------------------------------
(* Who suppresses work is right, or will be told *)

\* A link is lost by a restart only, and is made again only if there are no
\* others that could have relayed what was said over the lost one.
LinksLast ==
  /\ "drop" \notin Traffic
  /\ "connect" \in Traffic => \A a, b, c \in Node : a = b \/ b = c \/ a = c

\* Nobody has heard of an incarnation that is still to come.
HeardOf == \A n, m \in Node : peers[n][m].epoch <= epoch[m]

\* A node that reaches another one knows its incarnation, or is about to read
\* it: what an earlier one has claimed has no authority there.
Fresh ==
  \A n, m \in Node : n # m =>
    /\ Reaches(n, m) => peers[n][m].epoch = epoch[m]
    /\ (Opens(m, n) /\ (Opens(n, m) \/ Linked(m, n))) => Msg(n, m).epoch = epoch[m]

\* The last record m has made for k, its own count of them being s.
Latest(s, m, k, r) == r.node = m /\ r.key = k /\ r.epoch = epoch[m] /\ r.seq = s[m][k]

\* An active record that is the last one its maker made is still its claim.
LastHeld ==
  \A r : (Copy(r) /\ r.active /\ Latest(claimSeq, r.node, r.key, r)) => Held(claims[r.node][r.key][r.node])

\* In the books c, n has no room for a record of m, or for one more claimant.
Full(c, n, m, k) == c[n][k][m] = NoClaim /\ Cardinality(PeerRecords(n, c[n])) >= Cap

\* The last record of m is on its way to n, or was kept, or found no room.
Told(q, c, s, n, m, k) ==
  \/ \E r \in Claim : Latest(s, m, k, r) /\ (Sends(q, m, n, r) \/ c[n][k][m] = r)
  \/ Full(c, n, m, k)

\* This incarnation of m has told n nothing about k, nor anybody who relays.
Unheard(q, c, n, m, k) ==
  /\ c[n][k][m] = NoClaim \/ c[n][k][m].epoch < epoch[m]
  /\ \A a \in Node, b \in Node \ {m} : \A r \in Claim :
       (Sends(q, a, b, r) /\ r.node = m /\ r.key = k) => r.epoch < epoch[m]

\* n has been told what m said last about k, or has heard nothing of it, or
\* has lost m for good.
InStep(q, c, s, n, m, k) ==
  \/ ~Reaches(m, n) /\ "connect" \notin Traffic
  \/ Reaches(m, n) /\ Told(q, c, s, n, m, k)
  \/ Unheard(q, c, n, m, k)

AllInStep(q, c, s) == \A n, m \in Node, k \in Key : n # m => InStep(q, c, s, n, m, k)
Synced == AllInStep(net, claims, claimSeq)

HInv ==
  /\ TypeOK /\ Ordered /\ Agree /\ ClaimsSound
  /\ Hellos /\ HeardOf /\ Fresh /\ LastHeld /\ Synced

LEMMA HolderInit == Init => HInv
<1> SUFFICES ASSUME Init PROVE HInv
  OBVIOUS
<1>1. TypeOK
  BY InitType
<1>2. ASSUME NEW r PROVE ~Copy(r)
  <2>1. ~Keeps(claims, r)
    BY DEF Init, Keeps
  <2>2. ~Carries(net, r)
    BY DEF Init, Carries
  <2> QED BY <2>1, <2>2 DEF Copy
<1>3. \A n, m \in Node : net[n][m] = <<>>
  BY DEF Init
<1>4. \A n, m \in Node : epoch[m] = 1 /\ peers[n][m] \in {Stranger, [linked |-> TRUE, proved |-> TRUE, epoch |-> 1]}
  BY DEF Init
<1>5. Ordered /\ Agree /\ LastHeld /\ Backed
  BY <1>2 DEF Ordered, Agree, LastHeld, Backed
<1>6. \A n \in Node, k \in Key, m \in Node : claims[n][k][m] = NoClaim
  BY DEF Init
<1>7. ClaimsSound
  BY <1>5, <1>6 DEF ClaimsSound, Filed
<1>8. Hellos
  BY <1>3 DEF Hellos
<1>9. HeardOf
  BY <1>4 DEF HeardOf, Stranger
<1>10. Fresh
  BY <1>3, <1>4 DEF Fresh, Opens, Reaches, Linked, Stranger
<1>11. Synced
  BY <1>3, <1>6 DEF Synced, AllInStep, InStep, Unheard, Sends
<1> QED BY <1>1, <1>5, <1>7, <1>8, <1>9, <1>10, <1>11 DEF HInv

LEMMA HolderHolds == HInv => HolderIsBacked
<1> SUFFICES ASSUME HInv, NEW n \in Node, NEW m \in Node, NEW k \in Key,
                    n # m, m \in Owners(n, k), Linked(m, n), ~Opens(n, m), ~Opens(m, n),
                    ~Held(claims[m][k][m])
             PROVE  \E r \in OnWire : r.node = m /\ r.key = k /\ Newer(r, claims[n][k][m])
  BY DEF HolderIsBacked
<1> DEFINE rec == claims[n][k][m]
<1>1. /\ Held(rec) /\ Linked(n, m) /\ rec.epoch >= peers[n][m].epoch
  BY DEF Owners, OwnersIn, ClaimAuthoritative
<1>2. Reaches(n, m) /\ Reaches(m, n)
  BY <1>1 DEF Reaches
<1>3. /\ Copy(rec) /\ rec \in Claim /\ rec.node = m /\ rec.key = k /\ rec.active
      /\ rec.epoch <= epoch[m] /\ rec.epoch \in Nat /\ epoch[m] \in Nat /\ rec # NoClaim
  <2>1. Copy(rec) /\ rec # NoClaim /\ rec.active
    BY <1>1 DEF Held, Copy, Keeps
  <2>2. rec.node = m /\ rec.key = k
    BY <2>1 DEF HInv, ClaimsSound, Filed
  <2>3. rec \in Claim /\ rec.epoch <= epoch[m] /\ epoch[m] \in Nat
    BY <2>1, <2>2 DEF HInv, Ordered, TypeOK
  <2> QED BY <2>1, <2>2, <2>3 DEF Claim
<1>4. rec.epoch = epoch[m]
  <2>1. peers[n][m].epoch = epoch[m]
    BY <1>2 DEF HInv, Fresh
  <2> QED BY <1>1, <1>3, <2>1
<1> HIDE DEF rec
<1>5. rec.seq # claimSeq[m][k]
  <2> SUFFICES ASSUME rec.seq = claimSeq[m][k] PROVE FALSE
    OBVIOUS
  <2>1. Latest(claimSeq, rec.node, rec.key, rec)
    BY <1>3, <1>4 DEF Latest
  <2> QED BY <1>3, <2>1 DEF HInv, LastHeld
<1>6. InStep(net, claims, claimSeq, n, m, k)
  BY DEF HInv, Synced, AllInStep
<1>7. ~Unheard(net, claims, n, m, k) /\ ~Full(claims, n, m, k)
  BY <1>3, <1>4 DEF Unheard, Full, rec
<1>8. PICK r \in Claim : Latest(claimSeq, m, k, r) /\ (Sends(net, m, n, r) \/ rec = r)
  BY <1>2, <1>6, <1>7 DEF InStep, Told, rec
<1>9. Sends(net, m, n, r)
  BY <1>5, <1>8 DEF Latest
<1>10. Carries(net, r)
  BY <1>9 DEF Sends, Carries
<1>11. r \in OnWire
  BY <1>10, WireIsWire
<1>12. Newer(r, rec)
  <2>1. rec.seq <= claimSeq[m][k]
    BY <1>3, <1>4 DEF HInv, Ordered
  <2>2. r.seq = claimSeq[m][k] /\ r.epoch = rec.epoch /\ r.seq \in Nat /\ rec.seq \in Nat
    BY <1>3, <1>4, <1>8 DEF Latest, Claim
  <2> QED BY <2>1, <2>2, <1>5 DEF Newer
<1> QED BY <1>8, <1>11, <1>12 DEF rec, Latest

\* A step of the nodes as they are: nobody restarts, no hello comes or goes,
\* and a link is let go only where its other side is gone.
Steady ==
  /\ epoch' = epoch /\ SameHellos(net', net)
  /\ \A a, b \in Node :
       /\ peers'[a][b].epoch \in {peers[a][b].epoch, epoch[b]}
       /\ Linked(a, b)' # Linked(a, b) => ~Linked(a, b)' /\ a # b /\ ~Linked(b, a) /\ ~Opens(a, b)

LEMMA SteadyLinks ==
  ASSUME TypeOK, TypeOK', Hellos, HeardOf, Fresh, Steady
  PROVE  /\ Hellos' /\ HeardOf' /\ Fresh'
         /\ \A a, b \in Node : Reaches(a, b)' <=> Reaches(a, b)
<1>0. /\ \A a, b \in Node : net[a][b] \in Seq(Message) /\ net'[a][b] \in Seq(Message)
      /\ epoch' = epoch /\ \A a \in Node : epoch[a] \in Nat
      /\ \A a, b \in Node : peers[a][b].epoch \in Nat
  BY PeerType DEF TypeOK, Steady
<1>1. ASSUME NEW a \in Node, NEW b \in Node
      PROVE  /\ Opens(a, b)' <=> Opens(a, b)
             /\ Opens(a, b) => Head(net'[a][b]) = Head(net[a][b])
  <2>1. ASSUME Opens(a, b)' PROVE Opens(a, b)
    <3>1. net'[a][b] # <<>> /\ Head(net'[a][b]).t = "hello"
      BY <2>1 DEF Opens
    <3>2. 1 \in DOMAIN net'[a][b] /\ Head(net'[a][b]) = net'[a][b][1]
      BY <1>0, <3>1
    <3>3. 1 \in DOMAIN net[a][b] /\ net'[a][b][1] = net[a][b][1]
      BY <3>1, <3>2 DEF Steady, SameHellos
    <3> QED BY <1>0, <3>1, <3>2, <3>3 DEF Opens
  <2>2. ASSUME Opens(a, b) PROVE Opens(a, b)' /\ Head(net'[a][b]) = Head(net[a][b])
    <3>1. net'[a][b] # <<>> /\ Head(net'[a][b]) = Head(net[a][b]) /\ Head(net[a][b]).t = "hello"
      BY <2>2 DEF Opens, Steady, SameHellos
    <3> QED BY <3>1 DEF Opens
  <2> QED BY <2>1, <2>2
<1>2. ASSUME NEW a \in Node, NEW b \in Node
      PROVE  Reaches(a, b)' <=> Reaches(a, b)
  <2>1. /\ Linked(a, b)' # Linked(a, b) => ~Linked(a, b)' /\ a # b /\ ~Linked(b, a) /\ ~Opens(a, b)
        /\ Linked(b, a)' # Linked(b, a) => ~Linked(b, a)' /\ ~Linked(a, b) /\ ~Opens(b, a)
    BY DEF Steady
  <2>2. /\ Linked(a, b) \in BOOLEAN /\ Linked(a, b)' \in BOOLEAN
        /\ Linked(b, a) \in BOOLEAN /\ Linked(b, a)' \in BOOLEAN
    <3>1. peers[a][b] \in Peer /\ peers[b][a] \in Peer /\ peers'[a][b] \in Peer /\ peers'[b][a] \in Peer
      BY DEF TypeOK
    <3> QED BY <3>1 DEF Peer, Linked
  <2> QED BY <1>1, <2>1, <2>2 DEF Reaches
<1>3. Hellos'
  BY <1>0 DEF Hellos, Steady, SameHellos
<1>4. HeardOf'
  <2>1. ASSUME NEW a \in Node, NEW b \in Node PROVE peers'[a][b].epoch <= epoch'[b]
    BY <1>0 DEF HeardOf, Steady
  <2> QED BY <2>1 DEF HeardOf
<1>5. ASSUME NEW a \in Node, NEW b \in Node, a # b
      PROVE  /\ Reaches(a, b)' => peers'[a][b].epoch = epoch'[b]
             /\ (Opens(b, a)' /\ (Opens(a, b)' \/ Linked(b, a)')) => Msg(a, b)'.epoch = epoch'[b]
  <2>1. ASSUME Reaches(a, b)' PROVE peers'[a][b].epoch = epoch'[b]
    BY <1>0, <1>2, <1>5, <2>1 DEF Fresh, Steady
  <2>2. ASSUME Opens(b, a)', Opens(a, b)' \/ Linked(b, a)' PROVE Msg(a, b)'.epoch = epoch'[b]
    <3>1. Opens(b, a) /\ Head(net'[b][a]) = Head(net[b][a])
      BY <1>1, <2>2
    <3>2. Opens(a, b) \/ Linked(b, a)
      <4>1. CASE Linked(b, a)' = Linked(b, a)
        BY <1>1, <2>2, <4>1
      <4>2. CASE Linked(b, a)' # Linked(b, a)
        BY <1>1, <2>2, <4>2 DEF Steady
      <4> QED BY <4>1, <4>2
    <3>3. Msg(a, b).epoch = epoch[b]
      BY <1>5, <3>1, <3>2 DEF Fresh
    <3> QED BY <1>0, <3>1, <3>3 DEF Msg
  <2> QED BY <2>1, <2>2
<1>6. Fresh'
  BY <1>5 DEF Fresh
<1> QED BY <1>2, <1>3, <1>4, <1>6

\* Steps that leave peers and epoch alone, and keep the hellos.
LEMMA SteadyWires ==
  ASSUME TypeOK, UNCHANGED <<epoch, peers>>, SameHellos(net', net)
  PROVE  Steady
BY DEF Steady, Linked

LEMMA SameHellosRefl == SameHellos(net, net)
BY DEF SameHellos

\* Reading anything but a hello, and writing claims and answers.
LEMMA AnnounceHellos ==
  ASSUME TypeOK, NEW q \in Wire, NEW n \in Node, NEW k \in Key, NEW b \in BOOLEAN
  PROVE  SameHellos(Announce(q, n, k, b), q)
<1> DEFINE x == WorkClaim(Minted(n, k, b))
<1>1. x \in Message /\ x.t # "hello"
  BY MintedType, MessageTypes DEF WorkClaim
<1>2. Announce(q, n, k, b) = Broadcast(q, n, <<x>>)
  BY DEF Announce
<1> HIDE DEF x
<1>3. Adds(Broadcast(q, n, <<x>>), q, x)
  BY <1>1, BroadcastAdds
<1> QED BY <1>1, <1>2, <1>3, AddsHellos

LEMMA RelayHellos ==
  ASSUME NEW q \in Wire, NEW n \in Node, NEW rec \in Claim
  PROVE  SameHellos(Broadcast(q, n, <<WorkClaim(rec)>>), q)
<1> DEFINE x == WorkClaim(rec)
<1>1. x \in Message /\ x.t # "hello"
  BY MessageTypes DEF WorkClaim
<1> HIDE DEF x
<1>2. Adds(Broadcast(q, n, <<x>>), q, x)
  BY <1>1, BroadcastAdds
<1>3. SameHellos(Broadcast(q, n, <<x>>), q)
  BY <1>1, <1>2, AddsHellos
<1> QED BY <1>3 DEF x

LEMMA ReplyHellos ==
  ASSUME NEW q \in Wire, NEW n \in Node, NEW m \in Node, NEW x \in Message, x.t # "hello"
  PROVE  SameHellos(Reply(q, n, m, x), q)
BY ReplyAdds, AddsHellos

\* An announcement reaches whom its sender reaches, and nobody else.
LEMMA AnnounceSends ==
  ASSUME TypeOK, NEW q \in Wire, NEW n \in Node, NEW k \in Key, NEW b \in BOOLEAN,
         NEW a \in Node, NEW c \in Node, NEW r
  PROVE  Sends(Announce(q, n, k, b), a, c, r)
           <=> Sends(q, a, c, r) \/ (r = Minted(n, k, b) /\ a = n /\ Reaches(n, c))
BY MintedType, BroadcastSends DEF Announce

LEMMA ReplySends ==
  ASSUME NEW q \in Wire, NEW n \in Node, NEW m \in Node, NEW x \in Message, x.t # "work-claim",
         NEW a \in Node, NEW b \in Node, NEW r
  PROVE  Sends(Reply(q, n, m, x), a, b, r) <=> Sends(q, a, b, r)
<1>1. Adds(Reply(q, n, m, x), q, x)
  BY ReplyAdds
<1> QED BY <1>1, AddsSends

\* Where neither the claims on the wires nor those kept of others change.
LEMMA StillInStep ==
  ASSUME NEW q, NEW c, NEW w, NEW d, NEW s, AllInStep(q, c, s),
         \A x, y \in Node, j \in Key : x # y => d[x][j][y] = c[x][j][y],
         \A a, b \in Node, r \in Claim : Sends(w, a, b, r) <=> Sends(q, a, b, r)
  PROVE  AllInStep(w, d, s)
<1> SUFFICES ASSUME NEW x \in Node, NEW y \in Node, NEW j \in Key, x # y PROVE InStep(w, d, s, x, y, j)
  BY DEF AllInStep
<1>1. InStep(q, c, s, x, y, j)
  BY DEF AllInStep
<1>2. PeerRecords(x, d[x]) = PeerRecords(x, c[x])
  BY DEF PeerRecords
<1>3. Full(c, x, y, j) => Full(d, x, y, j)
  BY <1>2 DEF Full
<1>4. Told(q, c, s, x, y, j) => Told(w, d, s, x, y, j)
  BY <1>3 DEF Told
<1>5. Unheard(q, c, x, y, j) => Unheard(w, d, x, y, j)
  BY DEF Unheard
<1> QED BY <1>1, <1>4, <1>5 DEF InStep

\* On top of the wire q and the books c, n has minted a record and sent it.
Emits(q, c, n, k, b) ==
  /\ claimSeq' = [claimSeq EXCEPT ![n][k] = claimSeq[n][k] + 1]
  /\ \A x, y \in Node, j \in Key : x # y => claims'[x][j][y] = c[x][j][y]
  /\ \A a, d \in Node, r \in Claim :
       Sends(net', a, d, r) <=> Sends(q, a, d, r) \/ (r = Minted(n, k, b) /\ a = n /\ Reaches(n, d))

\* A node that mints a record tells it to whom it reaches; whom it does not
\* reach hears of it from nobody.
LEMMA EmitInStep ==
  ASSUME TypeOK, LinksLast, NEW q, NEW c, AllInStep(q, c, claimSeq),
         NEW n \in Node, NEW k \in Key, NEW b \in BOOLEAN, Emits(q, c, n, k, b)
  PROVE  AllInStep(net', claims', claimSeq')
<1> SUFFICES ASSUME NEW x \in Node, NEW y \in Node, NEW j \in Key, x # y
             PROVE  InStep(net', claims', claimSeq', x, y, j)
  BY DEF AllInStep
<1>1. InStep(q, c, claimSeq, x, y, j)
  BY DEF AllInStep
<1>2. /\ Minted(n, k, b) \in Claim /\ Minted(n, k, b).node = n /\ Minted(n, k, b).key = k
      /\ Minted(n, k, b).epoch = epoch[n] /\ Minted(n, k, b).seq = claimSeq[n][k] + 1
  BY MintedType DEF Minted
<1>3. claimSeq \in [Node -> [Key -> Seqno]]
  BY DEF TypeOK
<1> USE DEF Emits
<1>4. CASE y = n /\ j = k
  <2>1. CASE Reaches(n, x)
    <3>1. claimSeq'[n][k] = claimSeq[n][k] + 1
      BY <1>3
    <3>2. Latest(claimSeq', n, k, Minted(n, k, b)) /\ Sends(net', n, x, Minted(n, k, b))
      BY <1>2, <2>1, <3>1 DEF Latest
    <3> QED BY <1>2, <1>4, <2>1, <3>2 DEF InStep, Told
  <2>2. CASE ~Reaches(n, x) /\ "connect" \notin Traffic
    BY <1>4, <2>2 DEF InStep
  <2>3. CASE ~Reaches(n, x) /\ "connect" \in Traffic
    <3>1. Unheard(q, c, x, n, k)
      BY <1>1, <1>4, <2>3 DEF InStep
    <3>2. ASSUME NEW d \in Node \ {n} PROVE ~Reaches(n, d)
      BY <1>4, <2>3 DEF LinksLast
    <3>3. Unheard(net', claims', x, n, k)
      BY <1>4, <3>1, <3>2 DEF Unheard
    <3> QED BY <1>4, <3>3 DEF InStep
  <2> QED BY <2>1, <2>2, <2>3
<1>5. CASE ~(y = n /\ j = k)
  <2>1. claimSeq'[y][j] = claimSeq[y][j]
    BY <1>3, <1>5
  <2>2. PeerRecords(x, claims'[x]) = PeerRecords(x, c[x])
    BY DEF PeerRecords
  <2>3. Told(q, c, claimSeq, x, y, j) => Told(net', claims', claimSeq', x, y, j)
    BY <2>1, <2>2 DEF Told, Full, Latest
  <2>4. Unheard(q, c, x, y, j) => Unheard(net', claims', x, y, j)
    BY <1>2, <1>5 DEF Unheard
  <2> QED BY <1>1, <2>3, <2>4 DEF InStep
<1> QED BY <1>4, <1>5

\* What is known of the claim a node reads, and of the one it has.
LEMMA ReadOrder ==
  ASSUME TypeOK, Ordered, Agree, ClaimsSound, NEW n \in Node, NEW m \in Node,
         Reads(n, m, "work-claim"), NEW rec, rec = Msg(n, m).claim, NEW cur, cur = claims[n][rec.key][rec.node]
  PROVE  /\ rec \in Claim /\ rec.node \in Node /\ rec.key \in Key /\ rec # NoClaim
         /\ rec.epoch <= epoch[rec.node] /\ Sends(net, m, n, rec)
         /\ (cur # NoClaim /\ Latest(claimSeq, rec.node, rec.key, rec) /\ ~Newer(rec, cur)) => cur = rec
         /\ (cur # NoClaim /\ Latest(claimSeq, rec.node, rec.key, cur)) => ~Newer(rec, cur)
<1>1. net \in Wire /\ net[m][n] \in Seq(Message)
  BY DEF TypeOK, Wire
<1>2. Msg(n, m) \in Message /\ Msg(n, m).t = "work-claim" /\ Carries(net, rec)
  BY <1>1, ReadType, CarriesRead
<1>3. rec \in Claim /\ rec.node \in Node /\ rec.key \in Key /\ rec # NoClaim /\ Copy(rec)
  BY <1>2, NoClaimAssumption DEF Message, Claim, Copy
<1>4. Sends(net, m, n, rec)
  <2>1. 1 \in DOMAIN net[m][n] /\ net[m][n][1] = Msg(n, m)
    BY <1>1 DEF Reads, Msg
  <2> QED BY <1>2, <2>1 DEF Sends
<1>5. /\ rec.epoch \in Nat /\ rec.seq \in Nat /\ rec.epoch <= epoch[rec.node]
      /\ rec.epoch = epoch[rec.node] => rec.seq <= claimSeq[rec.node][rec.key]
      /\ epoch[rec.node] \in Nat /\ claimSeq[rec.node][rec.key] \in Seqno
  <2>1. rec.epoch \in Nat /\ rec.seq \in Nat
    BY <1>3 DEF Claim
  <2>2. /\ rec.epoch <= epoch[rec.node]
        /\ rec.epoch = epoch[rec.node] => rec.seq <= claimSeq[rec.node][rec.key]
    BY <1>3 DEF Ordered
  <2>3. epoch[rec.node] \in Nat /\ claimSeq[rec.node][rec.key] \in Seqno
    BY <1>3 DEF TypeOK
  <2> QED BY <2>1, <2>2, <2>3
<1>6. ASSUME cur # NoClaim
      PROVE  /\ Copy(cur) /\ cur.node = rec.node /\ cur.key = rec.key
             /\ cur.epoch \in Nat /\ cur.seq \in Nat /\ cur.epoch <= epoch[rec.node]
             /\ cur.epoch = epoch[rec.node] => cur.seq <= claimSeq[rec.node][rec.key]
  <2>1. Copy(cur)
    BY <1>3, <1>6 DEF Copy, Keeps
  <2>2. cur.node = rec.node /\ cur.key = rec.key
    BY <1>3, <1>6 DEF ClaimsSound, Filed
  <2>3. /\ cur \in Claim /\ cur.epoch <= epoch[cur.node]
        /\ cur.epoch = epoch[cur.node] => cur.seq <= claimSeq[cur.node][cur.key]
    BY <2>1 DEF Ordered
  <2>4. cur.epoch \in Nat /\ cur.seq \in Nat
    BY <2>3 DEF Claim
  <2> QED BY <2>1, <2>2, <2>3, <2>4
<1>7. ASSUME cur # NoClaim, Latest(claimSeq, rec.node, rec.key, rec), ~Newer(rec, cur) PROVE cur = rec
  <2>1. rec.epoch = epoch[rec.node] /\ rec.seq = claimSeq[rec.node][rec.key]
    BY <1>7 DEF Latest
  <2>2. /\ {rec.epoch, rec.seq, cur.epoch, cur.seq} \subseteq Nat
        /\ cur.epoch <= rec.epoch /\ (cur.epoch = rec.epoch => cur.seq <= rec.seq)
    BY <1>5, <1>6, <1>7, <2>1
  <2>3. ~Newer(cur, rec)
    BY <2>2 DEF Newer
  <2> QED BY <1>3, <1>6, <1>7, <2>3 DEF Agree
<1>8. ASSUME cur # NoClaim, Latest(claimSeq, rec.node, rec.key, cur) PROVE ~Newer(rec, cur)
  <2>1. cur.epoch = epoch[rec.node] /\ cur.seq = claimSeq[rec.node][rec.key]
    BY <1>8 DEF Latest
  <2>2. /\ {rec.epoch, rec.seq, cur.epoch, cur.seq} \subseteq Nat
        /\ rec.epoch <= cur.epoch /\ (rec.epoch = cur.epoch => rec.seq <= cur.seq)
    BY <1>5, <1>6, <1>8, <2>1
  <2> QED BY <2>2 DEF Newer
<1> QED BY <1>3, <1>4, <1>5, <1>7, <1>8

\* A claim that is not taken was there already, or finds no room.
LEMMA RefuseInStep ==
  ASSUME HInv, NEW n \in Node, NEW m \in Node, Reads(n, m, "work-claim"), NEW rec, rec = Msg(n, m).claim,
         rec.node = n \/ StoreRefuses(n, claims[n], rec)
  PROVE  AllInStep(Rest(n, m), claims, claimSeq)
<1>0. TypeOK /\ Ordered /\ Agree /\ ClaimsSound /\ net \in Wire /\ Synced
  BY DEF HInv, TypeOK, Wire
<1> SUFFICES ASSUME NEW x \in Node, NEW y \in Node, NEW j \in Key, x # y
             PROVE  InStep(Rest(n, m), claims, claimSeq, x, y, j)
  BY DEF AllInStep
<1>1. InStep(net, claims, claimSeq, x, y, j)
  BY <1>0 DEF Synced, AllInStep
<1> DEFINE cur == claims[n][rec.key][rec.node]
<1>2. /\ rec \in Claim /\ rec # NoClaim
      /\ (cur # NoClaim /\ Latest(claimSeq, rec.node, rec.key, rec) /\ ~Newer(rec, cur)) => cur = rec
  BY <1>0, ReadOrder
<1>3. \A a, b \in Node, r \in Claim :
        /\ Sends(Rest(n, m), a, b, r) => Sends(net, a, b, r)
        /\ Sends(net, a, b, r) => Sends(Rest(n, m), a, b, r) \/ (a = m /\ b = n /\ r = rec)
  BY <1>0, RestSends
<1>4. ASSUME NEW r \in Claim, Latest(claimSeq, y, j, r), Sends(net, y, x, r)
      PROVE  Sends(Rest(n, m), y, x, r) \/ claims[x][j][y] = r \/ Full(claims, x, y, j)
  <2> SUFFICES ASSUME y = m, x = n, r = rec PROVE claims[x][j][y] = r \/ Full(claims, x, y, j)
    BY <1>3, <1>4
  <2>1. rec.node = y /\ rec.key = j /\ cur = claims[x][j][y]
    BY <1>4 DEF Latest
  <2>2. StoreRefuses(n, claims[n], rec)
    BY <2>1
  <2>3. CASE cur # NoClaim
    BY <1>2, <1>4, <2>1, <2>2, <2>3 DEF StoreRefuses
  <2>4. CASE cur = NoClaim
    BY <2>1, <2>2, <2>4 DEF StoreRefuses, Full
  <2> QED BY <2>3, <2>4
<1>5. Told(net, claims, claimSeq, x, y, j) => Told(Rest(n, m), claims, claimSeq, x, y, j)
  BY <1>4 DEF Told
<1>6. Unheard(net, claims, x, y, j) => Unheard(Rest(n, m), claims, x, y, j)
  BY <1>3 DEF Unheard
<1> QED BY <1>1, <1>5, <1>6 DEF InStep

\* A claim that is taken is kept, and relayed by one who had not heard it.
LEMMA RelayInStep ==
  ASSUME HInv, NEW n \in Node, NEW m \in Node, Reads(n, m, "work-claim"), NEW rec, rec = Msg(n, m).claim,
         rec.node # n, ~StoreRefuses(n, claims[n], rec)
  PROVE  AllInStep(Broadcast(Rest(n, m), n, <<WorkClaim(rec)>>),
                   [claims EXCEPT ![n] = StoreClaim(n, claims[n], rec)], claimSeq)
<1> DEFINE w == Broadcast(Rest(n, m), n, <<WorkClaim(rec)>>)
           c == [claims EXCEPT ![n] = StoreClaim(n, claims[n], rec)]
           cur == claims[n][rec.key][rec.node]
<1>0. TypeOK /\ Ordered /\ Agree /\ ClaimsSound /\ net \in Wire /\ Synced /\ claims \in [Node -> Book]
  BY DEF HInv, TypeOK, Wire, Book
<1>1. /\ rec \in Claim /\ rec.node \in Node /\ rec.key \in Key /\ rec # NoClaim /\ Sends(net, m, n, rec)
      /\ (cur # NoClaim /\ Latest(claimSeq, rec.node, rec.key, cur)) => ~Newer(rec, cur)
  BY <1>0, ReadOrder
<1>2. /\ Rest(n, m) \in Wire
      /\ \A a, b \in Node, r \in Claim :
           /\ Sends(Rest(n, m), a, b, r) => Sends(net, a, b, r)
           /\ Sends(net, a, b, r) => Sends(Rest(n, m), a, b, r) \/ (a = m /\ b = n /\ r = rec)
  BY <1>0, RestSends, ReadType
<1>3. \A a, b \in Node, r \in Claim :
        Sends(w, a, b, r) <=> Sends(Rest(n, m), a, b, r) \/ (r = rec /\ a = n /\ Reaches(n, b))
  BY <1>1, <1>2, BroadcastSends
<1>4. \A x \in Node, j \in Key, y \in Node :
        c[x][j][y] = IF x = n /\ j = rec.key /\ y = rec.node THEN rec ELSE claims[x][j][y]
  <2>1. StoreClaim(n, claims[n], rec) = [claims[n] EXCEPT ![rec.key][rec.node] = rec]
    BY DEF StoreClaim
  <2> QED BY <1>0, <1>1, <2>1 DEF Book
<1>5. IF cur # NoClaim THEN Newer(rec, cur) ELSE ~(Cardinality(PeerRecords(n, claims[n])) >= Cap)
  BY DEF StoreRefuses
<1> HIDE DEF w, c
<1> SUFFICES ASSUME NEW x \in Node, NEW y \in Node, NEW j \in Key, x # y
             PROVE  InStep(w, c, claimSeq, x, y, j)
  BY DEF AllInStep, w, c
<1>6. InStep(net, claims, claimSeq, x, y, j)
  BY <1>0 DEF Synced, AllInStep
<1>7. ASSUME NEW r \in Claim, Latest(claimSeq, y, j, r), Sends(net, y, x, r)
      PROVE  Sends(w, y, x, r) \/ c[x][j][y] = r
  <2>1. CASE Sends(Rest(n, m), y, x, r)
    BY <1>3, <2>1
  <2>2. CASE y = m /\ x = n /\ r = rec
    <3>1. rec.node = y /\ rec.key = j
      BY <1>7, <2>2 DEF Latest
    <3> QED BY <1>4, <2>2, <3>1
  <2> QED BY <1>2, <1>7, <2>1, <2>2
<1>8. ASSUME NEW r \in Claim, Latest(claimSeq, y, j, r), claims[x][j][y] = r
      PROVE  c[x][j][y] = r
  <2> SUFFICES ASSUME x = n, j = rec.key, y = rec.node PROVE FALSE
    BY <1>4, <1>8
  <2>1. cur = r /\ cur # NoClaim /\ Latest(claimSeq, rec.node, rec.key, cur)
    BY <1>8, NoClaimAssumption
  <2> QED BY <1>1, <1>5, <2>1
<1>9. ASSUME Full(claims, x, y, j) PROVE Full(c, x, y, j)
  <2>1. CASE x # n
    <3>1. PeerRecords(x, c[x]) = PeerRecords(x, claims[x])
      BY <1>4, <2>1 DEF PeerRecords
    <3> QED BY <1>4, <1>9, <2>1, <3>1 DEF Full
  <2>2. CASE x = n
    <3>1. cur # NoClaim
      BY <1>5, <1>9, <2>2 DEF Full
    <3>2. c[n][j][y] = NoClaim
      BY <1>4, <1>9, <2>2, <3>1 DEF Full
    <3>3. PeerRecords(n, c[n]) = PeerRecords(n, claims[n])
      <4>1. ASSUME NEW p \in Key \X (Node \ {n})
            PROVE  c[n][p[1]][p[2]] # NoClaim <=> claims[n][p[1]][p[2]] # NoClaim
        BY <1>1, <1>4, <3>1
      <4> QED BY <4>1 DEF PeerRecords
    <3> QED BY <1>9, <2>2, <3>2, <3>3 DEF Full
  <2> QED BY <2>1, <2>2
<1>10. Told(net, claims, claimSeq, x, y, j) => Told(w, c, claimSeq, x, y, j)
  BY <1>7, <1>8, <1>9 DEF Told
<1>11. ASSUME Unheard(net, claims, x, y, j) PROVE Unheard(w, c, x, y, j)
  <2>1. ASSUME rec.node = y, rec.key = j PROVE rec.epoch < epoch[y]
    BY <1>1, <1>11, <2>1 DEF Unheard
  <2>2. c[x][j][y] = NoClaim \/ c[x][j][y].epoch < epoch[y]
    BY <1>4, <1>11, <2>1 DEF Unheard
  <2>3. ASSUME NEW a \in Node, NEW b \in Node \ {y}, NEW r \in Claim, Sends(w, a, b, r), r.node = y, r.key = j
        PROVE  r.epoch < epoch[y]
    BY <1>2, <1>3, <1>11, <2>1, <2>3 DEF Unheard
  <2> QED BY <2>2, <2>3 DEF Unheard
<1> QED BY <1>6, <1>10, <1>11 DEF InStep

\* n has minted a record and stored it in book, under its own name.
Books(n, k, b, book) ==
  /\ claimSeq' = [claimSeq EXCEPT ![n][k] = claimSeq[n][k] + 1]
  /\ \A x, y \in Node, j \in Key : x # y => claims'[x][j][y] = [claims EXCEPT ![n] = book][x][j][y]
  /\ \A x \in Node, j \in Key :
       claims'[x][j][x] = IF x = n /\ j = k THEN Minted(n, k, b) ELSE claims[x][j][x]

\* What a record of one's own does to the books: it is stored under one's own
\* name, and changes nothing that is known of others.
LEMMA EmitBooks ==
  ASSUME TypeOK, Ordered, ClaimsSound, NEW n \in Node, NEW k \in Key, NEW b \in BOOLEAN, NEW book \in Book,
         \A j \in Key : book[j][n] = claims[n][j][n], EmitClaim(n, k, b, book)
  PROVE  Books(n, k, b, book)
<1> DEFINE rec == Minted(n, k, b)
<1>1. /\ rec \in Claim /\ rec.node = n /\ rec.key = k
      /\ rec.epoch = epoch[n] /\ rec.seq = claimSeq[n][k] + 1
  BY MintedType DEF Minted
<1>2. /\ claims' = [claims EXCEPT ![n] = StoreClaim(n, book, rec)] /\ claims \in [Node -> Book]
      /\ claimSeq' = [claimSeq EXCEPT ![n][k] = claimSeq[n][k] + 1]
  BY <1>1 DEF EmitClaim, TypeOK, Book
<1>3. ~StoreRefuses(n, book, rec)
  <2> DEFINE cur == claims[n][k][n]
  <2>1. book[rec.key][rec.node] = cur
    BY <1>1
  <2>2. ASSUME cur # NoClaim PROVE Newer(rec, cur)
    <3>1. Copy(cur) /\ cur.node = n /\ cur.key = k
      BY <2>2 DEF Copy, Keeps, ClaimsSound, Filed
    <3>2. cur \in Claim /\ cur.epoch <= epoch[n] /\ (cur.epoch = epoch[n] => cur.seq <= claimSeq[n][k])
      BY <3>1 DEF Ordered
    <3>3. cur.epoch \in Nat /\ cur.seq \in Nat /\ epoch[n] \in Nat /\ claimSeq[n][k] \in Nat \cup {-1}
      BY <3>2 DEF Claim, TypeOK, Seqno
    <3> HIDE DEF cur, rec
    <3> QED BY <1>1, <3>2, <3>3 DEF Newer
  <2> HIDE DEF cur, rec
  <2> QED BY <1>1, <2>1, <2>2 DEF StoreRefuses
<1> HIDE DEF rec
<1>4. StoreClaim(n, book, rec) = [book EXCEPT ![k][n] = rec]
  BY <1>1, <1>3 DEF StoreClaim
<1>5. ASSUME NEW x \in Node, NEW y \in Node, NEW j \in Key
      PROVE  claims'[x][j][y] = IF x = n THEN (IF j = k /\ y = n THEN rec ELSE book[j][y]) ELSE claims[x][j][y]
  BY <1>2, <1>4 DEF Book
<1> QED BY <1>2, <1>5 DEF rec, Books

\* What becomes of the record a node keeps of its own: it stays while it is
\* held and no other is minted.
OwnKept(m, k) ==
  \/ claimSeq'[m][k] = claimSeq[m][k] /\ (claims'[m][k][m] = claims[m][k][m] \/ ~Held(claims[m][k][m]))
  \/ claimSeq'[m][k] = claimSeq[m][k] + 1 /\ \E b \in BOOLEAN : claims'[m][k][m] = Minted(m, k, b)
AllOwnKept == \A m \in Node, k \in Key : epoch'[m] = epoch[m] => OwnKept(m, k)

LEMMA OwnBooks == UNCHANGED <<claims, claimSeq>> => AllOwnKept
BY DEF AllOwnKept, OwnKept

LEMMA OwnEmits ==
  ASSUME TypeOK, Ordered, ClaimsSound, NEW n \in Node, NEW k \in Key, NEW b \in BOOLEAN, NEW book \in Book,
         \A j \in Key : book[j][n] = claims[n][j][n], EmitClaim(n, k, b, book)
  PROVE  AllOwnKept
<1>1. /\ claimSeq' = [claimSeq EXCEPT ![n][k] = claimSeq[n][k] + 1]
      /\ \A x \in Node, j \in Key :
           claims'[x][j][x] = IF x = n /\ j = k THEN Minted(n, k, b) ELSE claims[x][j][x]
  BY EmitBooks DEF Books
<1>2. claimSeq \in [Node -> [Key -> Seqno]]
  BY DEF TypeOK
<1>3. \A x \in Node, j \in Key :
        claimSeq'[x][j] = IF x = n /\ j = k THEN claimSeq[n][k] + 1 ELSE claimSeq[x][j]
  BY <1>1, <1>2
<1> QED BY <1>1, <1>3 DEF AllOwnKept, OwnKept

LEMMA LastHeldStep ==
  ASSUME TypeOK, [Next]_vars, Ordered, Agree, LastHeld, AllOwnKept
  PROVE  LastHeld'
<1> SUFFICES ASSUME NEW r, Copy(r)', r.active, Latest(claimSeq, r.node, r.key, r)'
             PROVE  Held(claims'[r.node][r.key][r.node])
  BY DEF LastHeld, Held
<1>1. Ordered' /\ Agree' /\ TypeOK'
  BY AgreeStep, NextType
<1>2. PICK m \in Node, k \in Key : r.node = m /\ r.key = k
  BY <1>1 DEF Ordered, Claim
<1>3. /\ r.epoch = epoch'[m] /\ r.seq = claimSeq'[m][k] /\ r \in Claim /\ r.seq \in Nat
      /\ epoch[m] \in Nat /\ claimSeq[m][k] \in Nat \cup {-1}
  BY <1>1, <1>2 DEF Latest, Ordered, Claim, TypeOK, Seqno
<1>4. ASSUME Copy(r) PROVE r.epoch <= epoch[m] /\ (r.epoch = epoch[m] => r.seq <= claimSeq[m][k])
  BY <1>2, <1>4 DEF Ordered
<1>5. epoch'[m] = epoch[m]
  <2>1. CASE Quiet \/ \E o \in Node, j \in Key, b \in BOOLEAN : Founds(o, j, b)
    BY <2>1 DEF Quiet, Founds, Mints
  <2>2. ASSUME NEW o \in Node, Restart(o), NoNewCopy, epoch'[m] # epoch[m] PROVE FALSE
    <3>1. epoch'[m] = epoch[m] + 1
      BY <2>2 DEF Restart, TypeOK
    <3>2. r.epoch <= epoch[m]
      BY <1>4, <2>2 DEF NoNewCopy
    <3> QED BY <1>3, <3>1, <3>2
  <2> QED BY <2>1, <2>2, CopySteps
<1>6. CASE claimSeq'[m][k] = claimSeq[m][k] /\ (claims'[m][k][m] = claims[m][k][m] \/ ~Held(claims[m][k][m]))
  <2>1. Copy(r)
    <3>1. CASE Quiet \/ \E o \in Node : NoNewCopy
      BY <3>1 DEF Quiet, NoNewCopy
    <3>2. ASSUME NEW o \in Node, NEW j \in Key, NEW b \in BOOLEAN, Founds(o, j, b), ~Copy(r) PROVE FALSE
      <4>1. r = Minted(o, j, b) /\ claimSeq' = [claimSeq EXCEPT ![o][j] = claimSeq[o][j] + 1]
        BY <3>2 DEF Founds, Mints
      <4>2. o = m /\ j = k
        BY <1>2, <4>1 DEF Minted
      <4>3. claimSeq'[m][k] = claimSeq[m][k] + 1
        BY <4>1, <4>2 DEF TypeOK
      <4> QED BY <1>3, <1>6, <4>3
    <3> QED BY <3>1, <3>2, CopySteps
  <2>2. Latest(claimSeq, m, k, r)
    BY <1>2, <1>3, <1>5, <1>6 DEF Latest
  <2>3. Held(claims[m][k][m])
    BY <1>2, <2>1, <2>2 DEF LastHeld
  <2> QED BY <1>2, <1>6, <2>3
<1>7. ASSUME NEW b \in BOOLEAN, claimSeq'[m][k] = claimSeq[m][k] + 1, claims'[m][k][m] = Minted(m, k, b)
      PROVE  Held(claims'[m][k][m])
  <2>0. PICK own : own = claims'[m][k][m]
    OBVIOUS
  <2>1. /\ own \in Claim /\ own # NoClaim /\ own.node = m /\ own.key = k
        /\ own.epoch = epoch[m] /\ own.seq = claimSeq[m][k] + 1
    BY <1>7, <2>0, MintedType, NoClaimAssumption DEF Minted
  <2>2. Copy(own)'
    BY <2>0, <2>1 DEF Copy, Keeps
  <2>3. ~Newer(r, own) /\ ~Newer(own, r)
    BY <1>3, <1>5, <1>7, <2>1 DEF Newer
  <2>4. r = own
    BY <1>1, <1>2, <2>1, <2>2, <2>3 DEF Agree
  <2> QED BY <2>0, <2>1, <2>4 DEF Held
<1>8. OwnKept(m, k)
  BY <1>5 DEF AllOwnKept
<1> QED BY <1>2, <1>6, <1>7, <1>8 DEF OwnKept

\* A step of the nodes as they are that keeps everybody told.
Routine == Steady /\ AllOwnKept /\ AllInStep(net', claims', claimSeq')

\* No claim is made, kept of another or sent.
LEMMA IdleRoutine ==
  ASSUME TypeOK, Synced, Steady, AllOwnKept, UNCHANGED claimSeq,
         \A x, y \in Node, j \in Key : x # y => claims'[x][j][y] = claims[x][j][y],
         \A a, b \in Node, r \in Claim : Sends(net', a, b, r) <=> Sends(net, a, b, r)
  PROVE  Routine
<1>1. AllInStep(net', claims', claimSeq)
  BY StillInStep DEF Synced
<1> QED BY <1>1 DEF Routine

\* A claim is emitted on top of the wire q.
LEMMA EmitRoutine ==
  ASSUME HInv, LinksLast, UNCHANGED <<epoch, peers>>, NEW n \in Node, NEW k \in Key, NEW b \in BOOLEAN,
         EmitClaim(n, k, b, claims[n]), NEW q \in Wire, SameHellos(q, net),
         \A a, d \in Node, r \in Claim : Sends(q, a, d, r) <=> Sends(net, a, d, r),
         SameHellos(net', Announce(q, n, k, b)),
         \A a, d \in Node, r \in Claim : Sends(net', a, d, r) <=> Sends(Announce(q, n, k, b), a, d, r)
  PROVE  Routine
<1>0. TypeOK /\ Ordered /\ ClaimsSound /\ Synced /\ claims \in [Node -> Book]
  BY DEF HInv, TypeOK, Book
<1>1. Steady
  <2>1. SameHellos(Announce(q, n, k, b), q)
    BY <1>0, AnnounceHellos
  <2>2. SameHellos(net', q)
    BY <2>1, HellosCompose
  <2>3. SameHellos(net', net)
    BY <2>2, HellosCompose
  <2> QED BY <1>0, <2>3, SteadyWires
<1>2. claims[n] \in Book
  BY <1>0
<1>3. AllOwnKept
  BY <1>0, <1>2, OwnEmits
<1>4. /\ claimSeq' = [claimSeq EXCEPT ![n][k] = claimSeq[n][k] + 1]
      /\ \A x, y \in Node, j \in Key : x # y => claims'[x][j][y] = [claims EXCEPT ![n] = claims[n]][x][j][y]
  BY <1>0, <1>2, EmitBooks DEF Books
<1>5. [claims EXCEPT ![n] = claims[n]] = claims
  BY <1>0
<1>6. \A a, d \in Node, r \in Claim :
        Sends(net', a, d, r) <=> Sends(q, a, d, r) \/ (r = Minted(n, k, b) /\ a = n /\ Reaches(n, d))
  BY <1>0, AnnounceSends
<1>7. AllInStep(q, claims, claimSeq)
  BY <1>0, StillInStep DEF Synced
<1>8. AllInStep(net', claims', claimSeq')
  <2>1. Emits(q, claims, n, k, b)
    BY <1>4, <1>5, <1>6 DEF Emits
  <2> QED BY <1>0, <1>7, <2>1, EmitInStep
<1> QED BY <1>1, <1>3, <1>8 DEF Routine

LEMMA AnnounceRoutine ==
  ASSUME HInv, LinksLast, UNCHANGED <<epoch, peers>>, NEW n \in Node, NEW k \in Key, NEW b \in BOOLEAN,
         EmitClaim(n, k, b, claims[n]), net' = Announce(net, n, k, b)
  PROVE  Routine
<1>1. net \in Wire /\ SameHellos(net, net) /\ SameHellos(net', Announce(net, n, k, b))
  BY SameHellosRefl DEF HInv, TypeOK, Wire, SameHellos
<1> QED BY <1>1, EmitRoutine

LEMMA TryRoutine ==
  ASSUME HInv, LinksLast, NEW n \in Node, NEW k \in Key, NEW left \in SUBSET Node, TryFrom(n, k, left),
         UNCHANGED <<epoch, peers>>
  PROVE  Routine
<1>0. TypeOK /\ Synced /\ net \in Wire
  BY DEF HInv, TypeOK, Wire
<1>1. ASSUME NoSpawn, net' = net PROVE Routine
  <2>1. Steady
    BY <1>0, <1>1, SameHellosRefl, SteadyWires
  <2> QED BY <1>0, <1>1, <2>1, OwnBooks, IdleRoutine DEF NoSpawn
<1>2. ASSUME NEW e \in Node, NEW j \in Nat, NoSpawn, net' = Reply(net, n, e, Job(k, j)) PROVE Routine
  <2>1. Job(k, j) \in Message /\ Job(k, j).t # "work-claim" /\ Job(k, j).t # "hello"
    BY MessageTypes DEF Job
  <2>2. SameHellos(net', net) /\ \A a, b \in Node, r \in Claim : Sends(net', a, b, r) <=> Sends(net, a, b, r)
    BY <1>0, <1>2, <2>1, ReplyHellos, ReplySends
  <2>3. Steady
    BY <1>0, <2>2, SteadyWires
  <2> QED BY <1>0, <1>2, <2>2, <2>3, OwnBooks, IdleRoutine DEF NoSpawn
<1>3. ASSUME Spawn(n, k), net' = Announce(net, n, k, TRUE) PROVE Routine
  BY <1>3, AnnounceRoutine DEF Spawn
<1>4. PICK passed \in SUBSET PassedOver(n, left) : TryFrom(n, k, left)!(passed)
  BY DEF TryFrom
<1>5. jobs + 1 \in Nat
  BY <1>0 DEF TypeOK
<1> QED BY <1>1, <1>2, <1>3, <1>4, <1>5

\* A node takes a job, or declines it, and answers.
LEMMA JobRoutine ==
  ASSUME HInv, LinksLast, NEW n \in Node, NEW m \in Node, OnJob(n, m)
  PROVE  Routine
<1>0. TypeOK /\ Synced /\ Hellos /\ net \in Wire /\ Reads(n, m, "dispatch") /\ UNCHANGED <<epoch, peers>>
  BY DEF HInv, TypeOK, Wire, OnJob
<1>1. /\ Rest(n, m) \in Wire /\ Msg(n, m) \in Message /\ Msg(n, m).t = "dispatch"
      /\ SameHellos(Rest(n, m), net)
      /\ \A a, b \in Node, r \in Claim : Sends(Rest(n, m), a, b, r) <=> Sends(net, a, b, r)
  BY <1>0, ReadType, RestHellos, RestSends
<1>2. PICK k \in Key, j \in Nat : k = Msg(n, m).key /\ j = Msg(n, m).job
  BY <1>1 DEF Message
<1>3. ASSUME NEW b \in BOOLEAN, NEW q \in Wire
      PROVE  /\ SameHellos(Reply(q, n, m, JobStatus(j, b)), q)
             /\ \A a, d \in Node, r \in Claim : Sends(Reply(q, n, m, JobStatus(j, b)), a, d, r) <=> Sends(q, a, d, r)
  <2>1. JobStatus(j, b) \in Message /\ JobStatus(j, b).t # "work-claim" /\ JobStatus(j, b).t # "hello"
    BY <1>2, MessageTypes DEF JobStatus
  <2> QED BY <2>1, ReplyHellos, ReplySends
<1>4. ASSUME NEW b \in BOOLEAN, NoSpawn, net' = Reply(Rest(n, m), n, m, JobStatus(j, b)) PROVE Routine
  <2>1. SameHellos(net', Rest(n, m)) /\ \A a, d \in Node, r \in Claim : Sends(net', a, d, r) <=> Sends(Rest(n, m), a, d, r)
    BY <1>1, <1>3, <1>4
  <2>2. SameHellos(net', net)
    BY <1>1, <2>1, HellosCompose
  <2>3. Steady
    BY <1>0, <2>2, SteadyWires
  <2> QED BY <1>0, <1>1, <1>4, <2>1, <2>3, OwnBooks, IdleRoutine DEF NoSpawn
<1>5. ASSUME Spawn(n, k),
             net' = Reply(Announce(Rest(n, m), n, k, TRUE), n, m, JobStatus(j, TRUE))
      PROVE  Routine
  <2>1. Announce(Rest(n, m), n, k, TRUE) \in Wire
    BY <1>0, <1>1, <1>2, AnnounceType
  <2>2. /\ SameHellos(net', Announce(Rest(n, m), n, k, TRUE))
        /\ \A a, d \in Node, r \in Claim :
             Sends(net', a, d, r) <=> Sends(Announce(Rest(n, m), n, k, TRUE), a, d, r)
    BY <1>3, <1>5, <2>1
  <2>3. EmitClaim(n, k, TRUE, claims[n])
    BY <1>5 DEF Spawn
  <2> QED BY <1>0, <1>1, <1>2, <2>2, <2>3, EmitRoutine
<1>6. \/ \E b \in BOOLEAN : NoSpawn /\ net' = Reply(Rest(n, m), n, m, JobStatus(j, b))
      \/ /\ Spawn(n, k)
         /\ net' = Reply(Announce(Rest(n, m), n, k, TRUE), n, m, JobStatus(j, TRUE))
  BY <1>2 DEF OnJob
<1> QED BY <1>4, <1>5, <1>6

\* A claim is read: refused, or relayed, or relayed and yielded to.
LEMMA ClaimRoutine ==
  ASSUME HInv, LinksLast, NEW n \in Node, NEW m \in Node, OnWorkClaim(n, m)
  PROVE  Routine
<1> DEFINE rec == Msg(n, m).claim
           k == rec.key
           book == StoreClaim(n, claims[n], rec)
           relayed == Broadcast(Rest(n, m), n, <<WorkClaim(rec)>>)
           c == [claims EXCEPT ![n] = book]
<1>0. /\ TypeOK /\ Synced /\ Hellos /\ Ordered /\ Agree /\ ClaimsSound /\ net \in Wire /\ claims \in [Node -> Book]
      /\ Reads(n, m, "work-claim") /\ UNCHANGED <<epoch, peers>>
  BY DEF HInv, TypeOK, Wire, Book, OnWorkClaim
<1>1. /\ Rest(n, m) \in Wire /\ SameHellos(Rest(n, m), net)
      /\ rec \in Claim /\ k \in Key
  BY <1>0, ReadType, RestHellos, ReadOrder
<1>2. \/ /\ rec.node = n \/ StoreRefuses(n, claims[n], rec)
         /\ NoEmit(n, claims[n]) /\ net' = Rest(n, m)
      \/ /\ rec.node # n /\ ~StoreRefuses(n, claims[n], rec)
         /\ \/ EmitClaim(n, k, FALSE, book) /\ net' = Announce(relayed, n, k, FALSE)
            \/ NoEmit(n, book) /\ net' = relayed
  BY DEF OnWorkClaim
<1>3. ASSUME rec.node = n \/ StoreRefuses(n, claims[n], rec), NoEmit(n, claims[n]), net' = Rest(n, m)
      PROVE  Routine
  <2>1. Steady
    BY <1>0, <1>1, <1>3, SteadyWires
  <2>2. UNCHANGED <<claims, claimSeq>>
    BY <1>0, <1>3 DEF NoEmit
  <2>3. AllInStep(Rest(n, m), claims, claimSeq)
    BY <1>0, <1>3, RefuseInStep
  <2> QED BY <1>3, <2>1, <2>2, <2>3, OwnBooks DEF Routine
<1>4. ASSUME rec.node # n, ~StoreRefuses(n, claims[n], rec)
      PROVE  /\ AllInStep(relayed, c, claimSeq) /\ SameHellos(relayed, net) /\ relayed \in Wire
             /\ book \in Book /\ \A j \in Key : book[j][n] = claims[n][j][n]
  <2>1. AllInStep(relayed, c, claimSeq)
    BY <1>0, <1>4, RelayInStep
  <2> HIDE DEF rec
  <2>2. SameHellos(relayed, Rest(n, m))
    BY <1>1, RelayHellos
  <2>3. <<WorkClaim(rec)>> \in Seq(Message)
    BY <1>1, MessageTypes
  <2>4. relayed \in Wire
    BY <1>1, <2>3, BroadcastType
  <2>5. claims[n] \in Book
    BY <1>0
  <2>6. book \in Book /\ \A j \in Key, p \in Node : j # rec.key \/ p # rec.node => book[j][p] = claims[n][j][p]
    BY <1>1, <2>5, StoreType, StoreFiles
  <2>7. SameHellos(relayed, net)
    BY <1>1, <2>2, HellosCompose
  <2> QED BY <1>4, <2>1, <2>4, <2>6, <2>7
<1>5. ASSUME rec.node # n, ~StoreRefuses(n, claims[n], rec), NoEmit(n, book), net' = relayed
      PROVE  Routine
  <2>1. claims' = c /\ claimSeq' = claimSeq
    BY <1>5 DEF NoEmit
  <2>2. Steady
    BY <1>0, <1>4, <1>5, SteadyWires
  <2>3. \A j \in Key : claims'[n][j][n] = claims[n][j][n]
    BY <1>0, <1>4, <1>5, <2>1
  <2>4. \A x \in Node \ {n} : claims'[x] = claims[x]
    BY <1>0, <2>1
  <2>5. AllOwnKept
    BY <2>1, <2>3, <2>4 DEF AllOwnKept, OwnKept
  <2> QED BY <1>4, <1>5, <2>1, <2>2, <2>5 DEF Routine
<1>6. ASSUME rec.node # n, ~StoreRefuses(n, claims[n], rec), EmitClaim(n, k, FALSE, book),
             net' = Announce(relayed, n, k, FALSE)
      PROVE  Routine
  <2>0. AllInStep(relayed, c, claimSeq) /\ SameHellos(relayed, net) /\ relayed \in Wire
        /\ book \in Book /\ \A j \in Key : book[j][n] = claims[n][j][n]
    BY <1>4, <1>6
  <2> HIDE DEF rec, k, book, relayed
  <2>1. SameHellos(net', relayed)
    BY <1>0, <1>1, <1>6, <2>0, AnnounceHellos
  <2>2. SameHellos(net', net)
    BY <2>0, <2>1, HellosCompose
  <2>3. Steady
    BY <1>0, <2>2, SteadyWires
  <2>4. AllOwnKept
    BY <1>0, <1>1, <1>6, <2>0, OwnEmits
  <2>5. /\ claimSeq' = [claimSeq EXCEPT ![n][k] = claimSeq[n][k] + 1]
        /\ \A x, y \in Node, j \in Key : x # y => claims'[x][j][y] = c[x][j][y]
    <3>1. TypeOK /\ Ordered /\ ClaimsSound /\ k \in Key /\ FALSE \in BOOLEAN /\ EmitClaim(n, k, FALSE, book)
      BY <1>0, <1>1, <1>6
    <3>2. Books(n, k, FALSE, book)
      BY <2>0, <3>1, EmitBooks
    <3> QED BY <3>2 DEF Books
  <2>6. \A a, d \in Node, r \in Claim :
          Sends(net', a, d, r) <=> Sends(relayed, a, d, r) \/ (r = Minted(n, k, FALSE) /\ a = n /\ Reaches(n, d))
    BY <1>0, <1>1, <1>6, <2>0, AnnounceSends
  <2>7. AllInStep(net', claims', claimSeq')
    <3> HIDE DEF c
    <3>1. Emits(relayed, c, n, k, FALSE)
      BY <2>5, <2>6 DEF Emits
    <3> QED BY <1>0, <1>1, <2>0, <3>1, EmitInStep
  <2> QED BY <2>3, <2>4, <2>7 DEF Routine
<1> QED BY <1>2, <1>3, <1>5, <1>6

\* Everybody stays told when links and incarnations stay as they are.
LEMMA RoutineHolds ==
  ASSUME HInv, TypeOK', Routine
  PROVE  Hellos' /\ HeardOf' /\ Fresh' /\ Synced'
<1>1. /\ Hellos' /\ HeardOf' /\ Fresh' /\ epoch' = epoch
      /\ \A a, b \in Node : Reaches(a, b)' <=> Reaches(a, b)
  BY SteadyLinks DEF HInv, Routine, Steady
<1>2. ASSUME NEW x \in Node, NEW y \in Node, NEW j \in Key, x # y
      PROVE  InStep(net, claims, claimSeq, x, y, j)'
  <2>1. InStep(net', claims', claimSeq', x, y, j)
    BY <1>2 DEF Routine, AllInStep
  <2>2. Told(net', claims', claimSeq', x, y, j) => Told(net, claims, claimSeq, x, y, j)'
    BY <1>1 DEF Told, Latest, Full
  <2>3. Unheard(net', claims', x, y, j) => Unheard(net, claims, x, y, j)'
    BY <1>1 DEF Unheard
  <2> QED BY <1>1, <2>1, <2>2, <2>3 DEF InStep
<1> QED BY <1>1, <1>2 DEF Synced, AllInStep

\* A node that comes back is reached by nobody and has told nothing yet.
LEMMA RestartHolds ==
  ASSUME HInv, TypeOK', LinksLast, NEW n \in Node, Restart(n)
  PROVE  Hellos' /\ HeardOf' /\ Fresh' /\ AllOwnKept /\ Synced'
<1>0. /\ TypeOK /\ Ordered /\ Hellos /\ HeardOf /\ Fresh /\ Synced
      /\ \A a \in Node : epoch[a] \in Nat
  BY DEF HInv, TypeOK
<1>1. /\ \A a \in Node : epoch'[a] = IF a = n THEN epoch[a] + 1 ELSE epoch[a]
      /\ \A a, b \in Node : net'[a][b] = IF b = n THEN <<>> ELSE net[a][b]
      /\ \A a, b \in Node : peers'[a][b] = IF a = n THEN Stranger ELSE peers[a][b]
      /\ \A k \in Key, a, b \in Node : claims'[a][k][b] = IF a = n THEN NoClaim ELSE claims[a][k][b]
      /\ \A a \in Node, k \in Key : a # n => claimSeq'[a][k] = claimSeq[a][k]
      /\ \A a \in Node : a # n => claims'[a] = claims[a]
  BY <1>0 DEF Restart, TypeOK
<1>2. \A a, b \in Node : a = n \/ b = n => ~Reaches(a, b)'
  BY <1>1 DEF Reaches, Linked, Opens, Stranger
<1>3. \A a, b \in Node : a # n /\ b # n => (Reaches(a, b)' <=> Reaches(a, b))
  BY <1>1 DEF Reaches, Linked, Opens
<1>4. Hellos'
  <2>1. ASSUME NEW a \in Node, NEW b \in Node, NEW i \in DOMAIN net'[a][b], net'[a][b][i].t = "hello"
        PROVE  a # b /\ i = 1 /\ net'[a][b][i].epoch <= epoch'[a] /\ "connect" \in Traffic
    <3>1. net'[a][b] = net[a][b]
      BY <1>1, <2>1
    <3>2. a # b /\ i = 1 /\ net[a][b][i].epoch <= epoch[a] /\ "connect" \in Traffic
      BY <1>0, <2>1, <3>1 DEF Hellos
    <3>3. net[a][b][i].epoch \in Nat
      <4>1. net[a][b][i] \in Message
        <5>1. net[a][b] \in Seq(Message)
          BY <1>0 DEF TypeOK
        <5> QED BY <2>1, <3>1, <5>1
      <4> QED BY <2>1, <3>1, <4>1 DEF Message
    <3> QED BY <1>0, <1>1, <3>1, <3>2, <3>3
  <2> QED BY <2>1 DEF Hellos
<1>5. HeardOf'
  <2>1. ASSUME NEW a \in Node, NEW b \in Node PROVE peers'[a][b].epoch <= epoch'[b]
    <3>1. peers[a][b].epoch \in Nat /\ peers[a][b].epoch <= epoch[b]
      BY <1>0, PeerType DEF HeardOf
    <3> QED BY <1>0, <1>1, <3>1 DEF Stranger
  <2> QED BY <2>1 DEF HeardOf
<1>6. Fresh'
  <2>1. ASSUME NEW a \in Node, NEW b \in Node, a # b
        PROVE  /\ Reaches(a, b)' => peers'[a][b].epoch = epoch'[b]
               /\ (Opens(b, a)' /\ (Opens(a, b)' \/ Linked(b, a)')) => Msg(a, b)'.epoch = epoch'[b]
    <3>1. CASE a = n \/ b = n
      <4>1. ~(Opens(b, a)' /\ (Opens(a, b)' \/ Linked(b, a)'))
        BY <1>1, <3>1 DEF Opens, Linked, Stranger
      <4> QED BY <1>2, <3>1, <4>1
    <3>2. CASE a # n /\ b # n
      <4>1. /\ Opens(a, b)' <=> Opens(a, b)
            /\ Opens(b, a)' <=> Opens(b, a)
            /\ Linked(b, a)' <=> Linked(b, a)
            /\ Msg(a, b)' = Msg(a, b)
        BY <1>1, <3>2 DEF Opens, Linked, Msg
      <4> QED BY <1>0, <1>1, <1>3, <2>1, <3>2, <4>1 DEF Fresh
    <3> QED BY <3>1, <3>2
  <2> QED BY <2>1 DEF Fresh
<1>7. AllOwnKept
  BY <1>0, <1>1 DEF AllOwnKept, OwnKept
<1>8. \A a, b \in Node, r \in Claim : Sends(net', a, b, r) => b # n /\ Sends(net, a, b, r)
  BY <1>1 DEF Sends
<1>9. ASSUME NEW x \in Node, NEW y \in Node, NEW j \in Key, x # y
      PROVE  InStep(net, claims, claimSeq, x, y, j)'
  <2>0. InStep(net, claims, claimSeq, x, y, j)
    BY <1>0, <1>9 DEF Synced, AllInStep
  <2>1. CASE y = n
    <3>1. ASSUME NEW r \in Claim, Copy(r), r.node = n PROVE r.epoch < epoch'[n]
      <4>1. r.epoch <= epoch[n] /\ r.epoch \in Nat
        BY <1>0, <3>1 DEF Ordered, Claim
      <4> QED BY <1>0, <1>1, <4>1
    <3>2. claims'[x][j][n] = NoClaim \/ claims'[x][j][n].epoch < epoch'[n]
      <4> SUFFICES ASSUME claims[x][j][n] # NoClaim PROVE claims[x][j][n].epoch < epoch'[n]
        BY <1>1, <1>9, <2>1
      <4>1. Copy(claims[x][j][n])
        BY DEF Copy, Keeps
      <4>2. claims[x][j][n].node = n /\ claims[x][j][n] \in Claim
        BY <1>0, <4>1 DEF HInv, ClaimsSound, Filed, Ordered
      <4> QED BY <3>1, <4>1, <4>2
    <3>3. ASSUME NEW a \in Node, NEW b \in Node, NEW r \in Claim, Sends(net', a, b, r), r.node = n
          PROVE  r.epoch < epoch'[n]
      <4>1. Copy(r)
        BY <1>8, <3>3 DEF Copy, Carries, Sends
      <4> QED BY <3>1, <3>3, <4>1
    <3>4. Unheard(net, claims, x, y, j)'
      BY <2>1, <3>2, <3>3 DEF Unheard, Sends
    <3> QED BY <3>4 DEF InStep
  <2>2. CASE x = n /\ "connect" \notin Traffic
    BY <1>2, <2>2 DEF InStep
  <2>3. CASE x = n /\ "connect" \in Traffic
    <3>1. \A b \in Node \ {y} : b = n
      BY <1>9, <2>3 DEF LinksLast
    <3>2. Unheard(net, claims, x, y, j)'
      BY <1>1, <1>8, <2>3, <3>1 DEF Unheard, Sends
    <3> QED BY <3>2 DEF InStep
  <2>4. CASE x # n /\ y # n
    <3>1. /\ Reaches(y, x)' <=> Reaches(y, x)
          /\ epoch'[y] = epoch[y] /\ claims'[x] = claims[x] /\ claimSeq'[y][j] = claimSeq[y][j]
          /\ \A r \in Claim : Sends(net', y, x, r) <=> Sends(net, y, x, r)
      BY <1>1, <1>3, <2>4 DEF Sends
    <3>2. Told(net, claims, claimSeq, x, y, j) => Told(net, claims, claimSeq, x, y, j)'
      BY <3>1 DEF Told, Latest, Full, Sends
    <3>3. Unheard(net, claims, x, y, j) => Unheard(net, claims, x, y, j)'
      BY <1>8, <3>1 DEF Unheard, Sends
    <3> QED BY <2>0, <3>1, <3>2, <3>3 DEF InStep
  <2> QED BY <2>1, <2>2, <2>3, <2>4
<1>10. Synced'
  BY <1>9 DEF Synced, AllInStep
<1> QED BY <1>4, <1>5, <1>6, <1>7, <1>10

\* Two nodes that meet again have told each other nothing yet.
LEMMA ConnectHolds ==
  ASSUME HInv, TypeOK', LinksLast, NEW n \in Node, NEW m \in Node, Connect(n, m)
  PROVE  Hellos' /\ HeardOf' /\ Fresh' /\ AllOwnKept /\ Synced'
<1>0. /\ TypeOK /\ Hellos /\ HeardOf /\ Fresh /\ Synced /\ n # m /\ "connect" \in Traffic
      /\ ~Linked(n, m) /\ ~Opens(n, m) /\ ~Opens(m, n)
      /\ UNCHANGED <<epoch, claims, claimSeq, peers>>
      /\ \A a \in Node : epoch[a] \in Nat
  <2>1. n # m
    BY ConstantsAssumption DEF Connect
  <2> QED BY <2>1 DEF HInv, TypeOK, Connect
<1>1. ASSUME NEW a \in Node, NEW b \in Node, a # b PROVE (a = n /\ b = m) \/ (a = m /\ b = n)
  BY <1>0, <1>1 DEF LinksLast
<1>2. net'[n][m] = <<Hello(epoch[n])>> /\ net'[m][n] = <<Hello(epoch[m])>>
      /\ \A a \in Node : net'[a][a] = net[a][a]
  <2>1. net \in [Node -> [Node -> Seq(Message)]]
    BY <1>0 DEF TypeOK
  <2>2. net' = [net EXCEPT ![n][m] = <<Hello(epoch[n])>>, ![m][n] = <<Hello(epoch[m])>>]
    BY DEF Connect
  <2>3. PICK h, g : h = <<Hello(epoch[n])>> /\ g = <<Hello(epoch[m])>>
    OBVIOUS
  <2>4. net' = [net EXCEPT ![n][m] = h, ![m][n] = g]
    BY <2>2, <2>3
  <2>5. net'[n][m] = h /\ net'[m][n] = g
    BY <1>0, <2>1, <2>4
  <2>6. ASSUME NEW a \in Node PROVE net'[a][a] = net[a][a]
    BY <1>0, <2>1, <2>4
  <2> QED BY <2>3, <2>5, <2>6
<1>3. \A e : Hello(e).t = "hello" /\ Hello(e).epoch = e
  BY DEF Hello
<1>4. ASSUME NEW a \in Node, NEW b \in Node, a # b
      PROVE  ~Reaches(a, b) /\ ~Reaches(a, b)' /\ net'[a][b] = <<Hello(epoch[a])>> /\ Opens(a, b)'
  <2>1. \/ a = n /\ b = m
        \/ a = m /\ b = n
    BY <1>1, <1>4
  <2>2. ~Reaches(a, b)
    BY <1>0, <2>1 DEF Reaches
  <2>3. net'[a][b] = <<Hello(epoch[a])>> /\ net'[b][a] = <<Hello(epoch[b])>>
    BY <1>2, <2>1
  <2>4. Opens(a, b)' /\ Opens(b, a)'
    BY <1>3, <2>3 DEF Opens
  <2> QED BY <2>2, <2>3, <2>4 DEF Reaches
<1>5. Hellos'
  <2>1. ASSUME NEW a \in Node, NEW b \in Node, NEW i \in DOMAIN net'[a][b], net'[a][b][i].t = "hello"
        PROVE  a # b /\ i = 1 /\ net'[a][b][i].epoch <= epoch'[a] /\ "connect" \in Traffic
    <3>1. CASE a = b
      BY <1>0, <1>2, <2>1, <3>1 DEF Hellos
    <3>2. CASE a # b
      <4>1. net'[a][b] = <<Hello(epoch[a])>>
        BY <1>4, <3>2
      <4>2. i = 1 /\ net'[a][b][i] = Hello(epoch[a])
        BY <2>1, <4>1
      <4> QED BY <1>0, <1>3, <3>2, <4>2
    <3> QED BY <3>1, <3>2
  <2> QED BY <2>1 DEF Hellos
<1>6. HeardOf'
  BY <1>0 DEF HeardOf
<1>7. Fresh'
  <2>1. ASSUME NEW a \in Node, NEW b \in Node, a # b PROVE ~Reaches(a, b)' /\ Msg(a, b)'.epoch = epoch'[b]
    <3>1. net'[b][a] = <<Hello(epoch[b])>> /\ ~Reaches(a, b)'
      BY <1>4, <2>1
    <3> QED BY <1>0, <1>3, <3>1 DEF Msg
  <2> QED BY <2>1 DEF Fresh
<1>8. \A a, b \in Node, r \in Claim : Sends(net', a, b, r) => Sends(net, a, b, r)
  <2> SUFFICES ASSUME NEW a \in Node, NEW b \in Node, NEW r, Sends(net', a, b, r) PROVE Sends(net, a, b, r)
    OBVIOUS
  <2>1. CASE a = b
    BY <1>2, <2>1 DEF Sends
  <2>2. CASE a # b
    <3>1. net'[a][b] = <<Hello(epoch[a])>>
      BY <1>4, <2>2
    <3> QED BY <1>3, <3>1 DEF Sends
  <2> QED BY <2>1, <2>2
<1>9. ASSUME NEW x \in Node, NEW y \in Node, NEW j \in Key, x # y
      PROVE  InStep(net, claims, claimSeq, x, y, j)'
  <2>1. Unheard(net, claims, x, y, j)
    BY <1>0, <1>4, <1>9 DEF Synced, AllInStep, InStep
  <2>2. Unheard(net, claims, x, y, j)'
    BY <1>0, <1>8, <2>1 DEF Unheard, Sends
  <2> QED BY <2>2 DEF InStep
<1>10. Synced'
  BY <1>9 DEF Synced, AllInStep
<1>11. AllOwnKept
  BY <1>0, OwnBooks
<1> QED BY <1>5, <1>6, <1>7, <1>10, <1>11

\* Reading a hello binds the connection: n reaches m from then on.
LEMMA HelloHolds ==
  ASSUME HInv, TypeOK', LinksLast, NEW n \in Node, NEW m \in Node, OnHello(n, m)
  PROVE  Hellos' /\ HeardOf' /\ Fresh' /\ AllOwnKept /\ Synced'
<1>0. /\ TypeOK /\ Hellos /\ HeardOf /\ Fresh /\ Synced /\ net \in Wire
      /\ Reads(n, m, "hello") /\ Opens(m, n)
      /\ UNCHANGED <<epoch, claims, claimSeq>>
      /\ \A a, b \in Node : net[a][b] \in Seq(Message)
      /\ \A a \in Node : epoch[a] \in Nat
  <2>1. TypeOK /\ Hellos /\ HeardOf /\ Fresh /\ Synced
    BY DEF HInv
  <2>2. net \in Wire /\ (\A a, b \in Node : net[a][b] \in Seq(Message)) /\ (\A a \in Node : epoch[a] \in Nat)
    BY <2>1 DEF TypeOK, Wire
  <2>3. Reads(n, m, "hello") /\ UNCHANGED <<epoch, claims, claimSeq>>
    BY DEF OnHello
  <2>4. Opens(m, n)
    BY <2>3 DEF Reads, Opens
  <2> QED BY <2>1, <2>2, <2>3, <2>4
<1>1. /\ m # n /\ "connect" \in Traffic
      /\ Msg(n, m) = net[m][n][1] /\ Msg(n, m).epoch \in Nat /\ Msg(n, m).epoch <= epoch[m]
      /\ Rest(n, m) \in Wire
  <2>1. net[m][n] # <<>> /\ Head(net[m][n]).t = "hello"
    BY <1>0 DEF Reads
  <2>2. 1 \in DOMAIN net[m][n] /\ net[m][n][1].t = "hello" /\ Msg(n, m) = net[m][n][1]
    BY <1>0, <2>1 DEF Msg
  <2>3. m # n /\ "connect" \in Traffic /\ Msg(n, m).epoch <= epoch[m]
    BY <1>0, <2>2 DEF Hellos
  <2>4. Msg(n, m) \in Message /\ Msg(n, m).t = "hello" /\ Rest(n, m) \in Wire
    BY <1>0, ReadType
  <2>5. Msg(n, m).epoch \in Nat
    BY <2>4 DEF Message
  <2> QED BY <2>2, <2>3, <2>4, <2>5
<1>2. ASSUME NEW a \in Node, NEW b \in Node, a # b PROVE (a = n /\ b = m) \/ (a = m /\ b = n)
  BY <1>1, <1>2 DEF LinksLast
<1>3. /\ net'[m][n] = Tail(net[m][n])
      /\ net'[n][m] = IF Linked(m, n) \/ Opens(n, m) THEN Append(net[n][m], Auth) ELSE net[n][m]
      /\ \A a \in Node : net'[a][a] = net[a][a]
  <2>1. /\ Rest(n, m)[m][n] = Tail(net[m][n]) /\ Rest(n, m)[n][m] = net[n][m]
        /\ \A a \in Node : Rest(n, m)[a][a] = net[a][a]
    BY <1>0, <1>1 DEF Rest, Wire
  <2>2. PICK q \in Wire : q = Rest(n, m)
    BY <1>1
  <2>3. PICK t : t = IF Linked(m, n) \/ Opens(n, m) THEN Append(q[n][m], Auth) ELSE q[n][m]
    OBVIOUS
  <2>4. net' = [q EXCEPT ![n][m] = t]
    BY <2>2, <2>3 DEF OnHello
  <2>5. net'[m][n] = q[m][n] /\ net'[n][m] = t /\ \A a \in Node : net'[a][a] = q[a][a]
    BY <1>1, <2>2, <2>4 DEF Wire
  <2> QED BY <2>1, <2>2, <2>3, <2>5
<1>4. /\ peers'[n][m].linked = TRUE
      /\ peers'[n][m].epoch = IF Msg(n, m).epoch > peers[n][m].epoch THEN Msg(n, m).epoch ELSE peers[n][m].epoch
      /\ \A a, b \in Node : a # n \/ b # m => peers'[a][b] = peers[a][b]
  BY <1>0 DEF OnHello, Relink, TypeOK
<1>5. \A i \in DOMAIN net'[m][n] : net'[m][n][i].t # "hello"
  <2>1. \A i \in DOMAIN Tail(net[m][n]) : i + 1 \in DOMAIN net[m][n] /\ i + 1 # 1 /\ Tail(net[m][n])[i] = net[m][n][i + 1]
    BY <1>0
  <2>2. \A i \in DOMAIN Tail(net[m][n]) : Tail(net[m][n])[i].t # "hello"
    BY <1>0, <2>1 DEF Hellos
  <2> QED BY <1>3, <2>2
<1>6. Auth \in Message /\ Auth.t = "auth"
  BY MessageTypes DEF Auth
<1>7. /\ \A i \in DOMAIN net'[n][m] : net'[n][m][i].t = "hello" => i \in DOMAIN net[n][m] /\ net'[n][m][i] = net[n][m][i]
      /\ Opens(n, m)' <=> Opens(n, m)
      /\ Opens(n, m) => Head(net'[n][m]) = Head(net[n][m])
  <2>1. CASE net'[n][m] = net[n][m]
    BY <2>1 DEF Opens
  <2>2. CASE net'[n][m] = Append(net[n][m], Auth)
    <3>1. /\ \A i \in DOMAIN net'[n][m] : (i \in DOMAIN net[n][m] /\ net'[n][m][i] = net[n][m][i]) \/ net'[n][m][i] = Auth
          /\ net'[n][m] # <<>>
          /\ net[n][m] # <<>> => Head(net'[n][m]) = Head(net[n][m])
      <4>1. PICK s, t : s \in Seq(Message) /\ s = net[n][m] /\ t = net'[n][m]
        BY <1>0
      <4>2. t = Append(s, Auth)
        BY <2>2, <4>1
      <4> QED BY <1>6, <4>1, <4>2, OneMore
    <3>2. ASSUME net[n][m] = <<>> PROVE Head(net'[n][m]).t = "auth"
      BY <1>6, <2>2, <3>2
    <3> QED BY <1>6, <3>1, <3>2 DEF Opens
  <2> QED BY <1>3, <2>1, <2>2
<1>8. ~Opens(m, n)'
  <2>1. net'[m][n] \in Seq(Message)
    BY DEF TypeOK
  <2>2. ASSUME net'[m][n] # <<>> PROVE Head(net'[m][n]).t # "hello"
    <3>1. 1 \in DOMAIN net'[m][n] /\ Head(net'[m][n]) = net'[m][n][1]
      BY <2>1, <2>2
    <3> QED BY <1>5, <3>1
  <2> QED BY <2>2 DEF Opens
<1>9. /\ Linked(n, m)' /\ (Linked(m, n)' <=> Linked(m, n))
      /\ Reaches(m, n)' <=> Reaches(m, n)
      /\ Reaches(n, m)' => Linked(m, n) \/ Opens(n, m)
      /\ ~Reaches(n, m)
  BY <1>0, <1>1, <1>4, <1>7, <1>8 DEF Linked, Reaches
<1>10. Hellos'
  <2>1. ASSUME NEW a \in Node, NEW b \in Node, NEW i \in DOMAIN net'[a][b], net'[a][b][i].t = "hello"
        PROVE  a # b /\ i = 1 /\ net'[a][b][i].epoch <= epoch'[a] /\ "connect" \in Traffic
    <3>1. CASE a = b
      BY <1>0, <1>3, <2>1, <3>1 DEF Hellos
    <3>2. CASE a = n /\ b = m
      BY <1>0, <1>7, <2>1, <3>2 DEF Hellos
    <3>3. CASE a = m /\ b = n
      BY <1>5, <2>1, <3>3
    <3> QED BY <1>2, <3>1, <3>2, <3>3
  <2> QED BY <2>1 DEF Hellos
<1>11. HeardOf'
  <2>1. ASSUME NEW a \in Node, NEW b \in Node PROVE peers'[a][b].epoch <= epoch'[b]
    BY <1>0, <1>1, <1>4 DEF HeardOf
  <2> QED BY <2>1 DEF HeardOf
<1>12. ASSUME Reaches(n, m)' PROVE peers'[n][m].epoch = epoch'[m]
  <2>1. Msg(n, m).epoch = epoch[m]
    BY <1>0, <1>1, <1>9, <1>12 DEF Fresh
  <2>2. peers[n][m].epoch <= epoch[m] /\ peers[n][m].epoch \in Nat
    BY <1>0, PeerType DEF HeardOf
  <2> QED BY <1>0, <1>4, <2>1, <2>2
<1>13. /\ Reaches(m, n)' => peers'[m][n].epoch = epoch'[n]
       /\ Opens(n, m)' => Msg(m, n)'.epoch = epoch'[n]
  <2>1. Reaches(m, n) => peers[m][n].epoch = epoch[n]
    BY <1>0, <1>1 DEF Fresh
  <2>2. Opens(n, m) => Msg(m, n).epoch = epoch[n]
    BY <1>0, <1>1 DEF Fresh
  <2> QED BY <1>0, <1>1, <1>4, <1>7, <1>9, <2>1, <2>2 DEF Msg
<1>14. Fresh'
  <2>1. ASSUME NEW a \in Node, NEW b \in Node, a # b
        PROVE  /\ Reaches(a, b)' => peers'[a][b].epoch = epoch'[b]
               /\ (Opens(b, a)' /\ (Opens(a, b)' \/ Linked(b, a)')) => Msg(a, b)'.epoch = epoch'[b]
    <3>1. CASE a = n /\ b = m
      BY <1>8, <1>12, <3>1
    <3>2. CASE a = m /\ b = n
      BY <1>13, <3>2
    <3> QED BY <1>2, <2>1, <3>1, <3>2
  <2> QED BY <2>1 DEF Fresh
<1>15. \A a, b \in Node, r \in Claim : Sends(net', a, b, r) <=> Sends(net, a, b, r)
  <2>1. Adds(net', Rest(n, m), Auth)
    <3>1. \A a, b \in Node : Rest(n, m)[a][b] = IF a = m /\ b = n THEN Tail(net[m][n]) ELSE net[a][b]
      BY <1>0 DEF Rest, Wire
    <3>2. \A a, b \in Node : net'[a][b] = Rest(n, m)[a][b] \/ net'[a][b] = Append(Rest(n, m)[a][b], Auth)
      <4> SUFFICES ASSUME NEW a \in Node, NEW b \in Node
                   PROVE  net'[a][b] = Rest(n, m)[a][b] \/ net'[a][b] = Append(Rest(n, m)[a][b], Auth)
        OBVIOUS
      <4>1. CASE a = b
        BY <1>1, <1>3, <3>1, <4>1
      <4>2. CASE a = m /\ b = n
        BY <1>3, <3>1, <4>2
      <4>3. CASE a = n /\ b = m
        <5>1. Rest(n, m)[a][b] = net[n][m]
          BY <1>1, <3>1, <4>3
        <5> QED BY <1>3, <4>3, <5>1
      <4> QED BY <1>2, <4>1, <4>2, <4>3
    <3> QED BY <3>2 DEF Adds
  <2>2. \A a, b \in Node, r \in Claim : Sends(net', a, b, r) <=> Sends(Rest(n, m), a, b, r)
    BY <1>1, <1>6, <2>1, AddsSends
  <2>3. \A a, b \in Node, r \in Claim : Sends(Rest(n, m), a, b, r) <=> Sends(net, a, b, r)
    BY <1>0, RestSends
  <2> QED BY <2>2, <2>3
<1>16. ASSUME NEW x \in Node, NEW y \in Node, NEW j \in Key, x # y
       PROVE  InStep(net, claims, claimSeq, x, y, j)'
  <2>0. InStep(net, claims, claimSeq, x, y, j)
    BY <1>0, <1>16 DEF Synced, AllInStep
  <2>1. ASSUME Unheard(net, claims, x, y, j) PROVE Unheard(net, claims, x, y, j)'
    <3>1. ASSUME NEW a \in Node, NEW b \in Node \ {y}, NEW r \in Claim, Sends(net', a, b, r), r.node = y, r.key = j
          PROVE  r.epoch < epoch'[y]
      <4>1. Sends(net, a, b, r)
        BY <1>15, <3>1
      <4> QED BY <1>0, <2>1, <3>1, <4>1 DEF Unheard
    <3>2. claims'[x][j][y] = NoClaim \/ claims'[x][j][y].epoch < epoch'[y]
      BY <1>0, <2>1 DEF Unheard
    <3> QED BY <3>1, <3>2 DEF Unheard, Sends
  <2>2. CASE y = n /\ x = m
    <3>1. Unheard(net, claims, x, y, j)
      BY <1>1, <1>9, <2>0, <2>2 DEF InStep
    <3> QED BY <2>1, <3>1 DEF InStep
  <2>3. CASE y = m /\ x = n
    <3>1. Told(net, claims, claimSeq, x, y, j) => Told(net, claims, claimSeq, x, y, j)'
      BY <1>0, <1>15 DEF Told, Latest, Full, Sends
    <3> QED BY <1>9, <2>0, <2>1, <2>3, <3>1 DEF InStep
  <2> QED BY <1>2, <1>16, <2>2, <2>3
<1>17. Synced'
  BY <1>16 DEF Synced, AllInStep
<1>18. AllOwnKept
  BY <1>0, OwnBooks
<1> QED BY <1>10, <1>11, <1>14, <1>17, <1>18

\* Every step keeps all this.
LEMMA HolderStep == LinksLast /\ HInv /\ [Next]_vars => HInv'
<1> SUFFICES ASSUME LinksLast, HInv, [Next]_vars PROVE HInv'
  OBVIOUS
<1>0. /\ TypeOK /\ Synced /\ Hellos /\ Ordered /\ ClaimsSound /\ net \in Wire /\ claims \in [Node -> Book]
      /\ TypeOK' /\ Ordered' /\ Agree' /\ ClaimsSound'
  BY NextType, AgreeStep, SoundStep DEF HInv, TypeOK, Wire, Book
<1>1. ASSUME Routine PROVE HInv'
  <2>1. Hellos' /\ HeardOf' /\ Fresh' /\ Synced'
    BY <1>0, <1>1, RoutineHolds
  <2>2. LastHeld'
    BY <1>1, LastHeldStep DEF HInv, Routine
  <2> QED BY <1>0, <2>1, <2>2 DEF HInv
<1>2. ASSUME Hellos' /\ HeardOf' /\ Fresh' /\ AllOwnKept /\ Synced' PROVE HInv'
  <2>1. LastHeld'
    BY <1>2, LastHeldStep DEF HInv
  <2> QED BY <1>0, <1>2, <2>1 DEF HInv
<1>3. ASSUME NEW n \in Node, NEW m \in Node, OnHello(n, m) \/ Connect(n, m) \/ Restart(n) PROVE HInv'
  BY <1>0, <1>2, <1>3, HelloHolds, ConnectHolds, RestartHolds
<1>4. ASSUME NEW n \in Node, NEW m \in Node, OnAuth(n, m) PROVE Routine
  <2>1. /\ Reads(n, m, "auth") /\ net' = Rest(n, m) /\ UNCHANGED <<epoch, claims, claimSeq>>
    BY <1>4 DEF OnAuth
  <2>2. SameHellos(net', net) /\ \A a, b \in Node, r \in Claim : Sends(net', a, b, r) <=> Sends(net, a, b, r)
    BY <1>0, <2>1, RestHellos, RestSends
  <2>3. \A a, b \in Node : peers'[a][b].epoch = peers[a][b].epoch /\ (Linked(a, b)' <=> Linked(a, b))
    <3>1. peers[n][m] \in Peer /\ peers \in [Node -> [Node -> Peer]]
      BY <1>0 DEF TypeOK
    <3>2. PICK p \in {peers[n][m], [peers[n][m] EXCEPT !.proved = TRUE]} : peers' = [peers EXCEPT ![n][m] = p]
      <4>1. CASE Linked(n, m)
        BY <1>4, <4>1 DEF OnAuth, Relink
      <4>2. CASE ~Linked(n, m)
        <5>1. peers' = peers
          BY <1>4, <4>2 DEF OnAuth
        <5>2. peers' = [peers EXCEPT ![n][m] = peers[n][m]]
          BY <3>1, <5>1
        <5> QED BY <5>2
      <4> QED BY <4>1, <4>2
    <3>3. p.epoch = peers[n][m].epoch /\ (p.linked <=> peers[n][m].linked)
      BY <3>1 DEF Peer
    <3>4. \A a, b \in Node : peers'[a][b] = IF a = n /\ b = m THEN p ELSE peers[a][b]
      BY <3>1, <3>2
    <3> QED BY <3>3, <3>4 DEF Linked
  <2>4. Steady
    <3>1. \A a, b \in Node : Linked(a, b)' = Linked(a, b)
      <4>1. \A a, b \in Node : Linked(a, b) \in BOOLEAN /\ Linked(a, b)' \in BOOLEAN
        BY <1>0 DEF TypeOK, Peer, Linked
      <4> QED BY <2>3, <4>1
    <3> QED BY <2>1, <2>2, <2>3, <3>1 DEF Steady
  <2> QED BY <1>0, <2>1, <2>2, <2>4, OwnBooks, IdleRoutine
<1>5. ASSUME NEW n \in Node, NEW m \in Node, Eof(n, m) PROVE Routine
  <2>1. UNCHANGED <<epoch, claims, claimSeq, net>>
    BY <1>5 DEF Eof
  <2>2. peers' = [peers EXCEPT ![n][m] = [peers[n][m] EXCEPT !.linked = FALSE]]
        /\ Linked(n, m) /\ ~Linked(m, n) /\ ~Opens(n, m)
    BY <1>5 DEF Eof, Unlink, Relink
  <2>3. \A a, b \in Node : /\ peers'[a][b].epoch = peers[a][b].epoch
                           /\ a # n \/ b # m => peers'[a][b] = peers[a][b]
                           /\ ~Linked(n, m)'
    <3>1. peers[n][m] \in Peer /\ peers \in [Node -> [Node -> Peer]]
      BY <1>0 DEF TypeOK
    <3> QED BY <2>2, <3>1 DEF Linked, Peer
  <2>4. Steady
    <3>1. n # m
      BY <2>2
    <3>2. ASSUME NEW a \in Node, NEW b \in Node, Linked(a, b)' # Linked(a, b)
          PROVE  ~Linked(a, b)' /\ a # b /\ ~Linked(b, a) /\ ~Opens(a, b)
      <4>1. a = n /\ b = m
        BY <2>3, <3>2 DEF Linked
      <4> QED BY <2>2, <2>3, <3>1, <4>1
    <3> QED BY <2>1, <2>3, <3>2, SameHellosRefl DEF Steady
  <2> QED BY <1>0, <2>1, <2>4, OwnBooks, IdleRoutine
<1>6. ASSUME NEW n \in Node, NEW m \in Node, Hear(n, m) PROVE Routine
  <2>1. UNCHANGED <<epoch, claims, claimSeq, net>>
    BY <1>6 DEF Hear
  <2>2. \A a, b \in Node : /\ peers'[a][b].epoch \in {peers[a][b].epoch, epoch[b]}
                           /\ peers'[a][b].linked = peers[a][b].linked
    <3>1. peers[n][m] \in Peer /\ peers \in [Node -> [Node -> Peer]]
      BY <1>0 DEF TypeOK
    <3>2. peers' = [peers EXCEPT ![n][m] = [peers[n][m] EXCEPT !.epoch = epoch[m]]]
      BY <1>6 DEF Hear, Relink
    <3> QED BY <3>1, <3>2 DEF Peer
  <2>3. Steady
    BY <2>1, <2>2, SameHellosRefl DEF Steady, Linked
  <2> QED BY <1>0, <2>1, <2>3, OwnBooks, IdleRoutine
<1>7. ASSUME NEW n \in Node, NEW m \in Node, OnJobStatus(n, m) PROVE Routine
  <2>1. Reads(n, m, "job-status") /\ net' = Rest(n, m) /\ UNCHANGED <<epoch, claims, claimSeq, peers>>
    BY <1>7 DEF OnJobStatus
  <2>2. SameHellos(net', net) /\ \A a, b \in Node, r \in Claim : Sends(net', a, b, r) <=> Sends(net, a, b, r)
    BY <1>0, <2>1, RestHellos, RestSends
  <2>3. Steady
    BY <1>0, <2>1, <2>2, SteadyWires
  <2> QED BY <1>0, <2>1, <2>2, <2>3, OwnBooks, IdleRoutine
<1>8. ASSUME NEW n \in Node, NEW k \in Key, ClaimVerb(n, k) PROVE Routine
  BY <1>8, AnnounceRoutine DEF ClaimVerb
<1>9. CASE UNCHANGED <<epoch, claims, claimSeq, peers, net>>
  <2>1. Steady
    BY <1>0, <1>9, SameHellosRefl, SteadyWires
  <2>2. Routine
    BY <1>0, <1>9, <2>1, OwnBooks, IdleRoutine
  <2> QED BY <1>1, <2>2
<1>10. ASSUME NEW n \in Node, NEW k \in Key, WatchEnds(n, k) PROVE HInv'
  <2>1. CASE claims[n][k][n] # NoClaim
    <3>1. Routine
      BY <1>10, <2>1, AnnounceRoutine DEF WatchEnds
    <3> QED BY <1>1, <3>1
  <2>2. CASE claims[n][k][n] = NoClaim
    BY <1>9, <1>10, <2>2 DEF WatchEnds
  <2> QED BY <2>1, <2>2
<1>11. ASSUME NEW n \in Node, NEW k \in Key, ReapReleased(n, k) PROVE Routine
  <2>1. \A o \in Node, j \in Key, p \in Node :
          claims'[o][j][p] = IF o = n /\ j = k /\ p = n /\ ~Held(claims[n][k][n]) THEN NoClaim
                                                                                  ELSE claims[o][j][p]
    BY <1>0, <1>11 DEF ReapReleased, Book
  <2>2. UNCHANGED <<epoch, claimSeq, peers, net>>
    BY <1>11 DEF ReapReleased
  <2>3. Steady
    BY <1>0, <2>2, SameHellosRefl, SteadyWires
  <2>4. AllOwnKept
    BY <2>1, <2>2 DEF AllOwnKept, OwnKept
  <2> QED BY <1>0, <2>1, <2>2, <2>3, <2>4, IdleRoutine
<1>12. ASSUME NEW n \in Node, NEW k \in Key, Dispatch(n, k) \/ \E e \in Node : DispatchTo(n, k, e)
       PROVE  Routine
  <2>1. (\E left \in SUBSET Node : TryFrom(n, k, left)) /\ UNCHANGED <<epoch, peers>>
    BY <1>12 DEF Dispatch, DispatchTo
  <2> QED BY <2>1, TryRoutine
<1>13. ASSUME NEW n \in Node, FailOver(n) PROVE Routine
  <2>1. route[n].key \in Key /\ route[n].left \in SUBSET Node
    BY <1>0, <1>13 DEF FailOver, TypeOK, Route
  <2> QED BY <2>1, <1>13, TryRoutine DEF FailOver
<1>14. ASSUME NEW n \in Node, NEW m \in Node PROVE ~LinkLost(n, m) /\ ~ReapPeer(n, m)
  BY DEF LinksLast, LinkLost, ReapPeer
<1>15. CASE UNCHANGED vars \/ (\E n \in Node : AckTimeout(n)) \/ (\E i \in DOMAIN procs : AgentExits(i))
  BY <1>9, <1>15 DEF vars, AckTimeout, AgentExits
<1> QED BY <1>1, <1>3, <1>4, <1>5, <1>6, <1>7, <1>8, <1>10, <1>11, <1>12, <1>13, <1>14, <1>15,
           ClaimRoutine, JobRoutine DEF Next, Deliver

\* A node that suppresses work because of m, over a link both ends hold, is
\* right, or will be told.
THEOREM HolderBackedByWord == ASSUME LinksLast PROVE Spec => []HolderIsBacked
<1>1. HInv /\ [Next]_vars => HInv'
  BY HolderStep
<1> QED BY <1>1, HolderInit, HolderHolds, PTL DEF Spec
=============================================================================
