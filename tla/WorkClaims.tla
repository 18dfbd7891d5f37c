----------------------------- MODULE WorkClaims -----------------------------
(***************************************************************************)
(* Leaderless origination leases of the mesh node                          *)
(* (linux/diplomat_app/mesh/node.py, "work claims"): who may run an agent  *)
(* for a unit of outside work that several machines have noticed.          *)
(*                                                                         *)
(* A node is one asyncio loop: everything between two awaits is one step.  *)
(* A link is a TCP connection, first in first out each way, and either     *)
(* side may lose it before the other notices.  Agents are detached         *)
(* processes that outlive the node which spawned them and leave a sentinel *)
(* file when they exit.                                                    *)
(*                                                                         *)
(* Abstracted: clocks (an expiry may happen or not), the ranking of the    *)
(* candidates of a dispatch (any order), duties with one placement slot,   *)
(* heartbeats (a silent link is a dropped one), adverts (their epoch is    *)
(* all that counts here).  Every node has a key and signs with it.         *)
(***************************************************************************)
EXTENDS Integers, Sequences, FiniteSets

CONSTANTS
  Node,       \* node ids: the lowest active claimant owns a key
  Key,        \* work keys
  Personal,   \* <<n, m>>: m's fingerprint is in n's allowlist
  Scans,      \* the answers the ps scan may give when an agent does run
  Cap,        \* _MAX_CLAIMS
  Joined,     \* the nodes are linked and verified when the story begins
  Traffic,    \* what may happen besides dispatches and deliveries (a bound)
  Callers,    \* nodes at which the claim verb is called (a bound)
  MaxEpoch, MaxJobs, MaxSpawns, MaxSeq,     \* bounds of the exploration
  NoClaim, NoRoute

Kinds == {"connect", "drop", "restart", "refuse", "timeout",
          "overrun", "killed", "settle", "gossip", "target"}

VARIABLES
  epoch,      \* node -> its incarnation
  claims,     \* node -> key -> claimant -> the freshest record (claim book)
  claimSeq,   \* node -> key -> seq of its own last record, -1 before any
  releasedAt, \* node -> keys whose own tombstone waits to be reaped
  agents,     \* node -> key -> the spawn it watches, 0 if none
  procs,      \* every agent process spawned so far
  sentinels,  \* completion files on disk: <<host, key, name>>
  peers,      \* node -> node -> what it knows of that peer and their link
  net,        \* sender -> receiver -> messages on the wire
  route,      \* node -> the dispatch it is placing
  jobs        \* job ids handed out

vars == <<epoch, claims, claimSeq, releasedAt, agents, procs, sentinels,
          peers, net, route, jobs>>

ASSUME ConstantsAssumption ==
  /\ Node \subseteq Nat /\ Personal \subseteq Node \X Node
  /\ Scans \subseteq BOOLEAN /\ Scans # {}
  /\ Joined \in BOOLEAN /\ Traffic \subseteq Kinds
  /\ Callers \subseteq Node
  /\ {Cap, MaxEpoch, MaxJobs, MaxSpawns, MaxSeq} \subseteq Nat

Seqno == Nat \cup {-1}
Claim == [node : Node, key : Key, epoch : Nat, seq : Nat, active : BOOLEAN]

ASSUME NoClaimAssumption == NoClaim \notin Claim

Peer == [linked : BOOLEAN, proved : BOOLEAN, epoch : Nat]   \* epoch 0: unknown
Stranger == [linked |-> FALSE, proved |-> FALSE, epoch |-> 0]

\* done is the name of the sentinel, epoch and seq stamped.
AgentProc == [host : Node, key : Key, done : Nat \X Nat, live : BOOLEAN]

\* left: candidates not tried yet; to: the one asked, under job id job (0: it
\* has answered no, or not in time).
Route == [key : Key, left : SUBSET Node, job : Nat, to : Node]

ASSUME NoRouteAssumption == NoRoute \notin Route

Hello(e) == [t |-> "hello", epoch |-> e]
Auth == [t |-> "auth"]
WorkClaim(rec) == [t |-> "work-claim", claim |-> rec]
Job(k, j) == [t |-> "dispatch", key |-> k, job |-> j]
JobStatus(j, spawned) == [t |-> "job-status", job |-> j, spawned |-> spawned]

Message ==      [t : {"hello"}, epoch : Nat]
           \cup [t : {"auth"}]
           \cup [t : {"work-claim"}, claim : Claim]
           \cup [t : {"dispatch"}, key : Key, job : Nat]
           \cup [t : {"job-status"}, job : Nat, spawned : BOOLEAN]

----------------------------------------------------------------------------
(* The wire *)

Opens(a, b) == net[a][b] # <<>> /\ Head(net[a][b]).t = "hello"
Linked(n, m) == peers[n][m].linked

\* What n writes on its link to m goes to the connection m reads.  A hello
\* still to be read by n means that n is bound to an older connection.
Reaches(n, m) == /\ n # m /\ Linked(n, m)
                 /\ ~Opens(m, n)
                 /\ Linked(m, n) \/ Opens(n, m)

\* _broadcast: the messages ms of n on top of the wire q.
Broadcast(q, n, ms) ==
  [q EXCEPT ![n] = [m \in Node |-> IF Reaches(n, m) THEN q[n][m] \o ms ELSE q[n][m]]]

Reply(q, n, m, msg) == [q EXCEPT ![n][m] = IF Reaches(n, m) THEN Append(@, msg) ELSE @]

\* n reads the next message of m, of type t.
Reads(n, m, t) == net[m][n] # <<>> /\ Head(net[m][n]).t = t
Msg(n, m) == Head(net[m][n])
Rest(n, m) == [net EXCEPT ![m][n] = Tail(@)]

----------------------------------------------------------------------------
(* The claim book *)

Newer(r, s) == r.epoch > s.epoch \/ (r.epoch = s.epoch /\ r.seq > s.seq)

Held(rec) == rec # NoClaim /\ rec.active

ClaimAuthoritative(n, m, rec) ==
  m = n \/ (/\ Linked(n, m) /\ peers[n][m].proved /\ <<n, m>> \in Personal
            /\ rec.epoch >= peers[n][m].epoch)

\* The claimants _claim_holder takes the minimum of, for a given book.
OwnersIn(book, n, k) ==
  {m \in Node : Held(book[k][m]) /\ ClaimAuthoritative(n, m, book[k][m])}
Owners(n, k) == OwnersIn(claims[n], n, k)

\* Variant: any other owner is a better one.
OutrankedByAny(n, S) == S \ {n} # {}

\* The lowest of them, the holder, is a better node than n.
Outranked(n, S) == \E m \in S : m < n /\ \A o \in S : m <= o

PeerRecords(n, book) == {km \in Key \X (Node \ {n}) : book[km[1]][km[2]] # NoClaim}

\* Variant: the cap fences updates too.
StoreRefusesUpdate(n, book, rec) ==
  LET cur == book[rec.key][rec.node]
  IN \/ cur # NoClaim /\ ~Newer(rec, cur)
     \/ rec.node # n /\ Cardinality(PeerRecords(n, book)) >= Cap

\* _store_claim refuses what is not fresher, and new peer records past the
\* cap; one's own records are never refused for the cap.
StoreRefuses(n, book, rec) ==
  LET cur == book[rec.key][rec.node]
  IN IF cur # NoClaim THEN ~Newer(rec, cur)
     ELSE rec.node # n /\ Cardinality(PeerRecords(n, book)) >= Cap

StoreClaim(n, book, rec) ==
  IF StoreRefuses(n, book, rec) THEN book ELSE [book EXCEPT ![rec.key][rec.node] = rec]

\* Variant: a withdrawal keeps the seq of the claim it withdraws.
MintedSameSeq(n, k, active) ==
  [node |-> n, key |-> k, epoch |-> epoch[n], active |-> active,
   seq |-> IF active \/ claimSeq[n][k] = -1 THEN claimSeq[n][k] + 1 ELSE claimSeq[n][k]]

Minted(n, k, active) == [node |-> n, key |-> k, epoch |-> epoch[n],
                         seq |-> claimSeq[n][k] + 1, active |-> active]

\* _emit_claim: mint, store on top of the handler's book, and tell linked
\* peers on top of its wire.
EmitClaim(n, k, active, book) ==
  LET rec == Minted(n, k, active)
  IN /\ claims' = [claims EXCEPT ![n] = StoreClaim(n, book, rec)]
     /\ claimSeq' = [claimSeq EXCEPT ![n][k] = rec.seq]
     /\ releasedAt' = [releasedAt EXCEPT ![n] = IF active THEN @ \ {k} ELSE @ \cup {k}]

\* Variant: a withdrawal is stored but not gossiped.
AnnounceActive(wire, n, k, active) ==
  IF active THEN Broadcast(wire, n, <<WorkClaim(Minted(n, k, active))>>) ELSE wire

Announce(wire, n, k, active) == Broadcast(wire, n, <<WorkClaim(Minted(n, k, active))>>)

NoEmit(n, book) == claims' = [claims EXCEPT ![n] = book] /\ UNCHANGED <<claimSeq, releasedAt>>

----------------------------------------------------------------------------
(* Links *)

Relink(n, m, p) == peers' = [peers EXCEPT ![n][m] = p]
Unlink(n, m) == Relink(n, m, [peers[n][m] EXCEPT !.linked = FALSE])

\* Only the smaller id dials, when it has no link and no dial under way.
Connect(n, m) ==
  /\ "connect" \in Traffic
  /\ n < m /\ ~Linked(n, m) /\ ~Opens(n, m) /\ ~Opens(m, n)
  /\ net' = [net EXCEPT ![n][m] = <<Hello(epoch[n])>>, ![m][n] = <<Hello(epoch[m])>>]
  /\ UNCHANGED <<epoch, claims, claimSeq, releasedAt, agents, procs, sentinels,
                 peers, route, jobs>>

\* A hello binds the connection; what was proved on another one is void.
\* The answer to its challenge goes out at once.
OnHello(n, m) ==
  /\ Reads(n, m, "hello")
  /\ LET e == Msg(n, m).epoch
         known == peers[n][m].epoch
     IN Relink(n, m, [linked |-> TRUE, proved |-> FALSE,
                      epoch |-> IF e > known THEN e ELSE known])
  /\ net' = [Rest(n, m) EXCEPT
               ![n][m] = IF Linked(m, n) \/ Opens(n, m) THEN Append(@, Auth) ELSE @]
  /\ UNCHANGED <<epoch, claims, claimSeq, releasedAt, agents, procs, sentinels,
                 route, jobs>>

OnAuth(n, m) ==
  /\ Reads(n, m, "auth")
  /\ net' = Rest(n, m)
  /\ IF Linked(n, m) THEN Relink(n, m, [peers[n][m] EXCEPT !.proved = TRUE])
                     ELSE UNCHANGED peers
  /\ UNCHANGED <<epoch, claims, claimSeq, releasedAt, agents, procs, sentinels,
                 route, jobs>>

\* n gives a link up (heartbeat timeout, error); m has yet to notice, and may
\* still read what n had written.
LinkLost(n, m) ==
  /\ "drop" \in Traffic
  /\ Linked(n, m)
  /\ Unlink(n, m)
  /\ net' = [net EXCEPT ![m][n] = <<>>]
  /\ UNCHANGED <<epoch, claims, claimSeq, releasedAt, agents, procs, sentinels,
                 route, jobs>>

\* n has read everything and finds the connection closed by m.
Eof(n, m) ==
  /\ Linked(n, m) /\ ~Linked(m, n) /\ ~Opens(n, m) /\ net[m][n] = <<>>
  /\ Unlink(n, m)
  /\ UNCHANGED <<epoch, claims, claimSeq, releasedAt, agents, procs, sentinels,
                 net, route, jobs>>

\* An advert of m reaches n through other nodes: n learns of its restart.
Hear(n, m) ==
  /\ "gossip" \in Traffic
  /\ n # m /\ peers[n][m].epoch < epoch[m]
  /\ \E r \in Node \ {n, m} : Linked(n, r)
  /\ Relink(n, m, [peers[n][m] EXCEPT !.epoch = epoch[m]])
  /\ UNCHANGED <<epoch, claims, claimSeq, releasedAt, agents, procs, sentinels,
                 net, route, jobs>>

\* The heartbeat tick forgets a peer that has been unlinked for long, and
\* its claims.
ReapPeer(n, m) ==
  /\ "drop" \in Traffic
  /\ n # m /\ peers[n][m].epoch # 0 /\ ~Linked(n, m)
  /\ Relink(n, m, Stranger)
  /\ claims' = [claims EXCEPT ![n] = [k \in Key |-> [@[k] EXCEPT ![m] = NoClaim]]]
  /\ UNCHANGED <<epoch, claimSeq, releasedAt, agents, procs, sentinels, net,
                 route, jobs>>

----------------------------------------------------------------------------
(* Claims *)

\* The `claim' control verb: stand down for a lower owner, else announce.
ClaimVerb(n, k) ==
  /\ n \in Callers
  /\ claimSeq[n][k] < MaxSeq
  /\ ~Outranked(n, Owners(n, k))
  /\ EmitClaim(n, k, TRUE, claims[n])
  /\ net' = Announce(net, n, k, TRUE)
  /\ UNCHANGED <<epoch, agents, procs, sentinels, peers, route, jobs>>

\* Adopt, relay verbatim (to the sender too), and yield to a lower owner.
OnWorkClaim(n, m) ==
  /\ Reads(n, m, "work-claim")
  /\ LET rec == Msg(n, m).claim
         k == rec.key
         book == StoreClaim(n, claims[n], rec)
         relayed == Broadcast(Rest(n, m), n, <<WorkClaim(rec)>>)
     IN IF rec.node = n \/ StoreRefuses(n, claims[n], rec)
        THEN NoEmit(n, claims[n]) /\ net' = Rest(n, m)
        ELSE IF Held(book[k][n]) /\ Outranked(n, OwnersIn(book, n, k))
        THEN EmitClaim(n, k, FALSE, book) /\ net' = Announce(relayed, n, k, FALSE)
        ELSE NoEmit(n, book) /\ net' = relayed
  /\ UNCHANGED <<epoch, agents, procs, sentinels, peers, route, jobs>>

\* A tombstone is reaped three peer timeouts after it was made.  By then no
\* copy of it is still on a wire, and the watcher (0.1 s) has seen it.
ReapReleased(n, k) ==
  /\ "settle" \in Traffic
  /\ k \in releasedAt[n]
  /\ agents[n][k] = 0
  /\ \A a, b \in Node : \A i \in DOMAIN net[a][b] :
        net[a][b][i].t = "work-claim" => net[a][b][i].claim.node # n
  /\ releasedAt' = [releasedAt EXCEPT ![n] = @ \ {k}]
  /\ claims' = IF Held(claims[n][k][n]) THEN claims
                                        ELSE [claims EXCEPT ![n][k][n] = NoClaim]
  /\ UNCHANGED <<epoch, claimSeq, agents, procs, sentinels, peers, net, route, jobs>>

----------------------------------------------------------------------------
(* Agents *)

OnHost(n, k) == {i \in DOMAIN procs : procs[i].live /\ procs[i].host = n /\ procs[i].key = k}

\* Variant: only the agents this incarnation remembers count.
HandledByBook(n, k, scan) == agents[n][k] # 0

\* _agents, then _pr_agent_running: either way the work is taken to be handled.
\* The scan fails open, and cannot parse every key.
Handled(n, k, scan) == agents[n][k] # 0 \/ (OnHost(n, k) # {} /\ scan)

\* Variant: the name does not carry the incarnation.
DonePathNoEpoch(n, k) == <<0, IF claimSeq[n][k] = -1 THEN 0 ELSE claimSeq[n][k]>>

\* _agent_done_path
DonePath(n, k) == <<epoch[n], IF claimSeq[n][k] = -1 THEN 0 ELSE claimSeq[n][k]>>

\* _spawn_local past its two guards: spawn, watch, claim.
Spawn(n, k) ==
  /\ Len(procs) < MaxSpawns
  /\ procs' = Append(procs, [host |-> n, key |-> k, done |-> DonePath(n, k), live |-> TRUE])
  /\ agents' = [agents EXCEPT ![n][k] = Len(procs) + 1]
  /\ EmitClaim(n, k, TRUE, claims[n])

NoSpawn == UNCHANGED <<procs, agents, claims, claimSeq, releasedAt>>

SentinelOf(i) == <<procs[i].host, procs[i].key, procs[i].done>>

\* An agent, watched or not, ends; a killed one leaves no sentinel.
AgentExits(i) ==
  /\ i \in DOMAIN procs /\ procs[i].live
  /\ procs' = [procs EXCEPT ![i].live = FALSE]
  /\ \/ sentinels' = sentinels \cup {SentinelOf(i)}
     \/ "killed" \in Traffic /\ UNCHANGED sentinels
  /\ UNCHANGED <<epoch, claims, claimSeq, releasedAt, agents, peers, net, route, jobs>>

\* _watch_agent: the sentinel is there, or the claim was yielded, or the
\* backstop of _agent_max_secs has passed.
WatchEnds(n, k) ==
  /\ agents[n][k] # 0
  /\ LET done == SentinelOf(agents[n][k])
     IN /\ \/ done \in sentinels
           \/ ~Held(claims[n][k][n])
           \/ "overrun" \in Traffic
        /\ sentinels' = sentinels \ {done}
  /\ agents' = [agents EXCEPT ![n][k] = 0]
  /\ IF claims[n][k][n] # NoClaim
     THEN EmitClaim(n, k, FALSE, claims[n]) /\ net' = Announce(net, n, k, FALSE)
     ELSE UNCHANGED <<claims, claimSeq, releasedAt, net>>
  /\ UNCHANGED <<epoch, procs, peers, route, jobs>>

\* The node dies and comes back: its memory is gone, its agents are not, and
\* the sentinels it finds are swept.
Restart(n) ==
  /\ "restart" \in Traffic
  /\ \A m \in Node : epoch[m] < MaxEpoch
  /\ epoch' = [epoch EXCEPT ![n] = @ + 1]
  /\ claims' = [claims EXCEPT ![n] = [k \in Key |-> [m \in Node |-> NoClaim]]]
  /\ claimSeq' = [claimSeq EXCEPT ![n] = [k \in Key |-> -1]]
  /\ releasedAt' = [releasedAt EXCEPT ![n] = {}]
  /\ agents' = [agents EXCEPT ![n] = [k \in Key |-> 0]]
  /\ sentinels' = {s \in sentinels : s[1] # n}
  /\ peers' = [peers EXCEPT ![n] = [m \in Node |-> Stranger]]
  /\ net' = [m \in Node |-> [net[m] EXCEPT ![n] = <<>>]]
  /\ route' = [route EXCEPT ![n] = NoRoute]
  /\ UNCHANGED <<procs, jobs>>

----------------------------------------------------------------------------
(* Dispatch *)

Placed(n) == route' = [route EXCEPT ![n] = NoRoute]

\* The candidates a dispatcher passes over without leaving its step: peers it
\* has no link to, and itself when a duty or the token budget declines.
PassedOver(n, left) == {e \in left \ {n} : ~Linked(n, e)}
                         \cup (IF "refuse" \in Traffic THEN {n} ELSE {})

\* dispatch from one await to the next: candidates are tried until one runs
\* here (one's own request is always personal), a peer has been asked, or
\* none is left.
TryFrom(n, k, left) ==
  \E passed \in SUBSET PassedOver(n, left) :
    LET rest == left \ passed
    IN \/ /\ n \in rest /\ \E scan \in Scans : Handled(n, k, scan)
          /\ NoSpawn /\ Placed(n) /\ UNCHANGED <<net, jobs>>
       \/ /\ n \in rest /\ \E scan \in Scans : ~Handled(n, k, scan)
          /\ Spawn(n, k) /\ Placed(n)
          /\ net' = Announce(net, n, k, TRUE) /\ UNCHANGED jobs
       \/ \E e \in rest \ {n} :
          /\ Linked(n, e) /\ jobs < MaxJobs
          /\ jobs' = jobs + 1
          /\ net' = Reply(net, n, e, Job(k, jobs'))
          /\ route' = [route EXCEPT ![n] = [key |-> k, left |-> rest \ {e},
                                            job |-> jobs', to |-> e]]
          /\ NoSpawn
       \/ rest = {} /\ Placed(n) /\ NoSpawn /\ UNCHANGED <<net, jobs>>

\* The owner of the key is read once, before the first candidate.
Dispatch(n, k) ==
  /\ route[n] = NoRoute
  /\ Owners(n, k) = {}
  /\ TryFrom(n, k, {n} \cup {m \in Node : Linked(n, m)})
  /\ UNCHANGED <<epoch, sentinels, peers>>

\* An explicit target, or a server which runs everything itself, is not held
\* up by a claim; its executor claims the key all the same.
DispatchTo(n, k, e) ==
  /\ "target" \in Traffic
  /\ route[n] = NoRoute
  /\ TryFrom(n, k, {e})
  /\ UNCHANGED <<epoch, sentinels, peers>>

\* The candidate asked did not take it: on to the next one.
FailOver(n) ==
  /\ route[n] # NoRoute /\ route[n].job = 0
  /\ TryFrom(n, route[n].key, route[n].left)
  /\ UNCHANGED <<epoch, sentinels, peers>>

Asked(n) == route[n] # NoRoute /\ route[n].job # 0
Unanswered(n) == route' = [route EXCEPT ![n].job = 0]

\* _take_job: a stranger is declined (no confinement runner here), a duty or
\* the token budget may decline too, and the outcome is answered at once.
OnJob(n, m) ==
  /\ Reads(n, m, "dispatch")
  /\ LET k == Msg(n, m).key
         Answer(wire, spawned) == Reply(wire, n, m, JobStatus(Msg(n, m).job, spawned))
         personal == Linked(n, m) /\ peers[n][m].proved /\ <<n, m>> \in Personal
     IN \/ /\ ~personal \/ "refuse" \in Traffic
           /\ NoSpawn /\ net' = Answer(Rest(n, m), FALSE)
        \/ /\ personal /\ \E scan \in Scans : Handled(n, k, scan)
           /\ NoSpawn /\ net' = Answer(Rest(n, m), TRUE)
        \/ /\ personal /\ \E scan \in Scans : ~Handled(n, k, scan)
           /\ Spawn(n, k)
           /\ net' = Answer(Announce(Rest(n, m), n, k, TRUE), TRUE)
  /\ UNCHANGED <<epoch, sentinels, peers, route, jobs>>

\* Only the answer to the job just asked counts.
OnJobStatus(n, m) ==
  /\ Reads(n, m, "job-status")
  /\ net' = Rest(n, m)
  /\ IF ~Asked(n) \/ Msg(n, m).job # route[n].job \/ m # route[n].to THEN UNCHANGED route
     ELSE IF Msg(n, m).spawned THEN Placed(n) ELSE Unanswered(n)
  /\ UNCHANGED <<epoch, claims, claimSeq, releasedAt, agents, procs, sentinels, peers, jobs>>

\* dispatchAckTimeoutSecs
AckTimeout(n) ==
  /\ Asked(n)
  /\ "timeout" \in Traffic \/ ~Linked(n, route[n].to)
  /\ Unanswered(n)
  /\ UNCHANGED <<epoch, claims, claimSeq, releasedAt, agents, procs, sentinels,
                 peers, net, jobs>>

----------------------------------------------------------------------------

\* Joined: every two nodes have met and proved their keys before any work.
Init ==
  /\ epoch = [n \in Node |-> 1]
  /\ claims = [n \in Node |-> [k \in Key |-> [m \in Node |-> NoClaim]]]
  /\ claimSeq = [n \in Node |-> [k \in Key |-> -1]]
  /\ releasedAt = [n \in Node |-> {}]
  /\ agents = [n \in Node |-> [k \in Key |-> 0]]
  /\ procs = <<>>
  /\ sentinels = {}
  /\ peers = [n \in Node |-> [m \in Node |->
                IF Joined /\ m # n THEN [linked |-> TRUE, proved |-> TRUE, epoch |-> 1]
                                   ELSE Stranger]]
  /\ net = [n \in Node |-> [m \in Node |-> <<>>]]
  /\ route = [n \in Node |-> NoRoute]
  /\ jobs = 0

Deliver(n, m) == \/ OnHello(n, m) \/ OnAuth(n, m) \/ OnWorkClaim(n, m)
                 \/ OnJob(n, m) \/ OnJobStatus(n, m)

Next ==
  \/ \E n, m \in Node : \/ Deliver(n, m)
                        \/ Connect(n, m) \/ LinkLost(n, m) \/ Eof(n, m)
                        \/ Hear(n, m) \/ ReapPeer(n, m)
  \/ \E n \in Node, k \in Key : \/ ClaimVerb(n, k) \/ ReapReleased(n, k)
                                \/ WatchEnds(n, k) \/ Dispatch(n, k)
                                \/ \E e \in Node : DispatchTo(n, k, e)
  \/ \E n \in Node : Restart(n) \/ FailOver(n) \/ AckTimeout(n)
  \/ \E i \in DOMAIN procs : AgentExits(i)

Spec == Init /\ [][Next]_vars

\* An agent runs as long as it likes: it is the backstop of its watcher that
\* is fair, with the loops that read the links.
FairSpec == /\ Spec
            /\ \A n, m \in Node : WF_vars(Deliver(n, m)) /\ WF_vars(Eof(n, m))
            /\ \A n \in Node, k \in Key : WF_vars(WatchEnds(n, k))

----------------------------------------------------------------------------
(* Properties *)

\* Every variable has the shape its declaration gives it.
TypeOK ==
  /\ epoch \in [Node -> Nat]
  /\ claims \in [Node -> [Key -> [Node -> Claim \cup {NoClaim}]]]
  /\ claimSeq \in [Node -> [Key -> Seqno]]
  /\ releasedAt \in [Node -> SUBSET Key]
  /\ agents \in [Node -> [Key -> Nat]]
  /\ procs \in Seq(AgentProc)
  /\ sentinels \subseteq Node \X Key \X (Nat \X Nat)
  /\ peers \in [Node -> [Node -> Peer]]
  /\ net \in [Node -> [Node -> Seq(Message)]]
  /\ route \in [Node -> Route \cup {NoRoute}]
  /\ jobs \in Nat

InBooks == {claims[n][k][m] : n \in Node, k \in Key, m \in Node} \ {NoClaim}
OnWire == UNION {{net[a][b][i].claim : i \in {j \in DOMAIN net[a][b] : net[a][b][j].t = "work-claim"}}
                   : a \in Node, b \in Node}

\* (epoch, seq) orders the records of a claimant on a key: two copies that
\* neither out-fresh the other, wherever they were relayed or kept, say the
\* same.  Otherwise two nodes could keep different owners for good.
CopiesAgree ==
  \A r, s \in InBooks \cup OnWire :
    (/\ r.node = s.node /\ r.key = s.key
     /\ ~Newer(r, s) /\ ~Newer(s, r)) => r = s

\* _spawn_local's two guards: whatever was yielded, restarted or dispatched
\* again, a host never runs two agents for one key while its scan works.
OneAgentPerHost ==
  \A n \in Node, k \in Key : \A i, j \in OnHost(n, k) : i = j

\* The completion file a watcher waits for was written by the agent it
\* watches, never by an earlier one for the same key that outlived a restart.
SentinelIsOwn ==
  \A n \in Node, k \in Key :
    (agents[n][k] # 0 /\ SentinelOf(agents[n][k]) \in sentinels) => ~procs[agents[n][k]].live

\* An agent under watch has a claim record at its host, active or yielded:
\* without one the watcher would drop the lease at its first poll.
WatchedIsClaimed ==
  \A n \in Node, k \in Key : agents[n][k] # 0 => claims[n][k][n] # NoClaim

\* A node that suppresses work because of m, over a link both ends hold, is
\* right, or will be told: m's claim is still active, or the record that
\* withdraws it is on a wire, to the node or to one that relays it.
HolderIsBacked ==
  \A n, m \in Node : \A k \in Key :
    (/\ n # m /\ m \in Owners(n, k)
     /\ Linked(m, n) /\ ~Opens(n, m) /\ ~Opens(m, n))
      => \/ Held(claims[m][k][m])
         \/ \E r \in OnWire : /\ r.node = m /\ r.key = k
                                     /\ Newer(r, claims[n][k][m])

\* Work that a peer's claim suppresses is not suppressed for ever.
SuppressionEnds ==
  \A n \in Node, k \in Key :
    (\E m \in Node \ {n} : m \in Owners(n, k)) ~> (\A m \in Node \ {n} : m \notin Owners(n, k))

\* A claim is given up only when its agent is over or somebody better has
\* started one: the work never ends up with nobody.
NobodyYieldsToNobody ==
  [][\A n \in Node, k \in Key :
       (/\ agents[n][k] # 0 /\ Held(claims[n][k][n])
        /\ procs[agents[n][k]].live
        /\ epoch'[n] = epoch[n] /\ agents'[n][k] # 0 /\ ~Held(claims'[n][k][n]))
          => \E i \in DOMAIN procs : procs[i].host < n /\ procs[i].key = k]_vars
=============================================================================
