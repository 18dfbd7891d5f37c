------------------------- MODULE AutofixMonitorProofs -------------------------
(***************************************************************************)
(* Theorems about AutofixMonitor, for any pull requests, agents and        *)
(* traffic.                                                                *)
(*                                                                         *)
(* A listing of the processes that is still served, and came of a ps that  *)
(* worked, holds every live agent but the young ones (Fresh), and one that *)
(* came of a ps that failed leaves the list, which holds every live agent  *)
(* that it has not lost (Accounted).  And the last dispatch for what a pull request owes is, unless   *)
(* its record was lost, in the records a pass goes by: on disk between two *)
(* passes of that kind, in the memory of the poll during one (Recs); so a  *)
(* call that got past the backoff finds none (Paced).                      *)
(***************************************************************************)
EXTENDS AutofixMonitor, TLAPS

----------------------------------------------------------------------------
(* The inductive invariant *)

Stages == {"idle", "events"} \cup Jobs
AgentRecord == [pr : Pr \cup {0}, live : BOOLEAN, young : BOOLEAN, old : BOOLEAN, done : BOOLEAN]
Listing == [of : SUBSET Agents, failed : BOOLEAN]
CallRecord == [pc : {"off", "gate", "prune", "route", "spawn"}, pr : Pr \cup {0}, job : Jobs,
               attempt : 0..2, live : SUBSET Agents]
Records == [Pr -> Record \cup {NoRecord}]
PollRecord == [stage : Stages, snap : [Pr -> State], items : SUBSET Pr, recs : Records]

World ==
  /\ github \in [Pr -> State] /\ agent \in [Agents -> AgentRecord]
  /\ \A i \in Agents : agent[i].live => agent[i].pr \in Pr
Disk == attempts \in [Jobs -> Records] /\ last \in [Jobs -> [Pr -> {"never", "hot", "cooled"}]]
Calls == call \in [Thread -> CallRecord] /\ \A t \in Thread : call[t].pc # "off" => call[t].pr \in Pr
Lists ==
  /\ tracked \subseteq Agents \ Free /\ lost \subseteq Agents /\ dispatching \subseteq Pr
  /\ psCache # NoCache => psCache \in Listing
  /\ \A t \in Thread : call[t].live \subseteq Agents \ Free
Typed == World /\ Disk /\ Calls /\ Lists /\ poll \in PollRecord

\* A listing that did not fail holds every live agent but the young ones.
Fresh ==
  (psCache # NoCache /\ ~psCache.failed) => \A i \in Agents : agent[i].live /\ ~agent[i].young => i \in psCache.of

\* The list holds every live agent that it has not lost.
Accounted == \A i \in Agents : agent[i].live => i \in tracked \cup lost

\* A dispatch that is a backoff old at most, and whose record was not lost.
Owing(j, p) == last[j][p] = "hot" /\ <<j, p>> \notin unsaved
Hot(r) == r # NoRecord /\ r.age = "hot"

\* The records that the pass of j goes by.
Going(j) == IF poll.stage = j THEN poll.recs ELSE attempts[j]
Recs == \A j \in Jobs, p \in Pr : Owing(j, p) => Hot(Going(j)[p])

\* The call of the poll has got past the backoff.
Passed == \/ call["poll"].pc \in {"gate", "route", "spawn"}
          \/ call["poll"].pc = "prune" /\ call["poll"].attempt > 0

Paced ==
  /\ poll.stage = "idle" => Quiet
  /\ (poll.stage \in Jobs /\ ~Quiet) => call["poll"].job = poll.stage
  /\ (poll.stage \in Jobs /\ Passed) => ~Owing(poll.stage, call["poll"].pr)

Inv == Typed /\ Fresh /\ Accounted /\ Recs /\ Paced

----------------------------------------------------------------------------
(* What a step does to the agents *)

LEMMA AgentWriters ==
  ASSUME [Next]_vars
  PROVE  \/ agent' = agent
         \/ \E t \in Thread : At(t, "route") /\ \E i \in Agents : Start(i, call[t].pr)
         \/ \E t \in Thread : At(t, "spawn") /\ \E i \in Agents : Start(i, call[t].pr)
         \/ \E i \in Agents : (\E d \in BOOLEAN : Ends(i, d)) \/ Ages(i)
         \/ ListingExpires \/ Unlink
<1>1. CASE UNCHANGED vars
  BY <1>1 DEF vars
<1>2. CASE Polling
  BY <1>2 DEF Polling, PollStart, EdgesDone, Decide, Considers, TakeEdge, TakeOwed, PassDone
<1>3. CASE Around
  BY <1>3 DEF Around, GitHubChanges, Click, Cools, Restart, Raise, AgentEnds, Killed, Listed
<1>4. ASSUME NEW t \in Thread, Gate(t) \/ SpawnFails(t)
      PROVE  agent' = agent \/ Unlink \/ ((At(t, "route") \/ At(t, "spawn")) /\ \E i \in Agents : Start(i, call[t].pr))
  BY <1>4 DEF Gate, Enter, Verdict, Decides, RouteOpen, RouteAway, RouteHere, SpawnTracked, SpawnFails
<1> QED BY <1>1, <1>2, <1>3, <1>4 DEF Next

LEMMA AgentStep ==
  ASSUME World, Calls, [Next]_vars
  PROVE  /\ agent' \in [Agents -> AgentRecord]
         /\ \A i \in Agents : agent'[i].live => agent'[i].pr \in Pr
         /\ \A i \in Agents : agent[i].pr # 0 => agent'[i].pr = agent[i].pr
         /\ \A i \in Agents : (agent'[i].live /\ ~agent'[i].young) =>
              agent[i].live /\ (~agent[i].young \/ psCache' = NoCache)
<1>1. CASE agent' = agent
  BY <1>1 DEF World
<1>2. ASSUME NEW t \in Thread, At(t, "route") \/ At(t, "spawn"), NEW i \in Agents, Start(i, call[t].pr)
      PROVE  /\ agent' \in [Agents -> AgentRecord]
             /\ \A k \in Agents : agent'[k].live => agent'[k].pr \in Pr
             /\ \A k \in Agents : agent[k].pr # 0 => agent'[k].pr = agent[k].pr
             /\ \A k \in Agents : (agent'[k].live /\ ~agent'[k].young) => agent[k].live /\ ~agent[k].young
  <2> DEFINE a == [pr |-> call[t].pr, live |-> TRUE, young |-> TRUE, old |-> FALSE, done |-> FALSE]
  <2>1. call[t].pr \in Pr /\ agent[i].pr = 0
    BY <1>2 DEF Calls, At, Start, Free
  <2>2. a \in AgentRecord /\ a.pr \in Pr /\ a.young
    BY <2>1 DEF AgentRecord
  <2>3. agent' = [agent EXCEPT ![i] = a]
    BY <1>2 DEF Start
  <2> HIDE DEF a
  <2>4. \A k \in Agents : agent'[k] = IF k = i THEN a ELSE agent[k]
    BY <2>3 DEF World
  <2> QED BY <2>1, <2>2, <2>3, <2>4 DEF World
<1>3. ASSUME NEW i \in Agents, (\E d \in BOOLEAN : Ends(i, d)) \/ Ages(i)
      PROVE  /\ agent' \in [Agents -> AgentRecord]
             /\ \A k \in Agents : agent'[k].live => agent'[k].pr \in Pr
             /\ \A k \in Agents : agent[k].pr # 0 => agent'[k].pr = agent[k].pr
             /\ \A k \in Agents : (agent'[k].live /\ ~agent'[k].young) => agent[k].live /\ ~agent[k].young
  <2>1. PICK a \in AgentRecord :
          /\ agent' = [agent EXCEPT ![i] = a] /\ a.pr = agent[i].pr
          /\ a.live => agent[i].live
          /\ (a.live /\ ~a.young) => ~agent[i].young
    <3>1. agent[i] \in AgentRecord
      BY DEF World
    <3>2. ASSUME NEW d \in BOOLEAN, Ends(i, d)
          PROVE  \E a \in AgentRecord :
                   agent' = [agent EXCEPT ![i] = a] /\ a.pr = agent[i].pr /\ ~a.live
      <4> DEFINE a == [agent[i] EXCEPT !.live = FALSE, !.young = FALSE, !.old = FALSE, !.done = d]
      <4>1. a \in AgentRecord /\ a.pr = agent[i].pr /\ ~a.live
        BY <3>1 DEF AgentRecord
      <4>2. agent' = [agent EXCEPT ![i] = a]
        BY <3>2 DEF Ends, World
      <4> HIDE DEF a
      <4> QED BY <4>1, <4>2
    <3>3. CASE Ages(i)
      <4> DEFINE a == [agent[i] EXCEPT !.old = TRUE]
      <4>1. a \in AgentRecord /\ a.pr = agent[i].pr /\ a.live = agent[i].live /\ a.young = agent[i].young
        BY <3>1 DEF AgentRecord
      <4>2. agent' = [agent EXCEPT ![i] = a]
        BY <3>3 DEF Ages, World
      <4> HIDE DEF a
      <4> QED BY <4>1, <4>2
    <3> QED BY <1>3, <3>2, <3>3
  <2>2. \A k \in Agents : agent'[k] = IF k = i THEN a ELSE agent[k]
    BY <2>1 DEF World
  <2> QED BY <2>1, <2>2 DEF World
<1>4. CASE ListingExpires
  <2>1. psCache' = NoCache /\ agent' = [i \in Agents |-> [agent[i] EXCEPT !.young = FALSE]]
    BY <1>4 DEF ListingExpires
  <2>2. ASSUME NEW i \in Agents
        PROVE  agent'[i] \in AgentRecord /\ agent'[i].pr = agent[i].pr /\ agent'[i].live = agent[i].live
    <3>1. agent[i] \in AgentRecord
      BY DEF World
    <3> QED BY <2>1, <3>1 DEF AgentRecord
  <2> QED BY <2>1, <2>2 DEF World
<1>5. CASE Unlink
  <2>1. ASSUME NEW i \in Agents
        PROVE  /\ agent'[i] \in AgentRecord /\ agent'[i].pr = agent[i].pr
               /\ agent'[i].live = agent[i].live /\ agent'[i].young = agent[i].young
    <3>1. agent[i] \in AgentRecord
      BY DEF World
    <3>2. agent'[i] = agent[i] \/ agent'[i] = [agent[i] EXCEPT !.done = FALSE, !.old = FALSE]
      BY <1>5 DEF Unlink
    <3> QED BY <3>1, <3>2 DEF AgentRecord
  <2>2. agent' \in [Agents -> AgentRecord]
    BY <1>5, <2>1 DEF Unlink
  <2> QED BY <2>1, <2>2 DEF World
<1> QED BY <1>1, <1>2, <1>3, <1>4, <1>5, AgentWriters

LEMMA StateOf ==
  ASSUME NEW g \in State
  PROVE  /\ \A m \in {"ok", "conflict", "unknown"} : [g EXCEPT !.merge = m] \in State
         /\ [g EXCEPT !.changes = TRUE] \in State
         /\ \A h \in 0..1 : [g EXCEPT !.threads = h, !.owed = TRUE] \in State
         /\ \A k \in Nat : [g EXCEPT !.stamp = k] \in State
         /\ \A k \in Nat : [g EXCEPT !.owed = TRUE, !.stamp = k] \in State
BY DEF State

LEMMA CleanState == Clean \in State
BY DEF Clean, State

LEMMA StateAfter ==
  ASSUME NEW g \in State, NEW p, NEW s \in After(g, p)
  PROVE  s \in State
<1> DEFINE h == g.threads + 1
           k == g.stamp + 1
<1>1. \/ s = [g EXCEPT !.merge = "conflict"] \/ s = [g EXCEPT !.merge = "unknown"]
      \/ s = [g EXCEPT !.changes = TRUE]
      \/ g.threads < 1 /\ s = [g EXCEPT !.threads = h, !.owed = TRUE]
      \/ s = [g EXCEPT !.owed = TRUE, !.stamp = k]
  BY DEF After
<1>2. (g.threads < 1 => h \in 0..1) /\ k \in Nat
  <2>1. g.threads \in 0..1 /\ g.stamp \in Nat
    BY DEF State
  <2> QED BY <2>1
<1> HIDE DEF h, k
<1>3. CASE g.threads < 1 /\ s = [g EXCEPT !.threads = h, !.owed = TRUE]
  BY <1>2, <1>3, StateOf
<1>4. CASE s = [g EXCEPT !.owed = TRUE, !.stamp = k]
  BY <1>2, <1>4, StateOf
<1>5. CASE s = [g EXCEPT !.merge = "conflict"] \/ s = [g EXCEPT !.merge = "unknown"] \/ s = [g EXCEPT !.changes = TRUE]
  BY <1>5, StateOf
<1> QED BY <1>1, <1>3, <1>4, <1>5

LEMMA GithubStep ==
  ASSUME World, [Next]_vars
  PROVE  github' \in [Pr -> State]
<1>1. \/ github' = github
      \/ \E p \in Pr : GitHubChanges(p)
      \/ \E i \in Agents : AgentEnds(i)
  <2>1. CASE UNCHANGED vars
    BY <2>1 DEF vars
  <2>2. CASE Polling
    BY <2>2 DEF Polling, PollStart, EdgesDone, Decide, Considers, TakeEdge, TakeOwed, PassDone
  <2>3. CASE Around
    BY <2>3 DEF Around, Ages, Killed, Click, Cools, Restart, Raise, ListingExpires
  <2>4. ASSUME NEW t \in Thread, Gate(t) \/ SpawnFails(t)
        PROVE  github' = github
    BY <2>4 DEF Gate, Enter, Verdict, Decides, RouteOpen, RouteAway, RouteHere, SpawnTracked, SpawnFails
  <2> QED BY <2>1, <2>2, <2>3, <2>4 DEF Next
<1>2. ASSUME NEW p \in Pr, GitHubChanges(p)
      PROVE  github' \in [Pr -> State]
  <2>1. PICK s \in After(github[p], p) : github' = [github EXCEPT ![p] = s]
    BY <1>2 DEF GitHubChanges, Becomes
  <2>2. s \in State
    BY StateAfter DEF World
  <2> QED BY <2>1, <2>2 DEF World
<1>3. ASSUME NEW i \in Agents, AgentEnds(i)
      PROVE  github' \in [Pr -> State]
  <2> DEFINE p == agent[i].pr
             s == [Clean EXCEPT !.stamp = github[p].stamp]
  <2>1. p \in Pr
    BY <1>3 DEF AgentEnds, Ends, World
  <2>2. github[p] \in State
    BY <2>1 DEF World
  <2>3. s \in State
    <3>1. github[p].stamp \in Nat
      BY <2>2 DEF State
    <3> QED BY <3>1, CleanState, StateOf
  <2>4. github' = github \/ github' = [github EXCEPT ![p] = s]
    BY <1>3 DEF AgentEnds, Becomes
  <2> HIDE DEF s, p
  <2> QED BY <2>1, <2>3, <2>4 DEF World
<1> QED BY <1>1, <1>2, <1>3 DEF World

----------------------------------------------------------------------------
(* What a step does to the calls *)

Stays(k, v) == v.pr = k.pr /\ v.job = k.job

\* What thread t makes of its call.
Does(t, v) ==
  LET k == call[t] IN
  \/ v.pc = "off"
  \/ k.pc = "gate" /\ v.pc = "prune" /\ Stays(k, v) /\ v.attempt = k.attempt /\ poll' = poll
  \/ /\ k.pc = "prune" /\ k.attempt > 0 /\ v.pc \in {"route", "spawn"} /\ Stays(k, v) /\ poll' = poll
     /\ Verdict(t)
  \/ k.pc = "route" /\ v.pc = "spawn" /\ Stays(k, v) /\ poll' = poll
  \/ t = "poll" /\ Quiet /\ poll.stage = "events" /\ poll'.stage = "events" /\ v.pc = "gate"
  \/ /\ t = "poll" /\ Quiet /\ poll.stage \in Jobs /\ poll'.stage = poll.stage
     /\ v.pc = "prune" /\ v.attempt = 0 /\ v.job = poll.stage
  \/ /\ t = "poll" /\ k.pc = "prune" /\ ~Hot(poll.recs[k.pr])
     /\ v.pc = "gate" /\ Stays(k, v) /\ poll' = poll
  \/ t = "click" /\ v.pc = "gate" /\ poll' = poll

CallBecomes(t, v) ==
  /\ v \in CallRecord /\ (v.pc # "off" => v.pr \in Pr) /\ v.live \subseteq Agents \ Free
  /\ call' = [call EXCEPT ![t] = v] /\ Does(t, v)

LEMMA OffTyped == Off \in CallRecord /\ Off.pc = "off" /\ Off.live = {}
BY DEF Off, CallRecord, Jobs

LEMMA Resigns ==
  ASSUME NEW t \in Thread, call' = [call EXCEPT ![t] = Off]
  PROVE  \E v \in CallRecord : CallBecomes(t, v)
BY OffTyped DEF CallBecomes, Does

LEMMA EnterCall ==
  ASSUME Typed, NEW t \in Thread, Enter(t)
  PROVE  \E v \in CallRecord : CallBecomes(t, v)
<1>1. call[t] \in CallRecord /\ call[t].pc = "gate" /\ call[t].pr \in Pr /\ poll' = poll
  BY DEF Typed, Calls, Enter, At
<1>2. CASE call' = [call EXCEPT ![t] = Off]
  BY <1>2, Resigns
<1>3. CASE call' = [call EXCEPT ![t].pc = "prune", ![t].live = Pruned]
  <2> DEFINE v == [call[t] EXCEPT !.pc = "prune", !.live = Pruned]
  <2>1. Pruned \subseteq Agents \ Free
    BY DEF Typed, Lists, Pruned
  <2>2. /\ v \in CallRecord /\ v.pc = "prune" /\ v.pr = call[t].pr /\ v.job = call[t].job
        /\ v.attempt = call[t].attempt /\ v.live = Pruned
    BY <1>1, <2>1 DEF CallRecord
  <2>3. call' = [call EXCEPT ![t] = v]
    BY <1>3 DEF Typed, Calls
  <2> HIDE DEF v
  <2>4. Does(t, v)
    BY <1>1, <2>2 DEF Does, Stays
  <2> QED BY <1>1, <2>1, <2>2, <2>3, <2>4 DEF CallBecomes
<1> QED BY <1>2, <1>3 DEF Enter

LEMMA VerdictCall ==
  ASSUME Typed, NEW t \in Thread, Verdict(t)
  PROVE  \E v \in CallRecord : CallBecomes(t, v)
<1>1. /\ call[t] \in CallRecord /\ call[t].pc = "prune" /\ call[t].attempt > 0
      /\ call[t].pr \in Pr /\ poll' = poll
  BY DEF Typed, Calls, Verdict, Decides, At
<1>2. CASE call' = [call EXCEPT ![t] = Off]
  BY <1>2, Resigns
<1>3. CASE call' # [call EXCEPT ![t] = Off]
  <2> DEFINE q == IF t = "poll" /\ "mesh" \in Traffic THEN "route" ELSE "spawn"
             d == {}
             v == [call[t] EXCEPT !.pc = q, !.live = d]
  <2>1. q \in {"route", "spawn"} /\ d \subseteq Agents \ Free /\ d \subseteq Agents
    OBVIOUS
  <2>2. call' = [call EXCEPT ![t] = v]
    BY <1>3 DEF Typed, Calls, Verdict, Decides
  <2> HIDE DEF q, d
  <2>3. /\ v \in CallRecord /\ v.pc = q /\ v.pr = call[t].pr /\ v.job = call[t].job /\ v.live = d
    BY <1>1, <2>1 DEF CallRecord
  <2> HIDE DEF v
  <2>4. Does(t, v)
    BY <1>1, <1>3, <2>1, <2>3 DEF Does, Stays
  <2> QED BY <1>1, <2>1, <2>2, <2>3, <2>4 DEF CallBecomes
<1> QED BY <1>2, <1>3

LEMMA RouteCall ==
  ASSUME Typed, NEW t \in Thread, RouteOpen(t)
  PROVE  \E v \in CallRecord : CallBecomes(t, v)
<1>1. /\ call[t] \in CallRecord /\ call[t].pc = "route" /\ call[t].pr \in Pr /\ poll' = poll
      /\ call[t].live \subseteq Agents \ Free
  BY DEF Typed, Calls, Lists, RouteOpen, At
<1> DEFINE v == [call[t] EXCEPT !.pc = "spawn"]
<1>2. /\ v \in CallRecord /\ v.pc = "spawn" /\ v.pr = call[t].pr /\ v.job = call[t].job
      /\ v.live = call[t].live
  BY <1>1 DEF CallRecord
<1>3. call' = [call EXCEPT ![t] = v]
  BY DEF Typed, Calls, RouteOpen, Goto
<1> HIDE DEF v
<1>4. Does(t, v)
  BY <1>1, <1>2 DEF Does, Stays
<1> QED BY <1>1, <1>2, <1>3, <1>4 DEF CallBecomes

LEMMA DecideCall ==
  ASSUME Typed, Decide
  PROVE  \E v \in CallRecord : CallBecomes("poll", v)
<1> DEFINE k == call["poll"]
           p == k.pr
           r == poll.recs[p]
<1>1. "poll" \in Thread /\ k \in CallRecord /\ k.pc = "prune" /\ p \in Pr /\ poll' = poll
  BY DEF Typed, Calls, Decide, Considers, At, Thread
<1>2. CASE call' = [call EXCEPT !["poll"] = Off]
  BY <1>1, <1>2, Resigns
<1>3. CASE call' # [call EXCEPT !["poll"] = Off]
  <2> DEFINE a == IF r # NoRecord /\ r.stamp = poll.snap[p].stamp THEN 2 ELSE 1
             d == {}
             v == [k EXCEPT !.pc = "gate", !.live = d, !.attempt = a]
  <2>1. ~Cooling(r, poll.snap[p].stamp) /\ call' = [call EXCEPT !["poll"] = v]
    BY <1>3 DEF Decide, Considers, Typed, Calls
  <2>2. a \in 0..2 /\ d \subseteq Agents \ Free /\ d \subseteq Agents
    OBVIOUS
  <2> HIDE DEF a, d
  <2>3. v \in CallRecord /\ v.pc = "gate" /\ v.pr = p /\ v.job = k.job /\ v.live = d
    BY <1>1, <2>2 DEF CallRecord
  <2> HIDE DEF v
  <2>4. ~Hot(r)
    BY <2>1 DEF Cooling, Hot
  <2>5. Does("poll", v)
    BY <1>1, <2>3, <2>4 DEF Does, Stays
  <2> QED BY <1>1, <2>1, <2>2, <2>3, <2>5 DEF CallBecomes
<1> QED BY <1>2, <1>3

LEMMA BegunTyped ==
  ASSUME Typed, NEW p \in Pr, NEW j \in Jobs, NEW c \in {"gate", "prune"}, NEW n \in 0..2, Begin(p, j, c, n)
  PROVE  \E v \in CallRecord :
           /\ v.pc = c /\ v.pr = p /\ v.job = j /\ v.attempt = n /\ v.live \subseteq Agents \ Free
           /\ call' = [call EXCEPT !["poll"] = v]
<1> DEFINE l == IF c = "prune" THEN Pruned ELSE {}
           v == [Off EXCEPT !.pc = c, !.pr = p, !.job = j, !.attempt = n, !.live = l]
<1>1. l \subseteq Agents \ Free /\ l \subseteq Agents
  BY DEF Typed, Lists, Pruned
<1>2. call' = [call EXCEPT !["poll"] = v]
  BY DEF Begin
<1> HIDE DEF l
<1>3. v \in CallRecord /\ v.pc = c /\ v.pr = p /\ v.job = j /\ v.attempt = n /\ v.live = l
  <2> DEFINE o == Off
  <2>1. o \in CallRecord /\ v = [o EXCEPT !.pc = c, !.pr = p, !.job = j, !.attempt = n, !.live = l]
    BY OffTyped
  <2> HIDE DEF o, v
  <2> QED BY <1>1, <2>1 DEF CallRecord
<1> HIDE DEF v
<1> QED BY <1>1, <1>2, <1>3

LEMMA TakeCall ==
  ASSUME Typed, NEW p \in Pr, TakeEdge(p) \/ TakeOwed(p)
  PROVE  \E v \in CallRecord : CallBecomes("poll", v)
<1>1. Quiet /\ poll'.stage = poll.stage
  BY DEF TakeEdge, TakeOwed, Typed, PollRecord
<1>2. CASE TakeEdge(p)
  <2>1. Begin(p, "review", "gate", 1) /\ poll.stage = "events" /\ "review" \in Jobs
    BY <1>2 DEF TakeEdge, Jobs
  <2>2. PICK v \in CallRecord :
          /\ v.pc = "gate" /\ v.pr = p /\ v.live \subseteq Agents \ Free
          /\ call' = [call EXCEPT !["poll"] = v]
    BY <2>1, BegunTyped
  <2>3. Does("poll", v)
    BY <1>1, <2>1, <2>2 DEF Does
  <2> QED BY <2>2, <2>3 DEF CallBecomes
<1>3. CASE TakeOwed(p)
  <2>1. Begin(p, poll.stage, "prune", 0) /\ poll.stage \in Jobs
    BY <1>3 DEF TakeOwed
  <2>2. PICK v \in CallRecord :
          /\ v.pc = "prune" /\ v.pr = p /\ v.job = poll.stage /\ v.attempt = 0 /\ v.live \subseteq Agents \ Free
          /\ call' = [call EXCEPT !["poll"] = v]
    BY <2>1, BegunTyped
  <2>3. Does("poll", v)
    BY <1>1, <2>1, <2>2 DEF Does
  <2> QED BY <2>2, <2>3 DEF CallBecomes
<1> QED BY <1>2, <1>3

LEMMA ClickCall ==
  ASSUME Typed, NEW p \in Mine, Click(p, "review")
  PROVE  \E v \in CallRecord : CallBecomes("click", v)
<1> DEFINE o == Off
           d == {}
           j == "review"
           n == 1
           v == [o EXCEPT !.pc = "gate", !.pr = p, !.job = j, !.attempt = n]
<1>1. o \in CallRecord /\ o.live = d /\ p \in Pr /\ j \in Jobs /\ n \in 0..2 /\ d \subseteq Agents \ Free
  BY OffTyped DEF Pr, Jobs
<1>2. call' = [call EXCEPT !["click"] = v] /\ poll' = poll
  BY DEF Click
<1> HIDE DEF o, d, j, n
<1>3. v \in CallRecord /\ v.pc = "gate" /\ v.pr = p /\ v.live = d
  BY <1>1 DEF CallRecord
<1> HIDE DEF v
<1>4. Does("click", v)
  BY <1>2, <1>3 DEF Does
<1> QED BY <1>1, <1>2, <1>3, <1>4 DEF CallBecomes

LEMMA CallStep ==
  ASSUME Typed, [Next]_vars
  PROVE  \/ call' = call
         \/ call' = [t \in Thread |-> Off]
         \/ \E t \in Thread : \E v \in CallRecord : CallBecomes(t, v)
<1>1. CASE UNCHANGED vars
  BY <1>1 DEF vars
<1>2. CASE Polling
  <2>1. CASE PollStart \/ EdgesDone
    BY <2>1 DEF PollStart, EdgesDone
  <2>2. ASSUME NEW j \in Jobs, PassDone(j) PROVE call' = call
    BY <2>2 DEF PassDone
  <2> QED BY <1>2, <2>1, <2>2, DecideCall, TakeCall DEF Polling, Thread
<1>3. CASE Around
  <2>1. ASSUME NEW p \in Pr, GitHubChanges(p) PROVE call' = call
    BY <2>1 DEF GitHubChanges
  <2>2. ASSUME NEW i \in Agents, AgentEnds(i) \/ Killed(i) \/ Ages(i) PROVE call' = call
    BY <2>2 DEF AgentEnds, Killed, Ends, Ages
  <2>3. ASSUME NEW j \in Jobs, NEW p \in Pr, Cools(j, p) PROVE call' = call
    BY <2>3 DEF Cools
  <2>4. ListingExpires => call' = call
    BY DEF ListingExpires
  <2>5. Restart => call' = [t \in Thread |-> Off]
    BY DEF Restart
  <2>6. Raise => \E v \in CallRecord : CallBecomes("poll", v)
    BY Resigns DEF Raise, Thread
  <2> QED BY <1>3, <2>1, <2>2, <2>3, <2>4, <2>5, <2>6, ClickCall DEF Around, Thread
<1>4. ASSUME NEW t \in Thread, Gate(t) \/ SpawnFails(t)
      PROVE  \E v \in CallRecord : CallBecomes(t, v)
  <2>1. CASE RouteAway(t) \/ RouteHere(t) \/ SpawnTracked(t) \/ SpawnFails(t)
    BY <2>1, Resigns DEF RouteAway, RouteHere, SpawnTracked, SpawnFails, Return
  <2> QED BY <1>4, <2>1, EnterCall, VerdictCall, RouteCall DEF Gate
<1> QED BY <1>1, <1>2, <1>3, <1>4 DEF Next

----------------------------------------------------------------------------
(* What a step does to the records *)

Verdicts == {"spawned", "stand_down", "failed"}

LEMMA PassWriters ==
  ASSUME [Next]_vars
  PROVE  \/ UNCHANGED <<poll, attempts, last, unsaved>>
         \/ \E p \in Pr : poll' = [poll EXCEPT !.items = @ \ {p}] /\ UNCHANGED <<attempts, last, unsaved>>
         \/ \E t \in Thread, v \in Verdicts : ~At(t, "off") /\ Return(t, v) /\ UNCHANGED attempts
         \/ PollStart \/ EdgesDone \/ (\E j \in Jobs : PassDone(j)) \/ (\E j \in Jobs, p \in Pr : Cools(j, p))
         \/ Raise \/ Restart
<1>1. CASE UNCHANGED vars
  BY <1>1 DEF vars, disk, happened
<1>2. CASE Polling
  <2>1. ASSUME NEW p \in Pr, TakeEdge(p) \/ TakeOwed(p)
        PROVE  poll' = [poll EXCEPT !.items = @ \ {p}] /\ UNCHANGED <<attempts, last, unsaved>>
    BY <2>1 DEF TakeEdge, TakeOwed, disk, happened
  <2>2. Decide => UNCHANGED <<poll, attempts, last, unsaved>>
    BY DEF Decide, Considers, disk, happened
  <2> QED BY <1>2, <2>1, <2>2 DEF Polling
<1>3. CASE Around
  <2>1. ASSUME NEW p \in Pr, GitHubChanges(p) PROVE UNCHANGED <<poll, attempts, last, unsaved>>
    BY <2>1 DEF GitHubChanges, disk
  <2>2. ASSUME NEW i \in Agents, AgentEnds(i) \/ Killed(i) \/ Ages(i) PROVE UNCHANGED <<poll, attempts, last, unsaved>>
    BY <2>2 DEF AgentEnds, Killed, Ends, Ages, disk, happened
  <2>3. ASSUME NEW p \in Mine, Click(p, "review") PROVE UNCHANGED <<poll, attempts, last, unsaved>>
    BY <2>3 DEF Click, disk, happened
  <2>4. ListingExpires => UNCHANGED <<poll, attempts, last, unsaved>>
    BY DEF ListingExpires, disk, happened
  <2> QED BY <1>3, <2>1, <2>2, <2>3, <2>4 DEF Around
<1>4. ASSUME NEW t \in Thread, Gate(t) \/ SpawnFails(t)
      PROVE  \/ UNCHANGED <<poll, attempts, last, unsaved>>
             \/ \E v \in Verdicts : ~At(t, "off") /\ Return(t, v) /\ UNCHANGED attempts
  <2>1. CASE Enter(t) \/ Verdict(t) \/ RouteOpen(t)
    BY <2>1 DEF Enter, Verdict, Decides, RouteOpen, disk, happened
  <2>2. CASE RouteAway(t) \/ RouteHere(t) \/ SpawnTracked(t) \/ SpawnFails(t)
    BY <2>2 DEF RouteAway, RouteHere, SpawnTracked, SpawnFails, At, Verdicts, disk
  <2> QED BY <1>4, <2>1, <2>2 DEF Gate
<1> QED BY <1>1, <1>2, <1>3, <1>4 DEF Next

LEMMA HotRecord ==
  ASSUME NEW k \in Nat
  PROVE  [stamp |-> k, age |-> "hot"] \in Record /\ Hot([stamp |-> k, age |-> "hot"])
<1>1. [stamp |-> k, age |-> "hot"] \in Record /\ [stamp |-> k, age |-> "hot"].age = "hot"
  BY DEF Record
<1> QED BY <1>1, NoRecordIsNone DEF Hot

\* What dispatch_agent leaves of a dispatch of the passes: a record, at once.
LEMMA ReturnStep ==
  ASSUME Typed, Paced, NEW t \in Thread, NEW v \in Verdicts, ~At(t, "off"), Return(t, v)
  PROVE  /\ poll' \in PollRecord /\ poll'.stage = poll.stage
         /\ last' \in [Jobs -> [Pr -> {"never", "hot", "cooled"}]]
         /\ t = "click" => UNCHANGED <<poll, last, unsaved>>
         /\ \/ UNCHANGED <<poll, last, unsaved>>
            \/ \E j \in Jobs, p \in Pr :
                 /\ poll.stage = j /\ Hot(poll'.recs[p])
                 /\ \A q \in Pr : q # p => poll'.recs[q] = poll.recs[q]
                 /\ last' = [last EXCEPT ![j][p] = "hot"] /\ unsaved' = unsaved \ {<<j, p>>}
<1> DEFINE p == call[t].pr
           j == call[t].job
           k == poll.snap[p].stamp
           r == [stamp |-> k, age |-> "hot"]
           passed == t = "poll" /\ poll.stage # "events" /\ v # "failed"
<1>1. p \in Pr /\ j \in Jobs
  BY DEF Typed, Calls, CallRecord, At
<1>2. CASE ~passed
  <2>1. UNCHANGED <<poll, last, unsaved>>
    BY <1>2 DEF Return
  <2> QED BY <2>1 DEF Typed, Disk
<1>3. CASE passed
  <2>1. t = "poll" /\ poll.stage \in Jobs /\ j = poll.stage
    BY <1>3 DEF Paced, Typed, PollRecord, Stages, At, Quiet
  <2>2. k \in Nat
    BY <1>1 DEF Typed, PollRecord, State
  <2>3. r \in Record /\ Hot(r)
    BY <2>2, HotRecord
  <2>4. /\ last' = [last EXCEPT ![j][p] = "hot"] /\ unsaved' = unsaved \ {<<j, p>>}
        /\ poll' = [poll EXCEPT !.recs[p] = r]
    BY <1>3 DEF Return, Recorded, Verdicts
  <2> HIDE DEF r, p, j
  <2>5. /\ poll' \in PollRecord /\ poll'.stage = poll.stage /\ poll'.recs[p] = r
        /\ \A q \in Pr : q # p => poll'.recs[q] = poll.recs[q]
    <3> DEFINE f == [poll.recs EXCEPT ![p] = r]
    <3>1. poll \in PollRecord /\ poll' = [poll EXCEPT !.recs = f]
      BY <2>4 DEF Typed, PollRecord
    <3>2. f \in Records /\ f[p] = r /\ \A q \in Pr : q # p => f[q] = poll.recs[q]
      BY <1>1, <2>3, <3>1 DEF PollRecord, Records
    <3> HIDE DEF f
    <3>3. poll' \in PollRecord /\ poll'.stage = poll.stage /\ poll'.recs = f
      BY <3>1, <3>2 DEF PollRecord
    <3> QED BY <3>2, <3>3
  <2>6. last' \in [Jobs -> [Pr -> {"never", "hot", "cooled"}]]
    BY <1>1, <2>4 DEF Typed, Disk
  <2> QED BY <1>1, <2>1, <2>3, <2>4, <2>5, <2>6 DEF Thread
<1> QED BY <1>2, <1>3

\* A pass is begun with the records of its kind.
LEMMA PassTyped ==
  ASSUME Typed, NEW j \in Jobs, NEW g \in [Pr -> State]
  PROVE  LET b == [stage |-> j, snap |-> g, recs |-> attempts[j], items |-> {p \in Pr : Owes(g, j, p)}] IN
         b \in PollRecord /\ b.stage = j /\ b.recs = attempts[j]
<1> DEFINE i == {p \in Pr : Owes(g, j, p)}
<1>1. i \subseteq Pr /\ attempts[j] \in Records /\ j \in Stages
  BY DEF Typed, Disk, Stages
<1> HIDE DEF i
<1>2. [stage |-> j, snap |-> g, recs |-> attempts[j], items |-> i] \in PollRecord
  BY <1>1 DEF PollRecord
<1> QED BY <1>2 DEF i

LEMMA RestingTyped == Resting \in PollRecord /\ Resting.stage = "idle"
<1> DEFINE r == [p \in Pr |-> NoRecord]
           g == [p \in Pr |-> Clean]
           i == {}
           s == "idle"
<1>1. r \in Records /\ g \in [Pr -> State] /\ i \subseteq Pr /\ s \in Stages
  BY CleanState DEF Records, Stages
<1>2. Resting = [stage |-> s, snap |-> g, items |-> i, recs |-> r]
  BY DEF Resting
<1> HIDE DEF r, g, i
<1> QED BY <1>1, <1>2 DEF PollRecord

LEMMA SavedTyped == ASSUME Typed, NEW j \in Jobs PROVE Saved(j) \in Records
BY DEF Typed, PollRecord, Records, Saved

\* The end of a pass saves what it keeps, and begins the next one.
LEMMA PassDoneStep ==
  ASSUME Typed, NEW j \in Jobs, PassDone(j)
  PROVE  /\ poll.stage = j /\ Quiet /\ call' = call /\ unsaved' = unsaved
         /\ attempts' = [attempts EXCEPT ![j] = Saved(j)]
         /\ \A p \in Pr : last'[j][p] = "hot" => last[j][p] = "hot" /\ Saved(j)[p] = poll.recs[p]
         /\ \A i \in Jobs : i # j => last'[i] = last[i]
         /\ last' \in [Jobs -> [Pr -> {"never", "hot", "cooled"}]]
         /\ poll' \in PollRecord /\ poll'.stage # j
         /\ poll'.stage \in Jobs => poll'.recs = attempts[poll'.stage]
<1>1. /\ poll.stage = j /\ Quiet /\ call' = call /\ unsaved' = unsaved
      /\ attempts' = [attempts EXCEPT ![j] = Saved(j)]
      /\ last' = [last EXCEPT ![j] = [p \in Pr |-> IF Kept(j, p) THEN last[j][p] ELSE "never"]]
  BY DEF PassDone
<1>2. /\ \A p \in Pr : last'[j][p] = "hot" => last[j][p] = "hot" /\ Saved(j)[p] = poll.recs[p]
      /\ \A i \in Jobs : i # j => last'[i] = last[i]
      /\ last' \in [Jobs -> [Pr -> {"never", "hot", "cooled"}]]
  BY <1>1 DEF Saved, Typed, Disk
<1>3. poll.snap \in [Pr -> State] /\ github \in [Pr -> State]
  BY DEF Typed, PollRecord, World
<1>4. poll' \in PollRecord /\ poll'.stage # j /\ (poll'.stage \in Jobs => poll'.recs = attempts[poll'.stage])
  <2>1. CASE j = "review"
    <3>1. poll' = Pass("conflicts") /\ "conflicts" \in Jobs
      BY <2>1 DEF PassDone, Jobs
    <3>2. poll' \in PollRecord /\ poll'.stage = "conflicts" /\ poll'.recs = attempts["conflicts"]
      BY <3>1, <1>3, PassTyped DEF Pass
    <3> QED BY <2>1, <3>2
  <2>2. CASE j = "conflicts"
    <3>1. /\ poll' = [stage |-> "request", snap |-> github, recs |-> attempts["request"],
                      items |-> {p \in Pr : Owes(github, "request", p)}]
          /\ "request" \in Jobs
      BY <2>2 DEF PassDone, Jobs
    <3>2. poll' \in PollRecord /\ poll'.stage = "request" /\ poll'.recs = attempts["request"]
      BY <3>1, <1>3, PassTyped
    <3> QED BY <2>2, <3>2
  <2>3. CASE j = "request"
    <3>1. poll' = Resting
      BY <2>3 DEF PassDone
    <3> QED BY <2>3, <3>1, RestingTyped DEF Jobs
  <2> QED BY <2>1, <2>2, <2>3 DEF Jobs
<1> QED BY <1>1, <1>2, <1>4

----------------------------------------------------------------------------
(* The invariant is kept *)

LEMMA FreeShrinks ==
  ASSUME World, Calls, [Next]_vars
  PROVE  Free' \subseteq Free
BY AgentStep DEF Free

LEMMA ListWriters ==
  ASSUME [Next]_vars
  PROVE  /\ \/ tracked' = tracked \/ tracked' = {} \/ \E t \in Thread : tracked' = call[t].live
            \/ \E t \in Thread, i \in Agents : At(t, "spawn") /\ Start(i, call[t].pr) /\ tracked' = tracked \cup {i}
         /\ lost' \subseteq lost \cup tracked \cup Agents
         /\ psCache' = psCache \/ psCache' = NoCache \/ (psCache' \in Listings /\ agent' = agent)
         /\ dispatching' \subseteq dispatching \cup {call[t].pr : t \in {u \in Thread : At(u, "gate")}}
<1>1. CASE UNCHANGED vars
  BY <1>1 DEF vars, memory, inflight
<1>2. CASE Polling
  <2>1. CASE Decide
    BY <2>1 DEF Decide, Considers, InFlight, Thread
  <2>2. ASSUME NEW p \in Pr, TakeEdge(p) \/ TakeOwed(p) PROVE UNCHANGED memory
    BY <2>2 DEF TakeEdge, TakeOwed
  <2>3. CASE PollStart \/ EdgesDone \/ \E j \in Jobs : PassDone(j)
    BY <2>3 DEF PollStart, EdgesDone, PassDone, memory, inflight
  <2> QED BY <1>2, <2>1, <2>2, <2>3 DEF Polling, memory, inflight
<1>3. CASE Around
  <2>1. CASE ListingExpires \/ Restart
    BY <2>1 DEF ListingExpires, Restart, inflight
  <2>2. ASSUME NEW p \in Pr, GitHubChanges(p) PROVE UNCHANGED memory
    BY <2>2 DEF GitHubChanges
  <2>3. ASSUME NEW i \in Agents, AgentEnds(i) \/ Killed(i)
        PROVE  UNCHANGED <<tracked, psCache, dispatching>> /\ lost' \subseteq lost
    BY <2>3 DEF AgentEnds, Killed, Ends
  <2>4. ASSUME NEW i \in Agents, Ages(i) PROVE UNCHANGED memory
    BY <2>4 DEF Ages
  <2>5. ASSUME NEW p \in Mine, Click(p, "review") PROVE UNCHANGED memory
    BY <2>5 DEF Click
  <2>6. ASSUME NEW j \in Jobs, NEW p \in Pr, Cools(j, p) PROVE UNCHANGED memory
    BY <2>6 DEF Cools
  <2>7. Raise => UNCHANGED memory
    BY DEF Raise
  <2> QED BY <1>3, <2>1, <2>2, <2>3, <2>4, <2>5, <2>6, <2>7 DEF Around, memory, inflight
<1>4. ASSUME NEW t \in Thread, Gate(t) \/ SpawnFails(t)
      PROVE  /\ \/ tracked' = tracked \/ tracked' = call[t].live
                \/ \E i \in Agents : At(t, "spawn") /\ Start(i, call[t].pr) /\ tracked' = tracked \cup {i}
             /\ lost' \subseteq lost \cup tracked \cup Agents
             /\ psCache' = psCache \/ (psCache' \in Listings /\ agent' = agent)
             /\ dispatching' \subseteq dispatching \cup (IF At(t, "gate") THEN {call[t].pr} ELSE {})
  <2>1. CASE Enter(t)
    BY <2>1 DEF Enter, inflight
  <2>2. CASE Verdict(t)
    BY <2>2 DEF Verdict, Decides, InFlight
  <2>3. CASE RouteOpen(t)
    BY <2>3 DEF RouteOpen, memory, inflight
  <2>4. CASE RouteAway(t) \/ RouteHere(t) \/ SpawnTracked(t) \/ SpawnFails(t)
    BY <2>4 DEF RouteAway, RouteHere, SpawnTracked, SpawnFails, Return, inflight
  <2> QED BY <1>4, <2>1, <2>2, <2>3, <2>4 DEF Gate
<1> QED BY <1>1, <1>2, <1>3, <1>4 DEF Next

LEMMA ListingsTyped == ASSUME Typed PROVE Listings \subseteq Listing
<1> DEFINE up == {i \in Agents : agent[i].live}
           none == {}
<1>1. [of |-> up, failed |-> FALSE] \in Listing /\ [of |-> none, failed |-> TRUE] \in Listing
  BY DEF Listing
<1>2. psCache # NoCache => psCache \in Listing
  BY DEF Typed, Lists
<1>3. \A l \in Listings : \/ psCache # NoCache /\ l = psCache
                          \/ l = [of |-> up, failed |-> FALSE] \/ l = [of |-> none, failed |-> TRUE]
  BY DEF Listings
<1> QED BY <1>1, <1>2, <1>3

LEMMA CallsStay ==
  ASSUME Typed, [Next]_vars
  PROVE  Calls' /\ \A t \in Thread : call'[t].live \subseteq Agents \ Free'
<1>1. \/ call' = call
      \/ call' = [t \in Thread |-> Off]
      \/ \E t \in Thread : \E v \in CallRecord : CallBecomes(t, v)
  BY CallStep
<1>2. Free' \subseteq Free
  BY FreeShrinks DEF Typed
<1>3. CASE call' = call
  BY <1>2, <1>3 DEF Typed, Calls, Lists
<1>4. CASE call' = [t \in Thread |-> Off]
  BY <1>4, OffTyped DEF Calls
<1>5. ASSUME NEW t \in Thread, NEW v \in CallRecord, CallBecomes(t, v)
      PROVE  Calls' /\ \A u \in Thread : call'[u].live \subseteq Agents \ Free'
  <2>1. /\ call' = [call EXCEPT ![t] = v] /\ v.live \subseteq Agents \ Free
        /\ v.pc # "off" => v.pr \in Pr
    BY <1>5 DEF CallBecomes
  <2>2. \A u \in Thread : call'[u] = IF u = t THEN v ELSE call[u]
    BY <2>1 DEF Typed, Calls
  <2>3. Calls'
    BY <2>1, <2>2 DEF Typed, Calls
  <2> QED BY <2>1, <2>2, <2>3, <1>2 DEF Typed, Lists
<1> QED BY <1>1, <1>3, <1>4, <1>5

LEMMA ListsStay ==
  ASSUME Typed, [Next]_vars
  PROVE  Lists'
<1>1. Free' \subseteq Free /\ \A t \in Thread : call'[t].live \subseteq Agents \ Free'
  BY FreeShrinks, CallsStay DEF Typed
<1>2. tracked' \subseteq Agents \ Free'
  <2>1. ASSUME NEW t \in Thread, NEW i \in Agents, At(t, "spawn"), Start(i, call[t].pr)
        PROVE  i \notin Free'
    <3>1. call[t].pr \in Pr
      BY <2>1 DEF At, Typed, Calls
    <3>2. agent'[i].pr = call[t].pr
      BY <2>1 DEF Start, Typed, World
    <3>3. call[t].pr # 0
      BY <3>1, MonitorConstants
    <3> QED BY <3>2, <3>3 DEF Free
  <2>2. tracked \subseteq Agents \ Free /\ \A t \in Thread : call[t].live \subseteq Agents \ Free
    BY DEF Typed, Lists
  <2> QED BY <1>1, <2>1, <2>2, ListWriters
<1>3. (psCache' # NoCache => psCache' \in Listing) /\ lost' \subseteq Agents
  BY ListWriters, ListingsTyped DEF Typed, Lists
<1>4. dispatching' \subseteq Pr
  <2>1. \A t \in Thread : At(t, "gate") => call[t].pr \in Pr
    BY DEF Typed, Calls, At
  <2> QED BY <2>1, ListWriters DEF Typed, Lists
<1> QED BY <1>1, <1>2, <1>3, <1>4 DEF Lists

LEMMA FreshStays ==
  ASSUME Typed, Fresh, [Next]_vars
  PROVE  Fresh'
<1> SUFFICES ASSUME psCache' # NoCache, ~psCache'.failed, NEW i \in Agents, agent'[i].live, ~agent'[i].young
             PROVE  i \in psCache'.of
  BY DEF Fresh
<1>1. agent[i].live /\ (~agent[i].young \/ psCache' = NoCache)
  BY AgentStep DEF Typed
<1>2. CASE psCache' = psCache
  BY <1>1, <1>2 DEF Fresh
<1>3. CASE psCache' \in Listings /\ agent' = agent
  BY <1>1, <1>3 DEF Fresh, Listings
<1> QED BY <1>2, <1>3, ListWriters

LEMMA AccountedStays ==
  ASSUME Typed, Accounted, [Next]_vars
  PROVE  Accounted'
<1> SUFFICES ASSUME NEW i \in Agents, agent'[i].live
             PROVE  i \in tracked' \cup lost'
  BY DEF Accounted
<1>1. agent[i].live => i \in tracked \cup lost
  BY DEF Accounted
<1>2. CASE agent' = agent /\ UNCHANGED inflight
  BY <1>1, <1>2 DEF inflight
<1>3. CASE Unlink /\ UNCHANGED inflight
  <2>1. agent[i].live
    <3>1. agent[i] \in AgentRecord
      BY DEF Typed, World
    <3>2. agent'[i] = agent[i] \/ agent'[i] = [agent[i] EXCEPT !.done = FALSE, !.old = FALSE]
      BY <1>3 DEF Unlink
    <3> QED BY <3>1, <3>2 DEF AgentRecord
  <2> QED BY <1>1, <1>3, <2>1 DEF inflight
<1>4. CASE Polling
  <2>1. CASE Decide
    BY <1>1, <2>1 DEF Decide, Considers, InFlight
  <2>2. ASSUME NEW p \in Pr, TakeEdge(p) PROVE agent' = agent /\ UNCHANGED inflight
    BY <2>2 DEF TakeEdge, memory
  <2>3. ASSUME NEW p \in Pr, TakeOwed(p) PROVE Unlink /\ UNCHANGED inflight
    BY <2>3 DEF TakeOwed, memory
  <2>4. ASSUME PollStart \/ EdgesDone \/ \E j \in Jobs : PassDone(j) PROVE agent' = agent /\ UNCHANGED inflight
    BY <2>4 DEF PollStart, EdgesDone, PassDone, memory
  <2> QED BY <1>4, <2>1, <2>2, <2>3, <2>4, <1>2, <1>3 DEF Polling
<1>5. CASE Around
  <2>1. CASE Restart
    BY <1>1, <2>1 DEF Restart
  <2>2. ASSUME NEW k \in Agents, NEW d \in BOOLEAN, Ends(k, d)
        PROVE  i \in tracked' \cup lost'
    <3>1. /\ agent' = [agent EXCEPT ![k] = [@ EXCEPT !.live = FALSE, !.young = FALSE, !.old = FALSE, !.done = d]]
          /\ tracked' = tracked /\ lost' = lost \ {k}
      BY <2>2 DEF Ends
    <3>2. k # i /\ agent'[i] = agent[i]
      <4>1. agent[k] \in AgentRecord
        BY DEF Typed, World
      <4>2. ~[agent[k] EXCEPT !.live = FALSE, !.young = FALSE, !.old = FALSE, !.done = d].live
        BY <4>1 DEF AgentRecord
      <4> QED BY <3>1, <4>2 DEF Typed, World
    <3> QED BY <3>1, <3>2, <1>1
  <2>3. ASSUME NEW k \in Agents, AgentEnds(k) \/ Killed(k)
        PROVE  \E d \in BOOLEAN : Ends(k, d)
    BY <2>3 DEF AgentEnds, Killed, Listed
  <2>4. ASSUME NEW k \in Agents, Ages(k) PROVE i \in tracked' \cup lost'
    <3>1. agent' = [agent EXCEPT ![k].old = TRUE] /\ UNCHANGED inflight
      BY <2>4 DEF Ages, memory
    <3>2. agent[k] \in AgentRecord
      BY DEF Typed, World
    <3>3. agent'[i].live = agent[i].live
      BY <3>1, <3>2 DEF AgentRecord, Typed, World
    <3> QED BY <3>1, <3>3, <1>1 DEF inflight
  <2>5. CASE ListingExpires
    <3>1. agent' = [k \in Agents |-> [agent[k] EXCEPT !.young = FALSE]] /\ UNCHANGED inflight
      BY <2>5 DEF ListingExpires
    <3>2. agent[i] \in AgentRecord
      BY DEF Typed, World
    <3>3. agent'[i].live = agent[i].live
      BY <3>1, <3>2 DEF AgentRecord
    <3> QED BY <3>1, <3>3, <1>1 DEF inflight
  <2>6. ASSUME (\E p \in Pr : GitHubChanges(p)) \/ (\E p \in Mine : Click(p, "review"))
               \/ (\E j \in Jobs, p \in Pr : Cools(j, p)) \/ Raise
        PROVE  agent' = agent /\ UNCHANGED inflight
    BY <2>6 DEF GitHubChanges, Click, Cools, Raise, memory
  <2> QED BY <1>5, <2>1, <2>2, <2>3, <2>4, <2>5, <2>6, <1>2 DEF Around
<1>6. ASSUME NEW t \in Thread, Gate(t) \/ SpawnFails(t)
      PROVE  i \in tracked' \cup lost'
  <2>1. CASE Verdict(t)
    BY <1>1, <2>1 DEF Verdict, Decides, InFlight
  <2>2. Enter(t) => (agent' = agent \/ Unlink) /\ UNCHANGED inflight
    BY DEF Enter
  <2>3. RouteOpen(t) \/ RouteAway(t) \/ SpawnFails(t) => agent' = agent /\ UNCHANGED inflight
    BY DEF RouteOpen, RouteAway, SpawnFails, memory
  <2>4. CASE RouteHere(t) \/ SpawnTracked(t)
    <3>1. PICK k \in Agents : /\ Start(k, call[t].pr) /\ k \in tracked' \cup lost'
                              /\ tracked \subseteq tracked' /\ lost \subseteq lost'
      BY <2>4 DEF RouteHere, SpawnTracked
    <3>2. i # k => agent'[i] = agent[i]
      BY <3>1 DEF Start, Typed, World
    <3> QED BY <3>1, <3>2, <1>1
  <2> QED BY <1>6, <2>1, <2>2, <2>3, <2>4, <1>2, <1>3 DEF Gate
<1>7. CASE UNCHANGED vars
  BY <1>2, <1>7 DEF vars, memory
<1> QED BY <1>4, <1>5, <1>6, <1>7 DEF Next

\* Only dispatch_decide lets a call through.
LEMMA LetThrough ==
  ASSUME Typed, [Next]_vars, NEW t \in Thread, At(t, "prune"), (At(t, "route") \/ At(t, "spawn"))'
  PROVE  \E l \in Listings : Decides(t, l) /\ ~Busy(t, l)
<1>1. call[t].pc = "prune" /\ call'[t].pc \in {"route", "spawn"}
  BY DEF At
<1>2. PICK u \in Thread, v \in CallRecord : CallBecomes(u, v)
  BY <1>1, CallStep, OffTyped
<1>3. u = t /\ call'[t] = v
  BY <1>1, <1>2 DEF CallBecomes, Typed, Calls
<1>4. Verdict(t)
  BY <1>1, <1>2, <1>3 DEF CallBecomes, Does, Quiet, At
<1>5. PICK l \in Listings : Decides(t, l)
  BY <1>4 DEF Verdict
<1>6. CASE Busy(t, l)
  <2>1. call' = [call EXCEPT ![t] = Off]
    BY <1>5, <1>6 DEF Decides
  <2>2. call'[t] = Off
    BY <2>1 DEF Typed, Calls
  <2> QED BY <1>1, <2>2, OffTyped
<1> QED BY <1>5, <1>6

\* What it misses is young, or lost to the list, and ps failed.
LEMMA MissesOnly ==
  ASSUME Typed, Fresh, Accounted, [Next]_vars,
         NEW t \in Thread, At(t, "prune"), (At(t, "route") \/ At(t, "spawn"))',
         NEW i \in LiveOn(call[t].pr), ~agent[i].young
  PROVE  psCache'.failed /\ i \in lost'
<1>1. PICK l \in Listings : Decides(t, l) /\ ~Busy(t, l)
  BY LetThrough
<1>2. i \in Agents /\ agent[i].live /\ agent[i].pr = call[t].pr /\ (i \in tracked \/ i \in lost)
  BY DEF LiveOn, Accounted
<1>3. /\ i \notin l.of /\ i \notin call[t].live /\ psCache' = l
      /\ lost' = lost \cup {k \in tracked \ call[t].live : agent[k].live}
  BY <1>1, <1>2 DEF Decides, InFlight, Busy, OnList
<1>4. i \in lost'
  BY <1>2, <1>3
<1>5. ASSUME ~l.failed PROVE FALSE
  <2>1. CASE psCache # NoCache
    <3>1. l = psCache
      BY <1>1, <2>1 DEF Listings
    <3> QED BY <2>1, <3>1, <1>2, <1>3, <1>5 DEF Fresh
  <2>2. CASE psCache = NoCache
    <3>1. l = [of |-> {k \in Agents : agent[k].live}, failed |-> FALSE]
      BY <1>1, <2>2, <1>5 DEF Listings
    <3>2. l.of = {k \in Agents : agent[k].live}
      BY <3>1
    <3> QED BY <3>2, <1>2, <1>3
  <2> QED BY <2>1, <2>2
<1> QED BY <1>3, <1>4, <1>5

LEMMA PollStartStep ==
  ASSUME Typed, PollStart
  PROVE  /\ poll.stage = "idle" /\ poll' \in PollRecord /\ poll'.stage = "events"
         /\ UNCHANGED <<call, attempts, last, unsaved>>
<1> DEFINE i == {p \in Mine : ReviewEdge(fps[p], github[p])}
           s == "events"
<1>1. i \subseteq Pr /\ s \in Stages /\ github \in [Pr -> State] /\ poll \in PollRecord
  BY DEF Pr, Stages, Typed, World
<1>2. poll.stage = "idle" /\ poll' = [poll EXCEPT !.stage = s, !.snap = github, !.items = i]
  BY DEF PollStart
<1>3. UNCHANGED <<call, attempts, last, unsaved>>
  BY DEF PollStart, disk, happened
<1> HIDE DEF i, s
<1>4. poll' \in PollRecord /\ poll'.stage = s
  BY <1>1, <1>2 DEF PollRecord
<1> QED BY <1>2, <1>3, <1>4 DEF s

LEMMA EdgesDoneStep ==
  ASSUME Typed, EdgesDone
  PROVE  /\ poll.stage = "events" /\ Quiet
         /\ poll' \in PollRecord /\ poll'.stage = "review" /\ poll'.recs = attempts["review"]
         /\ UNCHANGED <<call, attempts, last, unsaved>>
<1>1. poll' = Pass("review") /\ "review" \in Jobs /\ poll.snap \in [Pr -> State]
  BY DEF EdgesDone, Jobs, Typed, PollRecord
<1>2. poll' \in PollRecord /\ poll'.stage = "review" /\ poll'.recs = attempts["review"]
  BY <1>1, PassTyped DEF Pass
<1> QED BY <1>2 DEF EdgesDone, happened

LEMMA CoolsStep ==
  ASSUME Typed, NEW j \in Jobs, NEW p \in Pr, Cools(j, p)
  PROVE  /\ poll.stage = "idle" /\ UNCHANGED <<call, poll, unsaved>>
         /\ attempts' \in [Jobs -> Records] /\ last' \in [Jobs -> [Pr -> {"never", "hot", "cooled"}]]
         /\ last'[j][p] = "cooled"
         /\ \A i \in Jobs, q \in Pr : (i # j \/ q # p) => attempts'[i][q] = attempts[i][q] /\ last'[i][q] = last[i][q]
<1> DEFINE o == Older(j, attempts[j][p])
<1>1. o \in Record \cup {NoRecord}
  <2>1. attempts[j][p] \in Record \cup {NoRecord}
    BY DEF Typed, Disk, Records
  <2> QED BY <2>1 DEF Older, Record
<1>2. /\ attempts' = [attempts EXCEPT ![j][p] = o] /\ last' = [last EXCEPT ![j][p] = "cooled"]
      /\ poll.stage = "idle" /\ UNCHANGED <<call, poll, unsaved>>
  BY DEF Cools
<1> HIDE DEF o
<1>3. attempts' \in [Jobs -> Records] /\ last' \in [Jobs -> [Pr -> {"never", "hot", "cooled"}]]
  BY <1>1, <1>2 DEF Typed, Disk, Records
<1>4. /\ last'[j][p] = "cooled"
      /\ \A i \in Jobs, q \in Pr : (i # j \/ q # p) => attempts'[i][q] = attempts[i][q] /\ last'[i][q] = last[i][q]
  BY <1>2 DEF Typed, Disk, Records
<1> QED BY <1>2, <1>3, <1>4

\* A poll that is cut short forgets the records it has not saved.
LEMMA CutStep ==
  ASSUME Typed, Raise \/ Restart
  PROVE  /\ poll' \in PollRecord /\ poll'.stage = "idle" /\ call'["poll"].pc = "off"
         /\ UNCHANGED <<attempts, last>>
         /\ \A j \in Jobs, p \in Pr : <<j, p>> \notin unsaved' =>
              <<j, p>> \notin unsaved /\ (poll.stage = j => poll.recs[p] = attempts[j][p])
<1>1. poll' = Resting /\ unsaved' = unsaved \cup Loose /\ UNCHANGED <<attempts, last>>
  BY DEF Raise, Restart, disk
<1>2. call' = [call EXCEPT !["poll"] = Off] \/ call' = [t \in Thread |-> Off]
  BY DEF Raise, Restart
<1>3. call'["poll"] = Off
  BY <1>2 DEF Typed, Calls, Thread
<1>4. ASSUME NEW j \in Jobs, NEW p \in Pr, <<j, p>> \notin unsaved'
      PROVE  <<j, p>> \notin unsaved /\ (poll.stage = j => poll.recs[p] = attempts[j][p])
  <2>1. <<j, p>> \notin unsaved /\ <<j, p>> \notin Loose
    BY <1>1, <1>4
  <2> QED BY <2>1 DEF Loose
<1> QED BY <1>1, <1>3, <1>4, OffTyped, RestingTyped

\* A pull request is taken up: only what is left of the poll changes.
LEMMA TakeStep ==
  ASSUME Typed, NEW p \in Pr, poll' = [poll EXCEPT !.items = @ \ {p}]
  PROVE  poll' \in PollRecord /\ poll'.stage = poll.stage /\ poll'.recs = poll.recs
<1> DEFINE i == poll.items \ {p}
<1>1. poll \in PollRecord /\ i \subseteq Pr /\ poll' = [poll EXCEPT !.items = i]
  BY DEF Typed, PollRecord
<1> HIDE DEF i
<1> QED BY <1>1 DEF PollRecord

\* Neither the stage of the poll nor what is known of the dispatches changes.
Idles == poll'.stage = poll.stage /\ poll'.recs = poll.recs /\ UNCHANGED <<attempts, last, unsaved>>

LEMMA PollStays ==
  ASSUME Typed, Paced, [Next]_vars
  PROVE  poll' \in PollRecord /\ Disk'
<1>1. CASE UNCHANGED <<poll, attempts, last, unsaved>>
  BY <1>1 DEF Typed, Disk
<1>2. ASSUME NEW p \in Pr, poll' = [poll EXCEPT !.items = @ \ {p}], UNCHANGED <<attempts, last, unsaved>>
      PROVE  poll' \in PollRecord /\ Disk'
  BY <1>2, TakeStep DEF Typed, Disk
<1>3. ASSUME NEW t \in Thread, NEW v \in Verdicts, ~At(t, "off"), Return(t, v), UNCHANGED attempts
      PROVE  poll' \in PollRecord /\ Disk'
  <2>1. poll' \in PollRecord /\ last' \in [Jobs -> [Pr -> {"never", "hot", "cooled"}]]
    BY <1>3, ReturnStep
  <2> QED BY <1>3, <2>1 DEF Typed, Disk
<1>4. CASE PollStart \/ EdgesDone
  BY <1>4, PollStartStep, EdgesDoneStep DEF Typed, Disk
<1>5. ASSUME NEW j \in Jobs, PassDone(j)
      PROVE  poll' \in PollRecord /\ Disk'
  <2>1. /\ attempts' = [attempts EXCEPT ![j] = Saved(j)] /\ poll' \in PollRecord
        /\ last' \in [Jobs -> [Pr -> {"never", "hot", "cooled"}]]
    BY <1>5, PassDoneStep
  <2>2. Saved(j) \in Records
    BY SavedTyped
  <2> QED BY <2>1, <2>2 DEF Typed, Disk
<1>6. ASSUME NEW j \in Jobs, NEW p \in Pr, Cools(j, p)
      PROVE  poll' \in PollRecord /\ Disk'
  BY <1>6, CoolsStep DEF Typed, Disk
<1>7. CASE Raise \/ Restart
  BY <1>7, CutStep DEF Typed, Disk
<1> QED BY <1>1, <1>2, <1>3, <1>4, <1>5, <1>6, <1>7, PassWriters

\* Every dispatch that may not be repeated yet, and whose record was not lost,
\* is in the records the next pass of its kind goes by.
LEMMA RecsStay ==
  ASSUME Typed, Paced, Recs, [Next]_vars
  PROVE  Recs'
<1> SUFFICES ASSUME NEW j \in Jobs, NEW p \in Pr, last'[j][p] = "hot", <<j, p>> \notin unsaved'
             PROVE  Hot((IF poll'.stage = j THEN poll'.recs ELSE attempts'[j])[p])
  BY DEF Recs, Owing, Going, Hot
<1>1. (last[j][p] = "hot" /\ <<j, p>> \notin unsaved) => Hot((IF poll.stage = j THEN poll.recs ELSE attempts[j])[p])
  BY DEF Recs, Owing, Going
<1>2. CASE Idles
  BY <1>1, <1>2 DEF Idles
<1>3. ASSUME NEW t \in Thread, NEW v \in Verdicts, ~At(t, "off"), Return(t, v), UNCHANGED attempts
      PROVE  Hot((IF poll'.stage = j THEN poll'.recs ELSE attempts'[j])[p])
  <2>1. CASE UNCHANGED <<poll, last, unsaved>>
    BY <1>1, <1>3, <2>1
  <2>2. CASE ~UNCHANGED <<poll, last, unsaved>>
    <3>1. PICK i \in Jobs, q \in Pr :
            /\ poll.stage = i /\ Hot(poll'.recs[q]) /\ poll'.stage = poll.stage
            /\ \A y \in Pr : y # q => poll'.recs[y] = poll.recs[y]
            /\ last' = [last EXCEPT ![i][q] = "hot"] /\ unsaved' = unsaved \ {<<i, q>>}
      BY <1>3, <2>2, ReturnStep
    <3>2. CASE j = i /\ p = q
      BY <3>1, <3>2
    <3>3. CASE j # i \/ p # q
      <4>1. last[j][p] = "hot" /\ <<j, p>> \notin unsaved
        BY <3>1, <3>3 DEF Typed, Disk
      <4> QED BY <4>1, <3>1, <3>3, <1>1, <1>3
    <3> QED BY <3>2, <3>3
  <2> QED BY <2>1, <2>2
<1>4. CASE PollStart
  <2>1. poll.stage # j /\ poll'.stage # j /\ UNCHANGED <<attempts, last, unsaved>>
    BY <1>4, PollStartStep DEF Jobs
  <2> QED BY <1>1, <2>1
<1>5. CASE EdgesDone
  <2>1. /\ poll.stage # j /\ UNCHANGED <<attempts, last, unsaved>>
        /\ poll'.stage = "review" /\ poll'.recs = attempts["review"]
    BY <1>5, EdgesDoneStep DEF Jobs
  <2> QED BY <1>1, <2>1
<1>6. ASSUME NEW i \in Jobs, PassDone(i)
      PROVE  Hot((IF poll'.stage = j THEN poll'.recs ELSE attempts'[j])[p])
  <2>1. /\ poll.stage = i /\ unsaved' = unsaved /\ poll'.stage # i
        /\ attempts' = [attempts EXCEPT ![i] = Saved(i)]
        /\ \A y \in Jobs : y # i => last'[y] = last[y]
        /\ poll'.stage \in Jobs => poll'.recs = attempts[poll'.stage]
    BY <1>6, PassDoneStep
  <2>2. CASE j = i
    <3>1. last[j][p] = "hot" /\ Saved(j)[p] = poll.recs[p]
      BY <1>6, <2>2, PassDoneStep
    <3>2. attempts'[j] = Saved(j)
      BY <2>1, <2>2 DEF Typed, Disk
    <3> QED BY <3>1, <3>2, <2>1, <2>2, <1>1
  <2>3. CASE j # i
    <3>1. attempts'[j] = attempts[j] /\ last'[j] = last[j]
      BY <2>1, <2>3 DEF Typed, Disk
    <3> QED BY <3>1, <2>1, <2>3, <1>1
  <2> QED BY <2>2, <2>3
<1>7. ASSUME NEW i \in Jobs, NEW q \in Pr, Cools(i, q)
      PROVE  Hot((IF poll'.stage = j THEN poll'.recs ELSE attempts'[j])[p])
  <2>1. /\ UNCHANGED <<poll, unsaved>> /\ poll.stage # j /\ last'[i][q] = "cooled"
        /\ (j # i \/ p # q) => attempts'[j][p] = attempts[j][p] /\ last'[j][p] = last[j][p]
    BY <1>7, CoolsStep DEF Jobs
  <2> QED BY <2>1, <1>1
<1>8. CASE Raise \/ Restart
  <2>1. /\ poll'.stage # j /\ UNCHANGED <<attempts, last>> /\ <<j, p>> \notin unsaved
        /\ poll.stage = j => poll.recs[p] = attempts[j][p]
    BY <1>8, CutStep DEF Jobs
  <2> QED BY <2>1, <1>1
<1>9. \A q \in Pr : (poll' = [poll EXCEPT !.items = @ \ {q}] /\ UNCHANGED <<attempts, last, unsaved>>) => Idles
  BY TakeStep DEF Idles
<1>10. UNCHANGED <<poll, attempts, last, unsaved>> => Idles
  BY DEF Idles
<1> QED BY <1>2, <1>3, <1>4, <1>5, <1>6, <1>7, <1>8, <1>9, <1>10, PassWriters

\* While the poll stays where it is, its call gets past the backoff only with
\* a record that is not hot.
LEMMA PacedIdling ==
  ASSUME Typed, Paced, Recs, [Next]_vars, Idles
  PROVE  Paced'
<1> DEFINE k == call["poll"]
<1>1. "poll" \in Thread /\ k \in CallRecord /\ (k.pc # "off" => k.pr \in Pr)
  BY DEF Typed, Calls, Thread
<1>2. CASE call'["poll"] = k
  BY <1>2 DEF Paced, Idles, Quiet, At, Passed, Owing
<1>3. CASE call'["poll"].pc = "off"
  BY <1>3 DEF Paced, Quiet, At, Passed
<1>4. ASSUME NEW v \in CallRecord, CallBecomes("poll", v)
      PROVE  Paced'
  <2>1. call'["poll"] = v /\ Does("poll", v)
    BY <1>1, <1>4 DEF CallBecomes, Typed, Calls
  <2>2. CASE /\ Stays(k, v)
             /\ \/ k.pc = "gate" /\ v.pc = "prune"
                \/ k.pc = "prune" /\ k.attempt > 0 /\ v.pc \in {"route", "spawn"}
                \/ k.pc = "route" /\ v.pc = "spawn"
    <3>1. Passed /\ ~Quiet
      BY <2>2 DEF Passed, Quiet, At
    <3>2. v.pr = k.pr /\ v.job = k.job
      BY <2>2 DEF Stays
    <3> QED BY <2>1, <3>1, <3>2 DEF Paced, Idles, Quiet, At, Passed, Owing
  <2>3. CASE poll.stage = "events" /\ poll'.stage = "events"
    BY <2>3 DEF Paced, Jobs
  <2>4. CASE poll.stage \in Jobs /\ v.pc = "prune" /\ v.attempt = 0 /\ v.job = poll.stage
    <3>1. poll'.stage = poll.stage /\ poll.stage # "idle"
      BY <2>4 DEF Idles, Jobs
    <3>2. ~Passed'
      BY <2>1, <2>4 DEF Passed
    <3> QED BY <2>1, <2>4, <3>1, <3>2 DEF Paced
  <2>5. CASE k.pc = "prune" /\ ~Hot(poll.recs[k.pr]) /\ Stays(k, v)
    <3>1. poll.stage # "idle" /\ (poll.stage \in Jobs => k.job = poll.stage) /\ k.pr \in Pr
      BY <1>1, <2>5 DEF Paced, Quiet, At
    <3>2. poll.stage \in Jobs => ~(last[poll.stage][k.pr] = "hot" /\ <<poll.stage, k.pr>> \notin unsaved)
      BY <2>5, <3>1 DEF Recs, Owing, Going
    <3>3. v.pr = k.pr /\ v.job = k.job
      BY <2>5 DEF Stays
    <3> QED BY <2>1, <3>1, <3>2, <3>3 DEF Paced, Idles, Owing
  <2> QED BY <2>1, <2>2, <2>3, <2>4, <2>5, <1>3 DEF Does
<1>5. ASSUME NEW t \in Thread, t # "poll", NEW v \in CallRecord, CallBecomes(t, v)
      PROVE  call'["poll"] = k
  BY <1>1, <1>5 DEF CallBecomes, Typed, Calls
<1>6. CASE call' = [t \in Thread |-> Off]
  BY <1>1, <1>3, <1>6, OffTyped
<1> QED BY <1>2, <1>4, <1>5, <1>6, CallStep

LEMMA PacedStays ==
  ASSUME Typed, Paced, Recs, [Next]_vars
  PROVE  Paced'
<1>1. call["poll"].pc = "off" => Quiet
  BY DEF Quiet, At
<1>2. CASE call'["poll"].pc = "off"
  BY <1>2 DEF Paced, Quiet, At, Passed
<1>3. ASSUME NEW t \in Thread, NEW v \in Verdicts, ~At(t, "off"), Return(t, v), UNCHANGED attempts
      PROVE  Paced'
  <2>1. call' = [call EXCEPT ![t] = Off]
    BY <1>3 DEF Return
  <2>2. CASE t = "poll"
    <3>1. call'["poll"] = Off
      BY <2>1, <2>2 DEF Typed, Calls
    <3> QED BY <3>1, <1>2, OffTyped
  <2>3. CASE t = "click"
    <3>1. UNCHANGED <<poll, last, unsaved>>
      BY <1>3, <2>3, ReturnStep
    <3> QED BY <1>3, <3>1, PacedIdling DEF Idles
  <2> QED BY <2>2, <2>3 DEF Thread
<1>4. CASE PollStart
  <2>1. Quiet /\ call' = call
    BY <1>4, PollStartStep DEF Paced
  <2> QED BY <1>2, <2>1 DEF Quiet, At
<1>5. CASE EdgesDone
  <2>1. Quiet /\ call' = call
    BY <1>5, EdgesDoneStep
  <2> QED BY <1>2, <2>1 DEF Quiet, At
<1>6. ASSUME NEW j \in Jobs, PassDone(j)
      PROVE  Paced'
  <2>1. Quiet /\ call' = call
    BY <1>6, PassDoneStep
  <2> QED BY <1>2, <2>1 DEF Quiet, At
<1>7. ASSUME NEW j \in Jobs, NEW p \in Pr, Cools(j, p)
      PROVE  Paced'
  <2>1. Quiet /\ call' = call
    BY <1>7, CoolsStep DEF Paced
  <2> QED BY <1>2, <2>1 DEF Quiet, At
<1>8. CASE Raise \/ Restart
  BY <1>2, <1>8, CutStep
<1>9. \A p \in Pr : (poll' = [poll EXCEPT !.items = @ \ {p}] /\ UNCHANGED <<attempts, last, unsaved>>) => Idles
  BY TakeStep DEF Idles
<1>10. UNCHANGED <<poll, attempts, last, unsaved>> => Idles
  BY DEF Idles
<1> QED BY <1>3, <1>4, <1>5, <1>6, <1>7, <1>8, <1>9, <1>10, PassWriters, PacedIdling

LEMMA InvInit == Init => Inv
<1> SUFFICES ASSUME Init PROVE Inv
  OBVIOUS
<1>1. poll \in PollRecord /\ poll.stage = "idle"
  BY RestingTyped DEF Init
<1>2. Calls /\ \A t \in Thread : call[t].pc = "off" /\ call[t].live = {}
  BY OffTyped DEF Init, Calls
<1>3. World
  BY CleanState DEF Init, World, AgentRecord
<1>4. Disk
  BY DEF Init, Disk, Records
<1>5. Lists /\ Fresh
  BY <1>2 DEF Init, Lists, Fresh
<1>6. Accounted
  BY DEF Init, Accounted
<1>7. Recs
  BY DEF Init, Recs, Owing
<1>8. Paced
  <2>1. Quiet /\ poll.stage \notin Jobs
    BY <1>1, <1>2 DEF Quiet, At, Thread, Jobs
  <2> QED BY <2>1 DEF Paced
<1> QED BY <1>1, <1>2, <1>3, <1>4, <1>5, <1>6, <1>7, <1>8 DEF Inv, Typed

LEMMA InvStep == Inv /\ [Next]_vars => Inv'
<1> SUFFICES ASSUME Inv, [Next]_vars PROVE Inv'
  OBVIOUS
<1>1. Typed /\ Fresh /\ Accounted /\ Recs /\ Paced
  BY DEF Inv
<1>2. World'
  BY <1>1, AgentStep, GithubStep DEF Typed, World
<1>3. Calls' /\ Lists'
  BY <1>1, CallsStay, ListsStay
<1>4. poll' \in PollRecord /\ Disk'
  BY <1>1, PollStays
<1>5. Fresh' /\ Accounted' /\ Recs' /\ Paced'
  BY <1>1, FreshStays, AccountedStays, RecsStay, PacedStays
<1> QED BY <1>2, <1>3, <1>4, <1>5 DEF Inv, Typed

LEMMA InvHolds == Spec => []Inv
BY InvInit, InvStep, PTL DEF Spec

----------------------------------------------------------------------------
(* The theorems *)

\* Every variable of the monitor keeps its type, over any polls, clicks,
\* failures and restarts.
THEOREM MonitorTypes == Spec => []TypeOK
<1>1. Inv => TypeOK
  <2> SUFFICES ASSUME Inv PROVE TypeOK
    OBVIOUS
  <2>1. World /\ Disk /\ Lists /\ poll.recs \in [Pr -> Record \cup {NoRecord}]
    BY DEF Inv, Typed, PollRecord, Records
  <2>2. \A i \in Agents : agent[i].pr \in Pr \cup {0}
    BY <2>1 DEF World, AgentRecord
  <2>3. psCache # NoCache => psCache.of \subseteq Agents
    <3>1. \A l \in Listing : l.of \subseteq Agents
      BY DEF Listing
    <3> QED BY <2>1, <3>1 DEF Lists
  <2> QED BY <2>1, <2>2, <2>3 DEF TypeOK, World, Disk, Lists, Records
<1> QED BY <1>1, InvHolds, PTL

\* _in_flight, _live_pr_agents: whatever was pruned, restarted or dropped from
\* the list by the other thread, a dispatch that is let through can miss, of
\* the agents on its pull request, only one younger than the listing, and, when
\* ps failed, one that the list has lost.
THEOREM OnlyTheYoungAreMissed == Spec => OnlyYoungMissed
<1> DEFINE Sees ==
      \A t \in Thread : At(t, "prune") /\ (At(t, "route") \/ At(t, "spawn"))' =>
        \A i \in LiveOn(call[t].pr) : agent[i].young \/ (psCache'.failed /\ i \in lost')
<1>1. Inv /\ [Next]_vars => [Sees]_vars
  BY MissesOnly DEF Inv
<1> QED BY <1>1, InvHolds, PTL DEF Spec, OnlyYoungMissed

\* decide, _save_attempts: two dispatches for what a pull request owes are a
\* backoff apart, unless the record of the first was lost.
THEOREM BackoffHolds == Spec => BackoffKept
<1>1. Inv => \A p \in Pr :
               (/\ poll.stage \in Jobs /\ call["poll"].pr = p /\ call["poll"].pc \in {"route", "spawn"}
                /\ last[poll.stage][p] = "hot") => <<poll.stage, p>> \in unsaved
  BY DEF Inv, Paced, Passed, Owing
<1>2. Inv /\ [Next]_vars =>
        [\A p \in Pr :
           (/\ poll.stage \in Jobs /\ call["poll"].pr = p /\ call["poll"].pc \in {"route", "spawn"}
            /\ Quiet' /\ faults' = faults /\ last[poll.stage][p] = "hot") => <<poll.stage, p>> \in unsaved]_vars
  BY <1>1
<1> QED BY <1>2, InvHolds, PTL DEF Spec, BackoffKept
=============================================================================
