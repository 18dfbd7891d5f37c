---------------------------- MODULE AutofixMonitor ----------------------------
(***************************************************************************)
(* The pull request monitor of the applet (linux/diplomat_app/store.py and *)
(* autofix.py): a poll compares my pull requests with their last           *)
(* fingerprints, and dispatches an agent on what is new and on what is     *)
(* still owed, with a backoff; a click on the panel goes through the same  *)
(* gate from another thread.                                               *)
(*                                                                         *)
(* A step of a thread is what it does between two accesses to what the     *)
(* threads share.  Abstracted: a record of an attempt is "hot" until its   *)
(* backoff (or the cooldown after a new request) is over and "old" past    *)
(* the retry ceiling, as of the start of a poll; an attempt is the first   *)
(* or a retry; the mesh is the answer it gives to ctl.dispatch.            *)
(***************************************************************************)
EXTENDS Integers, FiniteSets

CONSTANTS
  Mine, Theirs,    \* pull requests: mine; those that may ask for my review
  Agents,          \* agents started on this machine (a bound)
  Banned,          \* those of Theirs with a banned author
  Traffic,         \* what may happen besides polls (a bound)
  MaxEvents, MaxFaults,   \* changes and clicks, failures (bounds)
  NoCache, NoRecord

Pr == Mine \cup Theirs
Jobs == {"review", "conflicts", "request"}
Thread == {"poll", "click"}
Kinds == {"click", "mesh", "restart", "raise", "spawnfail", "ps", "killed"}

ASSUME MonitorConstants ==
  /\ Mine \cap Theirs = {} /\ Banned \subseteq Theirs /\ Pr \subseteq Nat \ {0}
  /\ Traffic \subseteq Kinds /\ MaxEvents \in Nat /\ MaxFaults \in Nat

VARIABLES
  github,      \* pull request -> what GitHub says of it
  agent,       \* agent -> [pr, live, young, old: its entry, done: its completion file], on this machine
  fps,         \* pull request -> fingerprint, on disk
  attempts,    \* job -> pull request -> record of the last dispatch, on disk
  tracked,     \* agents in _autofix_inflight
  lost,        \* running agents that left it, or were never in it
  psCache,     \* the cached process listing, [of: its agents, failed], or NoCache
  dispatching, \* _dispatching_prs
  call,        \* thread -> the pull request it is at, and where
  poll,        \* the stage of the poll, what it fetched, what is left, its records
  last,        \* job -> pull request -> "never", or the age of the last dispatch
  unsaved,     \* <<job, pr>>: the record of the last dispatch was lost
  events, faults

disk == <<fps, attempts>>
inflight == <<tracked, lost>>
memory == <<inflight, psCache, dispatching>>
happened == <<last, unsaved>>
vars == <<github, agent, disk, memory, call, poll, happened, events, faults>>

\* Of somebody else's pull request, owed says that my review is (owe_review)
\* and stamp which request it is.
State == [merge : {"ok", "conflict", "unknown"}, changes : BOOLEAN, threads : 0..1, owed : BOOLEAN, stamp : Nat]
Clean == [merge |-> "ok", changes |-> FALSE, threads |-> 0, owed |-> FALSE, stamp |-> 0]
Record == [stamp : Nat, age : {"hot", "cooled", "old"}]
ASSUME NoRecordIsNone == NoRecord \notin Record
Off == [pc |-> "off", pr |-> 0, job |-> "review", attempt |-> 0, live |-> {}]
Resting == [stage |-> "idle", snap |-> [p \in Pr |-> Clean], items |-> {}, recs |-> [p \in Pr |-> NoRecord]]

LiveOn(p) == {i \in Agents : agent[i].live /\ agent[i].pr = p}
Free == {i \in Agents : agent[i].pr = 0}

\* What the level-triggered passes look for.
Owes(g, j, p) ==
  CASE j = "review" -> p \in Mine /\ g[p].owed
    [] j = "conflicts" -> p \in Mine /\ g[p].merge = "conflict"
    [] OTHER -> p \in Theirs /\ g[p].owed

Init ==
  /\ github = [p \in Pr |-> Clean]
  /\ agent = [i \in Agents |-> [pr |-> 0, live |-> FALSE, young |-> FALSE, old |-> FALSE, done |-> FALSE]]
  /\ fps = [p \in Pr |-> NoRecord] /\ attempts = [j \in Jobs |-> [p \in Pr |-> NoRecord]]
  /\ tracked = {} /\ lost = {} /\ psCache = NoCache /\ dispatching = {}
  /\ call = [t \in Thread |-> Off] /\ poll = Resting
  /\ last = [j \in Jobs |-> [p \in Pr |-> "never"]] /\ unsaved = {} /\ events = 0 /\ faults = 0

----------------------------------------------------------------------------
(* The gate: dispatch_agent, in the thread of the poll or of a click *)

At(t, pc) == call[t].pc = pc
Goto(t, pc) == call' = [call EXCEPT ![t].pc = pc]
Quiet == At("poll", "off")

Held(p) == p \in dispatching

\* Variant: an entry stays until its agent has said that it is done.
PrunedDone == {i \in tracked : ~agent[i].done}

\* The list without what has a completion file or is too old.
Pruned == {i \in tracked : ~agent[i].done /\ ~agent[i].old}

\* The completion files that were found are removed; an entry that is dropped,
\* and brought back by the other thread's list, waits for its age again.
Unlink ==
  agent' = [i \in Agents |-> IF i \in tracked \ Pruned THEN [agent[i] EXCEPT !.done = FALSE, !.old = FALSE]
                            ELSE agent[i]]

\* It enters, unless another thread is at the same pull request, and begins to
\* prune the list (_prune_inflight): a new one is built ...
Enter(t) ==
  /\ At(t, "gate")
  /\ IF Held(call[t].pr)
     THEN call' = [call EXCEPT ![t] = Off] /\ UNCHANGED <<agent, dispatching>>
     ELSE /\ call' = [call EXCEPT ![t].pc = "prune", ![t].live = Pruned] /\ Unlink
          /\ dispatching' = dispatching \cup {call[t].pr}
  /\ UNCHANGED <<github, disk, inflight, psCache, poll, happened, events, faults>>

\* Variant: only the agents of the list count.
ListingsSkipped == {[of |-> {}, failed |-> FALSE]}

\* _live_pr_agents: one listing of the processes serves for five seconds; ps may
\* fail, be late or say what is no text: then, for as long, nothing runs.
Listings ==
  IF psCache # NoCache THEN {psCache}
  ELSE {[of |-> {i \in Agents : agent[i].live}, failed |-> FALSE]}
       \cup (IF "ps" \in Traffic /\ faults < MaxFaults THEN {[of |-> {}, failed |-> TRUE]} ELSE {})

OnList(t) == \E i \in call[t].live : agent[i].pr = call[t].pr

\* _in_flight: ... and takes the place of the list as it is by now; then, with
\* no agent of the list on this pull request, the listing l is consulted.
InFlight(t, l) ==
  /\ tracked' = call[t].live /\ lost' = lost \cup {i \in tracked \ call[t].live : agent[i].live}
  /\ IF OnList(t) THEN UNCHANGED <<psCache, faults>>
     ELSE psCache' = l /\ faults' = faults + (IF psCache # l /\ l.failed THEN 1 ELSE 0)

Busy(t, l) == OnList(t) \/ \E i \in l.of : agent[i].pr = call[t].pr

\* dispatch_decide: the ban, the agent on the pull request, then (auto) the mesh.
Decides(t, l) ==
  /\ At(t, "prune") /\ call[t].attempt > 0
  /\ InFlight(t, l)
  /\ IF call[t].pr \in Banned \/ Busy(t, l)
     THEN call' = [call EXCEPT ![t] = Off] /\ dispatching' = dispatching \ {call[t].pr}
     ELSE /\ call' = [call EXCEPT ![t].pc = IF t = "poll" /\ "mesh" \in Traffic THEN "route" ELSE "spawn",
                                  ![t].live = {}]
          /\ UNCHANGED dispatching
  /\ UNCHANGED <<github, agent, disk, poll, happened, events>>

Verdict(t) == \E l \in Listings : Decides(t, l)

\* The next agent starts.
Start(i, p) ==
  /\ i \in Free /\ \A k \in Free : i <= k
  /\ agent' = [agent EXCEPT ![i] = [pr |-> p, live |-> TRUE, young |-> TRUE, old |-> FALSE, done |-> FALSE]]

\* What the passes over what is owed take for a dispatch.
Recorded(v) == v \in {"spawned", "stand_down"}

\* dispatch_agent returns v: only the passes over what is owed keep a record.
Return(t, v) ==
  LET p == call[t].pr
      j == call[t].job
      passed == t = "poll" /\ poll.stage # "events" /\ v # "failed" IN
  /\ call' = [call EXCEPT ![t] = Off] /\ dispatching' = dispatching \ {p}
  /\ IF passed
     THEN /\ last' = [last EXCEPT ![j][p] = "hot"] /\ unsaved' = unsaved \ {<<j, p>>}
          /\ poll' = IF Recorded(v)
                     THEN [poll EXCEPT !.recs[p] = [stamp |-> poll.snap[p].stamp, age |-> "hot"]] ELSE poll
     ELSE UNCHANGED <<last, unsaved, poll>>

\* _route_via_mesh: no mesh, or no taker: a local spawn.
RouteOpen(t) ==
  /\ At(t, "route") /\ Goto(t, "spawn")
  /\ UNCHANGED <<github, agent, disk, memory, poll, happened, events, faults>>

\* A peer owns the work, or it runs on a peer, or a live agent here has it.
RouteAway(t) ==
  /\ At(t, "route") /\ \E v \in {"spawned", "stand_down"} : Return(t, v)
  /\ UNCHANGED <<github, agent, disk, inflight, psCache, events, faults>>

\* It runs on this very machine: the node started it, the list knows nothing.
RouteHere(t) ==
  /\ At(t, "route") /\ LiveOn(call[t].pr) = {}
  /\ \E i \in Agents : Start(i, call[t].pr) /\ lost' = lost \cup {i}
  /\ Return(t, "spawned")
  /\ UNCHANGED <<github, disk, tracked, psCache, events, faults>>

\* _spawn_tracked
SpawnTracked(t) ==
  /\ At(t, "spawn")
  /\ \E i \in Agents : Start(i, call[t].pr) /\ tracked' = tracked \cup {i}
  /\ Return(t, "spawned")
  /\ UNCHANGED <<github, disk, lost, psCache, events, faults>>

Fault == faults < MaxFaults /\ faults' = faults + 1

SpawnFails(t) ==
  /\ "spawnfail" \in Traffic /\ At(t, "spawn") /\ Fault
  /\ Return(t, "failed")
  /\ UNCHANGED <<github, agent, disk, inflight, psCache, events>>

----------------------------------------------------------------------------
(* The poll *)

Begin(p, j, pc, n) ==
  call' = [call EXCEPT !["poll"] = [Off EXCEPT !.pc = pc, !.pr = p, !.job = j, !.attempt = n,
                                               !.live = IF pc = "prune" THEN Pruned ELSE {}]]

\* compute_diff carries the last known state over a transient UNKNOWN.
Seen(f, g) == IF g.merge = "unknown" /\ f # NoRecord THEN f.merge ELSE g.merge

Fingerprint(f, g) == [merge |-> Seen(f, g), changes |-> g.changes, threads |-> g.threads]

\* A pull request seen for the first time fires nothing; the conflict edge is
\* left to the pass over the conflicts.
ReviewEdge(f, g) == f # NoRecord /\ (g.threads > f.threads \/ (g.changes /\ ~f.changes))

\* The start of a poll: my pull requests are fetched and compared.
PollStart ==
  /\ poll.stage = "idle"
  /\ poll' = [poll EXCEPT !.stage = "events", !.snap = github,
                          !.items = {p \in Mine : ReviewEdge(fps[p], github[p])}]
  /\ UNCHANGED <<github, agent, disk, memory, call, happened, events, faults>>

\* An edge goes to the gate at once, whatever the records say.
TakeEdge(p) ==
  /\ poll.stage = "events" /\ Quiet /\ p \in poll.items
  /\ poll' = [poll EXCEPT !.items = @ \ {p}]
  /\ Begin(p, "review", "gate", 1)
  /\ UNCHANGED <<github, agent, disk, memory, happened, events, faults>>

Pass(j) == [stage |-> j, snap |-> poll.snap, recs |-> attempts[j],
            items |-> {p \in Pr : Owes(poll.snap, j, p)}]

\* _save_fingerprints, then _reconcile_my_reviews
EdgesDone ==
  /\ poll.stage = "events" /\ Quiet /\ poll.items = {}
  /\ fps' = [p \in Pr |-> IF p \in Mine THEN Fingerprint(fps[p], poll.snap[p]) ELSE NoRecord]
  /\ poll' = Pass("review")
  /\ UNCHANGED <<github, agent, attempts, memory, call, happened, events, faults>>

\* A pass looks first whether an agent is on it.
TakeOwed(p) ==
  /\ poll.stage \in Jobs /\ Quiet /\ p \in poll.items
  /\ poll' = [poll EXCEPT !.items = @ \ {p}]
  /\ Begin(p, poll.stage, "prune", 0) /\ Unlink
  /\ UNCHANGED <<github, disk, memory, happened, events, faults>>

\* Variant: another request lifts the cooldown.
CoolingOfSame(r, stamp) == r # NoRecord /\ r.age = "hot" /\ r.stamp = stamp

\* retry_delay, or RE_REQUEST_COOLDOWN after another request
Cooling(r, stamp) == r # NoRecord /\ r.age = "hot"

\* decide
Considers(l) ==
  /\ At("poll", "prune") /\ call["poll"].attempt = 0
  /\ InFlight("poll", l)
  /\ LET p == call["poll"].pr r == poll.recs[p] stamp == poll.snap[p].stamp IN
     call' = [call EXCEPT !["poll"] =
       IF p \in Banned \/ Busy("poll", l) \/ Cooling(r, stamp) THEN Off
       ELSE [@ EXCEPT !.pc = "gate", !.live = {}, !.attempt = IF r # NoRecord /\ r.stamp = stamp THEN 2 ELSE 1]]
  /\ UNCHANGED <<github, agent, disk, dispatching, poll, happened, events>>

Decide == \E l \in Listings : Considers(l)

\* What is kept of the records at the end of a pass.
Kept(j, p) ==
  CASE j = "review" -> poll.snap[p].owed
    [] j = "conflicts" -> poll.snap[p].merge # "ok"
    [] OTHER -> poll.recs[p] # NoRecord => poll.recs[p].age # "old"

\* _save_attempts
Saved(j) == [p \in Pr |-> IF Kept(j, p) THEN poll.recs[p] ELSE NoRecord]

\* A pass ends; the next one reads its own records, the last one what GitHub
\* says of the review requests by then.
PassDone(j) ==
  /\ poll.stage = j /\ Quiet /\ poll.items = {}
  /\ attempts' = [attempts EXCEPT ![j] = Saved(j)]
  /\ last' = [last EXCEPT ![j] = [p \in Pr |-> IF Kept(j, p) THEN @[p] ELSE "never"]]
  /\ poll' = CASE j = "review" -> Pass("conflicts")
               [] j = "conflicts" -> [stage |-> "request", snap |-> github, recs |-> attempts["request"],
                                      items |-> {p \in Pr : Owes(github, "request", p)}]
               [] OTHER -> Resting
  /\ UNCHANGED <<github, agent, fps, memory, call, unsaved, events, faults>>

\* Records made in this pass and not on disk yet.
Loose == IF poll.stage \in Jobs
         THEN {<<poll.stage, p>> : p \in {q \in Pr : poll.recs[q] # attempts[poll.stage][q]}} ELSE {}

\* Building the prompt of a job fails: the poll is over, its lock released.
Raise ==
  /\ "raise" \in Traffic /\ poll.stage # "idle" /\ Fault
  /\ \/ Quiet /\ poll.items # {} /\ poll.stage = "events"
     \/ At("poll", "gate") /\ call["poll"].attempt > 0 /\ poll.stage \in Jobs
  /\ poll' = Resting /\ call' = [call EXCEPT !["poll"] = Off]
  /\ unsaved' = unsaved \cup Loose
  /\ UNCHANGED <<github, agent, disk, memory, last, events>>

----------------------------------------------------------------------------
(* What happens around it *)

\* A button of the panel.
Click(p, j) ==
  /\ "click" \in Traffic /\ At("click", "off") /\ events < MaxEvents /\ events' = events + 1
  /\ call' = [call EXCEPT !["click"] = [Off EXCEPT !.pc = "gate", !.pr = p, !.job = j, !.attempt = 1]]
  /\ UNCHANGED <<github, agent, disk, memory, poll, happened, faults>>

Becomes(p, s) == github[p] # s /\ github' = [github EXCEPT ![p] = s]

After(g, p) ==
  IF p \in Mine
  THEN {[g EXCEPT !.merge = "conflict"], [g EXCEPT !.merge = "unknown"], [g EXCEPT !.changes = TRUE]}
       \cup (IF g.threads < 1 THEN {[g EXCEPT !.threads = @ + 1, !.owed = TRUE]} ELSE {})
  ELSE {[g EXCEPT !.owed = TRUE, !.stamp = @ + 1]}

\* It matters when it comes before the one fetch or the other.
GitHubChanges(p) ==
  /\ poll.stage = (IF p \in Mine THEN "idle" ELSE "conflicts")
  /\ events < MaxEvents /\ events' = events + 1
  /\ \E s \in After(github[p], p) : Becomes(p, s)
  /\ UNCHANGED <<agent, disk, memory, call, poll, last, unsaved, faults>>

\* An agent ends; its entry may still be in a list.
Ends(i, done) ==
  /\ agent[i].live /\ lost' = lost \ {i}
  /\ agent' = [agent EXCEPT ![i] = [@ EXCEPT !.live = FALSE, !.young = FALSE, !.old = FALSE, !.done = done]]
  /\ UNCHANGED <<disk, tracked, psCache, dispatching, call, poll, happened, events>>

Listed(i) == i \in tracked \/ \E t \in Thread : i \in call[t].live

\* It returns, its work done or not, and its shell writes the file.
AgentEnds(i) ==
  /\ Ends(i, Listed(i)) /\ UNCHANGED faults
  /\ LET p == agent[i].pr IN
     Becomes(p, [Clean EXCEPT !.stamp = github[p].stamp]) \/ UNCHANGED github

\* Its terminal is closed: nobody writes the file.
Killed(i) == "killed" \in Traffic /\ Fault /\ Ends(i, FALSE) /\ UNCHANGED github

\* _AUTOFIX_INFLIGHT_TTL goes by, over an agent that runs or not (between two prunes).
Ages(i) ==
  /\ i \in tracked /\ ~agent[i].young /\ ~agent[i].done /\ ~agent[i].old
  /\ \A t \in Thread : ~At(t, "prune")
  /\ agent' = [agent EXCEPT ![i].old = TRUE]
  /\ UNCHANGED <<github, disk, memory, call, poll, happened, events, faults>>

\* Five seconds go by.
ListingExpires ==
  /\ psCache # NoCache \/ \E i \in Agents : agent[i].young
  /\ psCache' = NoCache /\ agent' = [i \in Agents |-> [agent[i] EXCEPT !.young = FALSE]]
  /\ UNCHANGED <<github, disk, inflight, dispatching, call, poll, happened, events, faults>>

\* Only the pass over the review requests looks at the ceiling.
Older(j, r) ==
  IF r = NoRecord THEN r ELSE [r EXCEPT !.age = IF @ = "hot" \/ j # "request" THEN "cooled" ELSE "old"]

\* Between two polls a backoff ends, or the retry ceiling goes by.
Cools(j, p) ==
  /\ poll.stage = "idle" /\ last[j][p] # "never"
  /\ attempts' = [attempts EXCEPT ![j][p] = Older(j, @)] /\ last' = [last EXCEPT ![j][p] = "cooled"]
  /\ <<attempts', last'>> # <<attempts, last>>
  /\ UNCHANGED <<github, agent, fps, memory, call, poll, unsaved, events, faults>>

\* The applet restarts; its agents go on.
Restart ==
  /\ "restart" \in Traffic /\ Fault
  /\ tracked' = {} /\ lost' = lost \cup {i \in tracked : agent[i].live}
  /\ psCache' = NoCache /\ dispatching' = {}
  /\ call' = [t \in Thread |-> Off] /\ poll' = Resting
  /\ unsaved' = unsaved \cup Loose
  /\ UNCHANGED <<github, agent, disk, last, events>>

Gate(t) ==
  \/ Enter(t) \/ Verdict(t)
  \/ RouteOpen(t) \/ RouteAway(t) \/ RouteHere(t) \/ SpawnTracked(t)

Polling ==
  \/ PollStart \/ EdgesDone \/ Decide
  \/ \E p \in Pr : TakeEdge(p) \/ TakeOwed(p)
  \/ \E j \in Jobs : PassDone(j)

Around ==
  \/ \E p \in Pr : GitHubChanges(p)
  \/ \E p \in Mine : Click(p, "review")
  \/ \E i \in Agents : AgentEnds(i) \/ Killed(i) \/ Ages(i)
  \/ \E j \in Jobs, p \in Pr : Cools(j, p)
  \/ ListingExpires \/ Restart \/ Raise

Next == Polling \/ Around \/ \E t \in Thread : Gate(t) \/ SpawnFails(t)

Spec == Init /\ [][Next]_vars

\* The timer of the poll fires, the threads go on, and time goes by (the lifetime
\* of an entry too, which no prune holds up).
Fairness ==
  /\ WF_vars(Polling) /\ WF_vars(Gate("poll")) /\ WF_vars(Gate("click"))
  /\ WF_vars(ListingExpires) /\ SF_vars(\E i \in Agents : Ages(i))

----------------------------------------------------------------------------
(* Properties *)

\* Every variable stays in its type.
TypeOK ==
  /\ github \in [Pr -> State]
  /\ \A i \in Agents : agent[i].pr \in Pr \cup {0}
  /\ attempts \in [Jobs -> [Pr -> Record \cup {NoRecord}]]
  /\ tracked \subseteq Agents \ Free /\ lost \subseteq Agents /\ dispatching \subseteq Pr
  /\ psCache # NoCache => psCache.of \subseteq Agents
  /\ poll.recs \in [Pr -> Record \cup {NoRecord}]

\* Neither the list nor the listing of the processes is enough, both are: of the
\* agents here that are older than the listing, a dispatch can miss one only if
\* ps failed ("Fails open to an empty set") and the list does not hold it: the
\* applet restarted, its lifetime is over, the other thread dropped it from the
\* list, or the node of this machine started it.
OnlyYoungMissed ==
  [][\A t \in Thread : At(t, "prune") /\ (At(t, "route") \/ At(t, "spawn"))' =>
       \A i \in LiveOn(call[t].pr) : agent[i].young \/ (psCache'.failed /\ i \in lost')]_vars

\* Two dispatches for what a pull request owes are a backoff apart, over any
\* polls, unless the record of the first was lost with a poll cut short.
BackoffKept ==
  [][\A p \in Pr :
       (/\ poll.stage \in Jobs /\ call["poll"].pr = p /\ call["poll"].pc \in {"route", "spawn"}
        /\ Quiet' /\ faults' = faults /\ last[poll.stage][p] = "hot") => <<poll.stage, p>> \in unsaved]_vars

\* Work that is owed, with no agent on it, is dispatched (again) once its backoff
\* is over: a failed spawn, a poll cut short, a restart, a stale or failed listing,
\* a lost record, or the entry of an agent whose terminal was closed, which stays
\* for its whole lifetime, only delay it (as long as agents are left).
OwedIsDispatched ==
  \A w \in (Mine \X {"review", "conflicts"}) \cup ((Theirs \ Banned) \X {"request"}) :
    Owes(github, w[2], w[1])
      ~> (~Owes(github, w[2], w[1]) \/ last[w[2]][w[1]] = "hot" \/ LiveOn(w[1]) # {} \/ Free = {})
=============================================================================
