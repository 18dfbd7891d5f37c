----------------------------- MODULE ForeignJobs -----------------------------
(***************************************************************************)
(* Foreign execution in the mesh node (linux/diplomat_app/mesh/node.py):   *)
(* one originator hands work to executors it does not own.  A foreign one  *)
(* computes in confinement and returns the result, which the originator    *)
(* acts on under its own identity; a promise not kept gets the executor    *)
(* banned (deadline, reminder, extension or ban).                          *)
(*                                                                         *)
(* Both sides are asyncio loops: a step is what happens between two        *)
(* awaits.  A dispatch tries each executor at most once, so <<d, e>>       *)
(* stands for the fresh id of the job that d puts to e.                    *)
(*                                                                         *)
(* Abstracted: clocks (a timer may fire or not, within what the ratios of  *)
(* the shipped timings allow, see Quiet and ReapAwaiting), the ranking of  *)
(* the candidates, the artifact itself, half-open links (WorkClaims has    *)
(* them), the cap of 1024 entries a table.  Every device has a key; every  *)
(* message is authentic.  The default trust level is foreign.              *)
(***************************************************************************)
EXTENDS Integers, Sequences, FiniteSets

CONSTANTS
  Executor, Dispatch, Key,
  KeyOf,        \* the work key of each dispatch
  Distrusting,  \* executors that classify the originator as foreign
  MaxTombs,     \* _MAX_TOMBSTONES
  Traffic,      \* what may happen besides dispatches and deliveries (a bound)
  MaxExtensions,  \* extensions granted per job (a bound)
  MaxLinks,       \* links made per executor (a bound)
  Nobody, NoEntry, Idle, Host

Kinds == {"drop", "reap", "crash", "operator", "timeout", "late", "giveup", "expire"}

Job == Dispatch \X Executor
At(j) == j[2]
JobKey(j) == KeyOf[j[1]]

ASSUME ForeignConstants ==
  /\ KeyOf \in [Dispatch -> Key] /\ Distrusting \subseteq Executor
  /\ MaxTombs \in Nat /\ MaxExtensions \in Nat /\ MaxLinks \in Nat
  /\ Traffic \subseteq Kinds
  /\ Nobody \notin Executor /\ Idle \notin Job /\ Host \notin Job /\ Idle # Host

VARIABLES
  \* the originator
  route,     \* dispatch -> candidates left, the one asked, its answer, the outcome
  awaiting,  \* job -> the promise it is held to (_awaiting_result)
  pleas,     \* jobs whose plea a decider is judging (_decide_extension tasks)
  acted,     \* jobs done with, still remembered (_acted_results)
  trusted, banned,  \* executors on the allowlist, on the ban list
  link,      \* executor -> [state, proved, grown: so for a retry interval, made]
  \* the executors
  running,   \* confined jobs computing (_confined_running)
  agents,    \* executor -> key -> the job that runs it, Host, or Idle
  outbox,    \* executor -> results owed, oldest first (_pending_results)
  \* the wires
  toE, toO,  \* executor -> messages to it, from it
  \* what happened
  handled,   \* job -> runs of the result handler
  settled,   \* jobs the originator has closed, one way or another
  silenced   \* jobs whose executor was banned because nothing came

origin == <<route, awaiting, pleas, acted, trusted, banned, handled, settled, silenced>>
exec == <<running, agents, outbox>>
vars == <<origin, link, exec, toE, toO>>

Answers == {"spawned", "direct", "no"}
Route == [left : SUBSET Executor, asked : Executor \cup {Nobody},
          answer : Answers \cup {"none", "waiting"},
          outcome : {"new", "asking", "spawned", "failed", "lost"}]

\* clock: the deadline is not set, armed, or disarmed by a promotion; asked: a
\* reminder was written on the link that is up; pinned: executor_fp is known.
Entry == [clock : {"none", "armed", "disarmed"}, reminded : BOOLEAN, asked : BOOLEAN,
          deciding : BOOLEAN, pinned : BOOLEAN, extensions : Nat]

ASSUME NoEntryAssumption == NoEntry \notin Entry

Link == [state : {"unknown", "down", "up"}, proved : BOOLEAN, grown : BOOLEAN, made : Nat]
Owed == [job : Job, ok : BOOLEAN, gaveUp : BOOLEAN]

Msg(t, j, says) == [t |-> t, job |-> j, says |-> says]
Message == [t : {"dispatch", "status", "result", "ack", "reminder", "progress"},
            job : Job, says : Answers \cup {"", "ok", "failed"}]

Up(e) == link[e].state = "up"

\* _peer_trust: the ban first, then the key proved on the link; a peer no
\* longer in the table has no key at all.
Class(e) == IF link[e].state # "unknown" /\ e \in banned THEN "banned"
            ELSE IF link[e].proved /\ e \in trusted THEN "personal" ELSE "foreign"

Write(q, e, m) == IF Up(e) THEN [q EXCEPT ![e] = Append(@, m)] ELSE q

\* A link carries a peer's messages after its proof.
OriginReads(e, t) == Up(e) /\ link[e].proved /\ toO[e] # <<>> /\ Head(toO[e]).t = t
ExecReads(e, t) == Up(e) /\ toE[e] # <<>> /\ Head(toE[e]).t = t

OnWire(q, t, j) == \E i \in DOMAIN q[At(j)] : q[At(j)][i].t = t /\ q[At(j)][i].job = j

Init ==
  /\ route = [d \in Dispatch |-> [left |-> {}, asked |-> Nobody, answer |-> "none", outcome |-> "new"]]
  /\ awaiting = [j \in Job |-> NoEntry] /\ pleas = {} /\ acted = {}
  /\ trusted = {} /\ banned = {}
  /\ link = [e \in Executor |-> [state |-> "up", proved |-> TRUE, grown |-> TRUE, made |-> 1]]
  /\ running = {} /\ agents = [e \in Executor |-> [k \in Key |-> Idle]]
  /\ outbox = [e \in Executor |-> <<>>]
  /\ toE = [e \in Executor |-> <<>>] /\ toO = [e \in Executor |-> <<>>]
  /\ handled = [j \in Job |-> 0] /\ settled = {} /\ silenced = {}

----------------------------------------------------------------------------
(* The originator dispatches *)

\* dispatch(): the candidates are the live nodes that are not banned here.
BeginDispatch(d) ==
  /\ route[d].outcome = "new"
  /\ route' = [route EXCEPT ![d].outcome = "asking",
                            ![d].left = {e \in Executor : Up(e) /\ Class(e) # "banned"}]
  /\ UNCHANGED <<awaiting, pleas, acted, trusted, banned, handled, settled, silenced, link, exec, toE, toO>>

Fresh == [clock |-> "none", reminded |-> FALSE, asked |-> FALSE, deciding |-> FALSE,
          pinned |-> FALSE, extensions |-> 0]

\* _dispatch_to up to its await: the promise is registered before it is asked.
Ask(d, e) ==
  /\ route[d].outcome = "asking" /\ route[d].asked = Nobody /\ e \in route[d].left
  /\ IF Up(e)
     THEN /\ route' = [route EXCEPT ![d].asked = e, ![d].answer = "waiting", ![d].left = @ \ {e}]
          /\ awaiting' = [awaiting EXCEPT ![<<d, e>>] = Fresh]
          /\ toE' = Write(toE, e, Msg("dispatch", <<d, e>>, ""))
     ELSE /\ route' = [route EXCEPT ![d].left = @ \ {e}]
          /\ UNCHANGED <<awaiting, toE>>
  /\ UNCHANGED <<pleas, acted, trusted, banned, handled, settled, silenced, link, exec, toO>>

\* No candidate is left: the slot failed, and the caller runs the work itself.
NoneLeft(d) ==
  /\ route[d].outcome = "asking" /\ route[d].asked = Nobody /\ route[d].left = {}
  /\ route' = [route EXCEPT ![d].outcome = "failed"]
  /\ UNCHANGED <<awaiting, pleas, acted, trusted, banned, handled, settled, silenced, link, exec, toE, toO>>

\* _resolve_job_future: only the peer that was asked resolves the future, once.
OnStatus(e) ==
  /\ OriginReads(e, "status")
  /\ LET m == Head(toO[e]) d == m.job[1] IN
     route' = IF route[d].asked = e /\ route[d].answer = "waiting"
              THEN [route EXCEPT ![d].answer = m.says] ELSE route
  /\ toO' = [toO EXCEPT ![e] = Tail(@)]
  /\ UNCHANGED <<awaiting, pleas, acted, trusted, banned, handled, settled, silenced, link, exec, toE>>

\* _forget_dispatch
Forget(j) ==
  /\ awaiting' = [awaiting EXCEPT ![j] = NoEntry]
  /\ acted' = acted \cup {j} /\ settled' = settled \cup {j}

Ended(d, how) == [route EXCEPT ![d].asked = Nobody, ![d].answer = "none", ![d].outcome = how]

\* _maybe_arm_deadline
MaybeArm(j, says) ==
  awaiting' = IF awaiting[j] # NoEntry /\ says = "spawned" /\ Class(At(j)) = "foreign"
              THEN [awaiting EXCEPT ![j].clock = "armed",
                                    ![j].pinned = link[At(j)].proved]
              ELSE awaiting

\* _dispatch_to resumes with the answer.
Resume(d) ==
  /\ route[d].answer \in Answers
  /\ LET j == <<d, route[d].asked>> IN
     IF route[d].answer = "no"
     THEN Forget(j) /\ route' = Ended(d, "asking")
     ELSE /\ MaybeArm(j, route[d].answer) /\ route' = Ended(d, "spawned")
          /\ UNCHANGED <<acted, settled>>
  /\ UNCHANGED <<pleas, trusted, banned, handled, silenced, link, exec, toE, toO>>

\* _dispatch_to gives up waiting: the next candidate is asked.
AckTimeout(d) ==
  /\ "timeout" \in Traffic /\ route[d].answer = "waiting"
  /\ Forget(<<d, route[d].asked>>) /\ route' = Ended(d, "asking")
  /\ UNCHANGED <<pleas, trusted, banned, handled, silenced, link, exec, toE, toO>>

----------------------------------------------------------------------------
(* The originator judges *)

\* _ban_executor, over the promise aw: not of a device that is personal now;
\* the mark carries the key of the peer, or the one pinned when it accepted.
\* aws is awaiting without the promise itself.
BanExecutor(e, aw, aws) ==
  IF link[e].state # "unknown" /\ Class(e) = "personal"
  THEN awaiting' = aws /\ UNCHANGED <<trusted, banned>>
  ELSE /\ awaiting' = [j \in Job |-> IF At(j) = e THEN NoEntry ELSE aws[j]]
       /\ IF link[e].state # "unknown" \/ aw.pinned
          THEN trusted' = trusted \ {e} /\ banned' = banned \cup {e}
          ELSE UNCHANGED <<trusted, banned>>

Settles(j) == settled' = settled \cup {j} \cup {i \in Job : awaiting[i] # NoEntry /\ awaiting'[i] = NoEntry}

Pop(j) == [awaiting EXCEPT ![j] = NoEntry]

\* Variant: the promise stays when its result has come.
OnResultKeeping(e) ==
  /\ OriginReads(e, "result")
  /\ LET m == Head(toO[e]) j == m.job IN
     /\ IF awaiting[j] = NoEntry THEN UNCHANGED <<handled, settled>>
        ELSE /\ handled' = [handled EXCEPT ![j] = IF m.says = "ok" THEN @ + 1 ELSE @]
             /\ settled' = settled \cup {j}
     /\ toE' = Write(toE, e, Msg("ack", j, ""))
  /\ toO' = [toO EXCEPT ![e] = Tail(@)]
  /\ UNCHANGED <<route, awaiting, pleas, acted, trusted, banned, silenced, link, exec>>

\* _on_job_result: acknowledged when expected or remembered, acted on when
\* expected and ok; a failure after a reminder is a broken promise.
OnResult(e) ==
  /\ OriginReads(e, "result")
  /\ LET m == Head(toO[e])
         j == m.job
         aw == awaiting[j] IN
     IF aw = NoEntry
     THEN /\ toE' = IF j \in acted THEN Write(toE, e, Msg("ack", j, "")) ELSE toE
          /\ UNCHANGED <<awaiting, pleas, acted, trusted, banned, handled, settled>>
     ELSE /\ toE' = Write(toE, e, Msg("ack", j, ""))
          /\ acted' = acted \cup {j}
          /\ handled' = [handled EXCEPT ![j] = IF m.says = "ok" THEN @ + 1 ELSE @]
          /\ IF aw.reminded /\ m.says = "failed"
             THEN BanExecutor(e, aw, Pop(j))
             ELSE awaiting' = Pop(j) /\ UNCHANGED <<trusted, banned>>
          /\ Settles(j)
  /\ toO' = [toO EXCEPT ![e] = Tail(@)]
  /\ UNCHANGED <<route, pleas, silenced, link, exec>>

Reminded(j) == awaiting[j] # NoEntry /\ awaiting[j].reminded
Watched(j) == awaiting[j] # NoEntry /\ awaiting[j].clock = "armed" /\ ~awaiting[j].deciding
PersonalNow(e) == link[e].state # "unknown" /\ Class(e) = "personal"

\* _check_foreign_deadlines, per promise: the operator promoted the device.
Disarm(j) ==
  /\ Watched(j) /\ PersonalNow(At(j))
  /\ awaiting' = [awaiting EXCEPT ![j].clock = "disarmed"]
  /\ UNCHANGED <<route, pleas, acted, trusted, banned, handled, settled, silenced, link, exec, toE, toO>>

\* A result or a reminder for j on its way: no second copy is needed (a bound).
Talking(j) == OnWire(toE, "reminder", j) \/ OnWire(toO, "result", j) \/ OnWire(toO, "progress", j)

\* _send_reminder: past the deadline, and again within the grace; it counts
\* as sent whether or not there is a link.
Remind(j) ==
  /\ "late" \in Traffic
  /\ Watched(j) /\ ~PersonalNow(At(j)) /\ ~Talking(j)
  /\ ~awaiting[j].reminded \/ (Up(At(j)) /\ ~awaiting[j].asked)
  /\ awaiting' = [awaiting EXCEPT ![j].reminded = TRUE, ![j].asked = Up(At(j))]
  /\ toE' = Write(toE, At(j), Msg("reminder", j, ""))
  /\ UNCHANGED <<route, pleas, acted, trusted, banned, handled, settled, silenced, link, exec, toO>>

\* The grace (900 s) is long against the reminders (5 s): a link that was up for
\* one of those and a round trip has carried a reminder and what it asked for.
\* A younger one need not have.
Quiet(j) == Up(At(j)) /\ link[At(j)].grown => awaiting[j].asked /\ ~Talking(j)

\* _ban_for_broken_promise when the grace is over, whatever the link.
BanSilent(j) ==
  /\ Watched(j) /\ ~PersonalNow(At(j)) /\ awaiting[j].reminded /\ Quiet(j)
  /\ BanExecutor(At(j), awaiting[j], Pop(j)) /\ Settles(j)
  /\ silenced' = silenced \cup {j}
  /\ UNCHANGED <<route, pleas, acted, handled, link, exec, toE, toO>>

\* The pass of a tick over one promise.
CheckDeadline(j) == Disarm(j) \/ Remind(j) \/ BanSilent(j)

\* _on_job_progress: a plea, only for a job that was reminded, one at a time.
OnProgress(e) ==
  /\ OriginReads(e, "progress")
  /\ LET j == Head(toO[e]).job IN
     IF Watched(j) /\ awaiting[j].reminded
     THEN awaiting' = [awaiting EXCEPT ![j].deciding = TRUE] /\ pleas' = pleas \cup {j}
     ELSE UNCHANGED <<awaiting, pleas>>
  /\ toO' = [toO EXCEPT ![e] = Tail(@)]
  /\ UNCHANGED <<route, acted, trusted, banned, handled, settled, silenced, link, exec, toE>>

Extended(aw) == [aw EXCEPT !.clock = "armed", !.deciding = FALSE, !.reminded = FALSE,
                           !.asked = FALSE, !.extensions = @ + 1]

\* Variant: the verdict is written over the promise as it was when the plea came.
DecideOnStale(j) ==
  /\ j \in pleas /\ pleas' = pleas \ {j}
  /\ awaiting' = [awaiting EXCEPT ![j] = Extended(IF @ = NoEntry THEN Fresh ELSE @)]
  /\ UNCHANGED <<route, acted, trusted, banned, handled, settled, silenced, link, exec, toE, toO>>

\* _decide_extension after its await: the promise may be gone by now; it is
\* extended, or dropped and its maker banned.
Decide(j) ==
  /\ j \in pleas /\ pleas' = pleas \ {j}
  /\ \/ awaiting[j] = NoEntry /\ UNCHANGED <<awaiting, trusted, banned, settled>>
     \/ /\ awaiting[j] # NoEntry /\ awaiting[j].extensions < MaxExtensions
        /\ awaiting' = [awaiting EXCEPT ![j] = Extended(@)]
        /\ UNCHANGED <<trusted, banned, settled>>
     \/ /\ awaiting[j] # NoEntry
        /\ BanExecutor(At(j), awaiting[j], Pop(j)) /\ Settles(j)
  /\ UNCHANGED <<route, acted, handled, silenced, link, exec, toE, toO>>

\* The executor may still deliver: what the lifetime of an unarmed promise
\* (foreignJobTimeoutSecs + foreignResultMaxSecs + a margin) is made for.
InHand(j) == \/ j \in running \/ OnWire(toE, "dispatch", j) \/ OnWire(toO, "result", j)
             \/ \E i \in DOMAIN outbox[At(j)] : outbox[At(j)][i].job = j /\ ~outbox[At(j)][i].gaveUp

\* Variant: only what was disarmed is reaped.
ReapDisarmed(j) ==
  /\ awaiting[j] # NoEntry /\ awaiting[j].clock = "disarmed"
  /\ awaiting' = Pop(j) /\ settled' = settled \cup {j}
  /\ UNCHANGED <<route, pleas, acted, trusted, banned, handled, silenced, link, exec, toE, toO>>

\* _reap_foreign: a promise never armed lives longer than all that; one
\* disarmed is older than its lifetime already; an armed one is never so old.
ReapAwaiting(j) ==
  /\ awaiting[j] # NoEntry /\ route[j[1]].asked # At(j)
  /\ \/ awaiting[j].clock = "none" /\ ~InHand(j)
     \/ awaiting[j].clock = "disarmed"
  /\ awaiting' = Pop(j) /\ settled' = settled \cup {j}
  /\ UNCHANGED <<route, pleas, acted, trusted, banned, handled, silenced, link, exec, toE, toO>>

ReapActed(j) ==
  /\ "expire" \in Traffic /\ j \in acted
  /\ acted' = acted \ {j}
  /\ UNCHANGED <<route, awaiting, pleas, trusted, banned, handled, settled, silenced, link, exec, toE, toO>>

\* add_trusted lifts the ban, ban_device ends the trust.
Operator(e) ==
  /\ "operator" \in Traffic
  /\ \/ trusted' = trusted \cup {e} /\ banned' = banned \ {e}
     \/ trusted' = trusted \ {e} /\ banned' = banned
     \/ trusted' = trusted \ {e} /\ banned' = banned \cup {e}
     \/ trusted' = trusted /\ banned' = banned \ {e}
  /\ UNCHANGED <<route, awaiting, pleas, acted, handled, settled, silenced, link, exec, toE, toO>>

----------------------------------------------------------------------------
(* The executors *)

\* spawn_confined: the sandbox is started and left to itself.
Sandboxed(j) == running' = running \cup {j}

\* _run_confined once the sandbox is spawned.
RunConfined(j) ==
  /\ Sandboxed(j)
  /\ agents' = [agents EXCEPT ![At(j)][JobKey(j)] = j]

\* _spawn_local: no live agent here has the key of j.
Vacant(e, j) == agents[e][JobKey(j)] = Idle

\* spawn_job, detached: an agent on the host.
OnHost(e, k) == agents' = [agents EXCEPT ![e][k] = Host]

\* _take_job: declined by policy (ban, duty, tokens, no runner) or failed to
\* spawn; for an owner run on the host, for a stranger confined; work already
\* under way is not started again, and owes no result.
TakeJob(e) ==
  /\ ExecReads(e, "dispatch")
  /\ LET j == Head(toE[e]).job
         Says(a) == toO' = Write(toO, e, Msg("status", j, a)) IN
     \/ Says("no") /\ UNCHANGED <<running, agents>>
     \/ /\ ~Vacant(e, j)
        /\ Says("direct") /\ UNCHANGED <<running, agents>>
     \/ /\ e \notin Distrusting /\ Vacant(e, j)
        /\ OnHost(e, JobKey(j))
        /\ Says("direct") /\ UNCHANGED running
     \/ /\ e \in Distrusting /\ Vacant(e, j)
        /\ RunConfined(j) /\ Says("spawned")
  /\ toE' = [toE EXCEPT ![e] = Tail(@)]
  /\ UNCHANGED <<outbox, origin, link>>

\* _watch_agent: the agent on the host is over.
HostDone(e, k) ==
  /\ agents[e][k] = Host
  /\ agents' = [agents EXCEPT ![e][k] = Idle]
  /\ UNCHANGED <<running, outbox, origin, link, toE, toO>>

Result(j, ok) == Msg("result", j, IF ok THEN "ok" ELSE "failed")

\* The finally of _await_confined_result frees the key of this very job.
FreeKey(j) == IF agents[At(j)][JobKey(j)] = j
              THEN [agents EXCEPT ![At(j)][JobKey(j)] = Idle] ELSE agents

\* _await_confined_result, _emit_result: the artifact, or a failure at the timeout.
Compute(j, ok) ==
  /\ j \in running
  /\ running' = running \ {j} /\ agents' = FreeKey(j)
  /\ outbox' = [outbox EXCEPT ![At(j)] = Append(@, [job |-> j, ok |-> ok, gaveUp |-> FALSE])]
  /\ toO' = Write(toO, At(j), Result(j, ok))
  /\ UNCHANGED <<origin, link, toE>>

\* _retry_pending_results; a copy on the wire needs no other (a bound).
Resend(e, i) ==
  /\ i \in DOMAIN outbox[e] /\ ~outbox[e][i].gaveUp
  /\ Up(e) /\ ~OnWire(toO, "result", outbox[e][i].job) /\ ~OnWire(toE, "ack", outbox[e][i].job)
  /\ toO' = Write(toO, e, Result(outbox[e][i].job, outbox[e][i].ok))
  /\ UNCHANGED <<exec, origin, link, toE>>

\* _reap_foreign keeps the newest MaxTombs of the deliveries given up.
Given(box) == {i \in DOMAIN box : box[i].gaveUp}
Dropped(box, i) == SubSeq(box, 1, i - 1) \o SubSeq(box, i + 1, Len(box))
Buried(box) ==
  IF Cardinality(Given(box)) <= MaxTombs THEN box
  ELSE Dropped(box, CHOOSE i \in Given(box) : \A k \in Given(box) : i <= k)

\* foreignResultMaxSecs without an ack: a tombstone.
GiveUp(e, i) ==
  /\ "giveup" \in Traffic
  /\ i \in DOMAIN outbox[e] /\ ~outbox[e][i].gaveUp
  /\ outbox' = [outbox EXCEPT ![e] = Buried([@ EXCEPT ![i].gaveUp = TRUE])]
  /\ UNCHANGED <<running, agents, origin, link, toE, toO>>

\* A job is owed once at most (_pending_results is a dict).
Of(box, j) == {i \in DOMAIN box : box[i].job = j}
Without(box, j) == IF Of(box, j) = {} THEN box ELSE Dropped(box, CHOOSE i \in Of(box, j) : TRUE)
Owes(e, j) == \E i \in DOMAIN outbox[e] : outbox[e][i].job = j

\* A result is dropped when nobody can ask for it any more.
ExpireTomb(e, i) ==
  /\ "expire" \in Traffic
  /\ i \in DOMAIN outbox[e] /\ outbox[e][i].gaveUp
  /\ LET j == outbox[e][i].job IN
     /\ awaiting[j] # NoEntry => awaiting[j].clock # "armed"
     /\ outbox' = [outbox EXCEPT ![e] = Without(@, j)]
  /\ UNCHANGED <<running, agents, origin, link, toE, toO>>

OnAck(e) ==
  /\ ExecReads(e, "ack")
  /\ outbox' = [outbox EXCEPT ![e] = Without(@, Head(toE[e]).job)]
  /\ toE' = [toE EXCEPT ![e] = Tail(@)]
  /\ UNCHANGED <<running, agents, origin, link, toO>>

Revived(box, j) == [i \in DOMAIN box |-> IF box[i].job = j THEN [box[i] EXCEPT !.gaveUp = FALSE] ELSE box[i]]

\* Variant: a delivery given up on counts as forgotten.
AnswerOfLive(e, j) ==
  IF \E i \in DOMAIN outbox[e] : outbox[e][i].job = j /\ ~outbox[e][i].gaveUp
  THEN {Result(j, outbox[e][i].ok) : i \in {n \in DOMAIN outbox[e] : outbox[e][n].job = j}}
  ELSE IF j \in running THEN {Msg("progress", j, "")} ELSE {}

\* What e can say truthfully of j: the result it owes, a plea, or nothing.
AnswerOf(e, j) ==
  IF Owes(e, j)
  THEN {Result(j, outbox[e][i].ok) : i \in {n \in DOMAIN outbox[e] : outbox[e][n].job = j}}
  ELSE IF j \in running THEN {Msg("progress", j, "")} ELSE {}

\* _on_job_reminder: a delivery given up on is taken up again.
OnReminder(e) ==
  /\ ExecReads(e, "reminder")
  /\ LET j == Head(toE[e]).job IN
     /\ outbox' = [outbox EXCEPT ![e] = Revived(@, j)]
     /\ IF AnswerOf(e, j) = {} THEN toO' = toO
        ELSE \E m \in AnswerOf(e, j) : toO' = Write(toO, e, m)
  /\ toE' = [toE EXCEPT ![e] = Tail(@)]
  /\ UNCHANGED <<running, agents, origin, link>>

----------------------------------------------------------------------------
(* Links and crashes *)

Cut(e) == /\ toE' = [toE EXCEPT ![e] = <<>>] /\ toO' = [toO EXCEPT ![e] = <<>>]

Unasked(S) == [j \in Job |-> IF awaiting[j] # NoEntry /\ At(j) \in S
                             THEN [awaiting[j] EXCEPT !.asked = FALSE] ELSE awaiting[j]]

Drop(e) ==
  /\ "drop" \in Traffic /\ Up(e) /\ link[e].made < MaxLinks
  /\ link' = [link EXCEPT ![e].state = "down", ![e].grown = FALSE] /\ Cut(e)
  /\ awaiting' = Unasked({e})
  /\ UNCHANGED <<route, pleas, acted, trusted, banned, handled, settled, silenced, exec>>

\* The heartbeat loop removes a peer that has been down for long.
ReapPeer(e) ==
  /\ "reap" \in Traffic /\ link[e].state = "down"
  /\ link' = [link EXCEPT ![e].state = "unknown", ![e].proved = FALSE]
  /\ UNCHANGED <<origin, exec, toE, toO>>

\* A hello: a new link, on which nothing is proved yet.
Connect(e) ==
  /\ ~Up(e)
  /\ link' = [link EXCEPT ![e] = [state |-> "up", proved |-> FALSE, grown |-> FALSE, made |-> @.made + 1]]
  /\ UNCHANGED <<origin, exec, toE, toO>>

\* A grace that begins from here on is long enough for the link to grow.
Prove(e) ==
  /\ Up(e) /\ ~link[e].proved
  /\ link' = [link EXCEPT ![e].proved = TRUE, ![e].grown = \A j \in Job : At(j) = e => ~Reminded(j)]
  /\ UNCHANGED <<origin, exec, toE, toO>>

\* A retry interval and a round trip later.
Grow(e) ==
  /\ Up(e) /\ link[e].proved /\ ~link[e].grown
  /\ link' = [link EXCEPT ![e].grown = TRUE]
  /\ UNCHANGED <<origin, exec, toE, toO>>

\* The originator restarts: only the two lists survive.
CrashOrigin ==
  /\ "crash" \in Traffic /\ \A e \in Executor : link[e].made < MaxLinks
  /\ route' = [d \in Dispatch |-> [left |-> {}, asked |-> Nobody, answer |-> "none",
                outcome |-> IF route[d].outcome = "asking" THEN "lost" ELSE route[d].outcome]]
  /\ settled' = settled \cup {j \in Job : awaiting[j] # NoEntry}
  /\ awaiting' = [j \in Job |-> NoEntry] /\ pleas' = {} /\ acted' = {}
  /\ link' = [e \in Executor |-> [link[e] EXCEPT !.state = "unknown", !.proved = FALSE, !.grown = FALSE]]
  /\ toE' = [e \in Executor |-> <<>>] /\ toO' = [e \in Executor |-> <<>>]
  /\ UNCHANGED <<trusted, banned, handled, silenced, exec>>

\* An executor restarts: it has forgotten what it promised.
CrashExecutor(e) ==
  /\ "crash" \in Traffic /\ Up(e) /\ link[e].made < MaxLinks
  /\ running' = {j \in running : At(j) # e}
  /\ agents' = [agents EXCEPT ![e] = [k \in Key |-> Idle]]
  /\ outbox' = [outbox EXCEPT ![e] = <<>>]
  /\ link' = [link EXCEPT ![e].state = "down", ![e].grown = FALSE] /\ Cut(e)
  /\ awaiting' = Unasked({e})
  /\ UNCHANGED <<route, pleas, acted, trusted, banned, handled, settled, silenced>>

----------------------------------------------------------------------------

Dispatching ==
  \E d \in Dispatch :
    BeginDispatch(d) \/ NoneLeft(d) \/ Resume(d) \/ AckTimeout(d) \/ \E e \in Executor : Ask(d, e)

Judging ==
  \/ \E e \in Executor : OnStatus(e) \/ OnResult(e) \/ OnProgress(e) \/ Operator(e)
  \/ \E j \in Job : CheckDeadline(j) \/ Decide(j) \/ ReapAwaiting(j) \/ ReapActed(j)

Executing ==
  \/ \E e \in Executor : TakeJob(e) \/ OnAck(e) \/ OnReminder(e)
  \/ \E j \in Job, ok \in BOOLEAN : Compute(j, ok)
  \/ \E e \in Executor, k \in Key : HostDone(e, k)
  \/ \E e \in Executor, i \in 1..Cardinality(Job) : Resend(e, i) \/ GiveUp(e, i) \/ ExpireTomb(e, i)

Linking ==
  \/ CrashOrigin
  \/ \E e \in Executor : Drop(e) \/ ReapPeer(e) \/ Connect(e) \/ Prove(e) \/ Grow(e) \/ CrashExecutor(e)

Next == Dispatching \/ Judging \/ Executing \/ Linking

Spec == Init /\ [][Next]_vars

\* The loop and the timers of each side go on; nobody need ever link again.
Fairness ==
  /\ \A d \in Dispatch : /\ WF_vars(Resume(d)) /\ WF_vars(AckTimeout(d)) /\ WF_vars(NoneLeft(d))
                        /\ WF_vars(\E e \in Executor : Ask(d, e))
  /\ \A e \in Executor : /\ WF_vars(OnStatus(e)) /\ WF_vars(OnResult(e)) /\ WF_vars(OnProgress(e))
                        /\ WF_vars(TakeJob(e)) /\ WF_vars(OnAck(e)) /\ WF_vars(OnReminder(e))
                        /\ WF_vars(Prove(e)) /\ WF_vars(Grow(e))
                        /\ \A i \in 1..Cardinality(Job) : WF_vars(Resend(e, i)) /\ WF_vars(GiveUp(e, i))
  /\ \A j \in Job : /\ WF_vars(CheckDeadline(j)) /\ WF_vars(Decide(j)) /\ WF_vars(ReapAwaiting(j))
                   /\ WF_vars(\E ok \in BOOLEAN : Compute(j, ok))

FairSpec == Spec /\ Fairness

----------------------------------------------------------------------------
(* Properties *)

\* Every variable stays in its type.
TypeOK ==
  /\ route \in [Dispatch -> Route]
  /\ awaiting \in [Job -> Entry \cup {NoEntry}]
  /\ pleas \subseteq Job /\ acted \subseteq Job /\ settled \subseteq Job /\ silenced \subseteq Job
  /\ trusted \subseteq Executor /\ banned \subseteq Executor
  /\ link \in [Executor -> Link]
  /\ running \subseteq Job
  /\ agents \in [Executor -> [Key -> Job \cup {Idle, Host}]]
  /\ outbox \in [Executor -> Seq(Owed)]
  /\ toE \in [Executor -> Seq(Message)] /\ toO \in [Executor -> Seq(Message)]
  /\ handled \in [Job -> Nat]

\* Whatever is resent, acknowledged twice, extended, forgotten or reaped, the
\* originator acts on the result of a job at most once (_on_job_result).
ActsAtMostOnce == \A j \in Job : handled[j] <= 1

\* A job the originator has closed (acted on, forgotten after a failed
\* hand-off, given up with its maker banned, reaped, lost in a restart) is
\* never acted on afterwards, even by a verdict on a plea that was pending.
ClosedIsClosed ==
  [][\A j \in settled : awaiting'[j] = NoEntry /\ handled'[j] = handled[j]]_vars

\* An executor that has been linked for a retry interval, and still computes the
\* job or still has its result, even one it gave up delivering, is not banned for
\* silence ("an executor that reconnects mid-grace (still holding its result
\* tombstone)").  One that reconnects in the last of those intervals may be, and
\* so may one whose tombstone was dropped for its table was full.
HonestSpared ==
  [][\A j \in silenced' \ silenced :
       ~(Up(At(j)) /\ link[At(j)].grown /\ (j \in running \/ Owes(At(j), j)))]_vars

\* Every promise is resolved: kept, forgotten, reaped, or its maker banned.
PromisesEnd == \A j \in Job : awaiting[j] # NoEntry ~> awaiting[j] = NoEntry

\* An executor does not resend a result for ever.
DeliveriesEnd ==
  \A j \in Job : LET resent == \E i \in DOMAIN outbox[At(j)] : outbox[At(j)][i].job = j /\ ~outbox[At(j)][i].gaveUp
                IN  resent ~> ~resent

\* Whatever is asked of an executor comes to an end on both sides, even if one
\* of them never hears of the other again, and whatever the operator trusts or
\* bans meanwhile.
ExchangesEnd == PromisesEnd /\ DeliveriesEnd

\* A hand-off is reported failed, and its work run elsewhere, only when its
\* result has not been acted on (the comment in _dispatch_to).
ActOnce ==
  [][\A d \in Dispatch :
       (route[d].asked # Nobody /\ route'[d].asked = Nobody /\ route'[d].outcome = "asking")
         => handled[<<d, route[d].asked>>] = 0]_vars
=============================================================================
