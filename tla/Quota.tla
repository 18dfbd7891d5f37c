------------------------------- MODULE Quota -------------------------------
(***************************************************************************)
(* What a mesh node knows of its token budget                              *)
(* (linux/diplomat_app/mesh/usage.py, stats.py, node.py): the figures of   *)
(* the account, read over the network and kept for a while, or guessed     *)
(* from local transcripts; and a ledger of the jobs it ran in the current  *)
(* window.  Probes run in worker threads; the one of the start and the     *)
(* first of the snapshot loop overlap, over one cache.                     *)
(*                                                                         *)
(* Abstracted: the two windows of the account and their pace are one       *)
(* figure; a guess may be anything; of the ledger the rolling average is   *)
(* left out; time stands still during a probe, and is the same on all      *)
(* clocks; the ledger's file is written whole (see NodeState).             *)
(***************************************************************************)
EXTENDS Integers, FiniteSets

CONSTANTS
  Ttl, Retry, Keep,   \* between probes, between probes without a figure, and of a figure
  Every,              \* between refreshes of the node
  Span,               \* the quota window of the ledger
  MaxTime, MaxJobs    \* (bounds)

VARIABLES
  now,
  account,    \* [left, online]: the account's real figure; whether it can be read
  cache,      \* _probe_cache: [attempt, good, session]; Never and Unknown at first
  probe,      \* prober -> [pc, left, real, good]
  node,       \* what the node goes by: [left, real, good: when it was read]
  refreshed,  \* _last_token_refresh
  ledger,     \* [used, start]
  saved,      \* stats.json
  booked,     \* when jobs were booked
  edit        \* the operator's last edit: [used, at]

figures == <<account, cache, probe, node, refreshed>>
accounts == <<ledger, saved, booked, edit>>
vars == <<now, figures, accounts>>

Probers == {"start", "loop"}
Never == -1
Unknown == -1
Figures == 0..2
NoProbe == [pc |-> "idle", left |-> 0, real |-> FALSE, good |-> Never]
AtStart == [w \in Probers |-> IF w = "start" THEN [NoProbe EXCEPT !.pc = "check"] ELSE NoProbe]
NoFigures == [attempt |-> Never, good |-> Never, session |-> Unknown]
Running == {w \in Probers : probe[w].pc # "idle"}

Init ==
  /\ now = 0 /\ account = [left |-> 2, online |-> TRUE]
  /\ cache = NoFigures /\ probe = AtStart /\ refreshed = Never
  /\ node = [left |-> 2, real |-> FALSE, good |-> Never]
  /\ ledger = [used |-> 0, start |-> 0] /\ saved = ledger /\ booked = {} /\ edit = [used |-> 0, at |-> 0]

Elapse ==
  /\ Running = {} /\ now < MaxTime /\ now' = now + 1
  /\ UNCHANGED <<figures, accounts>>

----------------------------------------------------------------------------
(* The account's figures *)

\* The account is used, or refilled; the network or the credentials fail.
AccountChanges(left, online) ==
  /\ account' = [left |-> left, online |-> online] /\ account' # account
  /\ UNCHANGED <<now, cache, probe, node, refreshed, accounts>>

Due == refreshed = Never \/ now - refreshed >= Every

\* decayed: a window that is over begins anew at once; without a span none is.
Decayed(l) == IF Span > 0 /\ now - l.start >= Span THEN [used |-> 0, start |-> now] ELSE l

\* An iteration of _snapshot_loop: the ledger is aged, and not saved; a probe begins.
Loop ==
  /\ probe["loop"].pc = "idle" /\ ledger' = Decayed(ledger)
  /\ refreshed' = IF Due THEN now ELSE refreshed
  /\ probe' = IF Due THEN [probe EXCEPT !["loop"].pc = "check"] ELSE probe
  /\ UNCHANGED <<now, account, cache, node, saved, booked, edit>>

Interval == IF cache.session # Unknown THEN Ttl ELSE Retry

\* windows, up to the fetch.
Checks(w) ==
  /\ probe[w].pc = "check"
  /\ LET due == cache.attempt = Never \/ now - cache.attempt >= Interval
     IN /\ cache' = IF due THEN [cache EXCEPT !.attempt = now] ELSE cache
        /\ probe' = [probe EXCEPT ![w].pc = IF due THEN "fetch" ELSE "keep"]
  /\ UNCHANGED <<now, account, node, refreshed, accounts>>

\* _fetch_usage_payload, and what comes of it.
Fetches(w) ==
  /\ probe[w].pc = "fetch" /\ probe' = [probe EXCEPT ![w].pc = "keep"]
  /\ cache' = IF account.online THEN [cache EXCEPT !.good = now, !.session = account.left] ELSE cache
  /\ UNCHANGED <<now, account, node, refreshed, accounts>>

\* Variant: a figure is as old as the last attempt to read it.
StaleByAttempt(c) == c.session # Unknown /\ now - c.attempt > Keep

\* Stale beyond trust.
Stale(c) == c.session # Unknown /\ now - c.good > Keep

\* The end of windows, and token_state: without a figure, a guess.
Keeps(w) ==
  /\ probe[w].pc = "keep"
  /\ cache' = IF Stale(cache) THEN [cache EXCEPT !.session = Unknown] ELSE cache
  /\ \E guess \in Figures :
       probe' = [probe EXCEPT ![w] =
         IF cache'.session # Unknown THEN [pc |-> "done", left |-> cache'.session, real |-> TRUE, good |-> cache.good]
         ELSE [pc |-> "done", left |-> guess, real |-> FALSE, good |-> Never]]
  /\ UNCHANGED <<now, account, node, refreshed, accounts>>

\* _refresh_tokens after its await; the start then puts off the next refresh.
Adopts(w) ==
  /\ probe[w].pc = "done" /\ probe' = [probe EXCEPT ![w] = NoProbe]
  /\ node' = [left |-> probe[w].left, real |-> probe[w].real, good |-> probe[w].good]
  /\ refreshed' = IF w = "start" THEN now ELSE refreshed
  /\ UNCHANGED <<now, account, cache, accounts>>

----------------------------------------------------------------------------
(* The ledger *)

\* Variant: a job is booked as the ledger stands.
RecordUndecayed(l) == [l EXCEPT !.used = @ + 1]

\* record
Record(l) == [Decayed(l) EXCEPT !.used = @ + 1]

\* _record_usage, after a spawn: saved at once.
Books ==
  /\ Cardinality(booked) < MaxJobs /\ now \notin booked
  /\ ledger' = Record(ledger) /\ saved' = ledger' /\ booked' = booked \cup {now}
  /\ UNCHANGED <<now, figures, edit>>

\* apply_stat_attrs: the operator sets what is left.
Sets(used) ==
  /\ now > edit.at /\ ledger' = [used |-> used, start |-> now] /\ saved' = ledger'
  /\ booked' = {} /\ edit' = [used |-> used, at |-> now]
  /\ UNCHANGED <<now, figures>>

\* load
Restart ==
  /\ now > 0 /\ ledger' = Decayed(saved) /\ cache' = NoFigures /\ probe' = AtStart /\ refreshed' = Never
  /\ node' = [left |-> 2, real |-> FALSE, good |-> Never]
  /\ UNCHANGED <<now, account, saved, booked, edit>>

Next ==
  \/ Elapse \/ Loop \/ Books \/ Restart
  \/ \E w \in Probers : Checks(w) \/ Fetches(w) \/ Keeps(w) \/ Adopts(w)
  \/ \E left \in Figures, online \in BOOLEAN : AccountChanges(left, online)
  \/ \E used \in 0..MaxJobs : Sets(used)

Spec == Init /\ [][Next]_vars

----------------------------------------------------------------------------
(* Properties *)

\* "How long a last-good read keeps answering through failures": a node that
\* goes by the account's figure, while it refreshes, read it no longer ago than
\* that and the time of a refresh.
RealIsFresh ==
  (node.real /\ Running = {} /\ now - refreshed <= Every) => now - node.good <= Keep + Every

\* What was booked in the current window is counted, once, over restarts and
\* rolls of the window, and nothing is booked to a window that is over.
LedgerKept ==
  LET counted == {t \in booked : t >= ledger.start} IN
  /\ ledger.used = Cardinality(counted) + (IF edit.at >= ledger.start THEN edit.used ELSE 0)
  /\ Span > 0 => \A t \in counted : t < ledger.start + Span
=============================================================================
