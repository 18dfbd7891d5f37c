------------------------------ MODULE ApiWatch ------------------------------
(***************************************************************************)
(* The applet's watcher of Claude API errors                               *)
(* (linux/diplomat_app/apiwatch.py, tmuxwatch.py, store.py from line       *)
(* 1009): it reads every tmux pane at intervals and types a line into each *)
(* that shows the same error as at the scan before, ever more seldom.      *)
(*                                                                         *)
(* Abstracted: of a screen the last lines, by what they show; the panes    *)
(* are read in one step and written to one by one; time is counted in      *)
(* cooldowns and stands still during a scan; a scan for which tmux fails   *)
(* changes nothing.                                                        *)
(***************************************************************************)
EXTENDS Integers

CONSTANTS
  Pane,
  MaxBackoff   \* APIWATCH_MAX_BACKOFF, in cooldowns

VARIABLES
  enabled,     \* api_watch_enabled
  screen,      \* pane -> what its last lines show, "gone" once closed
  scan,        \* the scan under way: [on, tail, left: the panes to look at]
  seen,        \* _apiwatch_seen_tail
  backoff,     \* _apiwatch_backoff: pane -> [wait, interval]
  last,        \* pane -> what the scan before read
  count,       \* pane -> nudges while every scan found an error
  since        \* pane -> cooldowns since the last of them

watch == <<scan, seen, backoff, last, count>>
vars == <<enabled, screen, watch, since>>

Errors == {"overloaded", "offline"}
Screens == Errors \cup {"works", "quota"}
None == [wait |-> 0, interval |-> 0]
Idle == [on |-> FALSE, tail |-> [p \in Pane |-> "gone"], left |-> {}]
AtMost(a, b) == IF a < b THEN a ELSE b

Init ==
  /\ enabled = TRUE /\ screen = [p \in Pane |-> "works"] /\ scan = Idle
  /\ seen = [p \in Pane |-> "none"] /\ backoff = [p \in Pane |-> None]
  /\ last = [p \in Pane |-> "gone"] /\ count = [p \in Pane |-> 0] /\ since = [p \in Pane |-> MaxBackoff]

Prints(p, s) ==
  /\ screen[p] \notin {"gone", s} /\ screen' = [screen EXCEPT ![p] = s]
  /\ UNCHANGED <<enabled, watch, since>>

Toggle == enabled' = ~enabled /\ UNCHANGED <<screen, watch, since>>

\* The cooldowns that pass between two scans, one at a time.
Elapse ==
  /\ ~scan.on
  /\ backoff' = [p \in Pane |-> [backoff[p] EXCEPT !.wait = IF @ = 0 THEN 0 ELSE @ - 1]]
  /\ since' = [p \in Pane |-> AtMost(since[p] + 1, MaxBackoff)]
  /\ UNCHANGED <<enabled, screen, scan, seen, last, count>>

\* run_apiwatch_poll_async, dump_panes: a pane that cannot be captured is left out.
ScanBegins(captured) ==
  /\ enabled /\ ~scan.on /\ \A p \in captured : screen[p] # "gone"
  /\ scan' = [on |-> TRUE, left |-> captured,
              tail |-> [p \in Pane |-> IF p \in captured THEN screen[p] ELSE "gone"]]
  /\ UNCHANGED <<enabled, screen, seen, backoff, last, count, since>>

\* looks_like_api_error: a quota banner is none.
LooksLikeApiError(tail) == tail \in Errors
IsConfirmedStall(p) == LooksLikeApiError(scan.tail[p]) /\ seen[p] = scan.tail[p]
NextBackoff(interval) == IF interval = 0 THEN 1 ELSE AtMost(2 * interval, MaxBackoff)

Judged(p) ==
  /\ p \in scan.left /\ scan' = [scan EXCEPT !.left = @ \ {p}]
  /\ seen' = [seen EXCEPT ![p] = IF LooksLikeApiError(scan.tail[p]) THEN scan.tail[p] ELSE @]
  /\ UNCHANGED <<enabled, last>>

\* send_continue fails if the pane is gone, or for tmux.
Passes(p) ==
  /\ Judged(p)
  /\ UNCHANGED <<screen, backoff, count, since>>

\* The agent answers in any way.
Nudges(p) ==
  /\ Judged(p) /\ IsConfirmedStall(p) /\ backoff[p].wait = 0 /\ screen[p] # "gone"
  /\ LET interval == NextBackoff(backoff[p].interval)
     IN backoff' = [backoff EXCEPT ![p] = [wait |-> interval, interval |-> interval]]
  /\ \E s \in Screens : screen' = [screen EXCEPT ![p] = s]
  /\ count' = [count EXCEPT ![p] = AtMost(@ + 1, MaxBackoff)]
  /\ since' = [since EXCEPT ![p] = 0]

Erroring == {p \in Pane : LooksLikeApiError(scan.tail[p])}

\* Variant: what a pane showed is kept until it shows another error.
KeptAll(m, none) == m

\* The state of panes that show no error is dropped.
Kept(m, none) == [p \in Pane |-> IF p \in Erroring THEN m[p] ELSE none]

ScanEnds ==
  /\ scan.on /\ scan.left = {} /\ scan' = Idle
  /\ backoff' = Kept(backoff, None) /\ seen' = Kept(seen, "none")
  /\ last' = scan.tail /\ count' = [p \in Pane |-> IF p \in Erroring THEN count[p] ELSE 0]
  /\ UNCHANGED <<enabled, screen, since>>

Next ==
  \/ Toggle \/ Elapse \/ ScanEnds
  \/ \E p \in Pane : Passes(p) \/ Nudges(p) \/ \E s \in Screens \cup {"gone"} : Prints(p, s)
  \/ \E captured \in SUBSET Pane : ScanBegins(captured)

Spec == Init /\ [][Next]_vars

----------------------------------------------------------------------------
(* Properties *)

Due(n) == IF n = 0 THEN 0 ELSE AtMost(2 ^ (n - 1), MaxBackoff)

\* "an actively-working session changes between scans and must not be nudged":
\* whoever is nudged showed the same error at the scan before, whatever it did
\* and whatever scans missed it earlier; and one that goes on erring is nudged
\* again no sooner than a cooldown, two, four later, up to the longest.
NudgeIsDue ==
  [][\A p \in Pane : since'[p] < since[p] => (last[p] = scan.tail[p] /\ since[p] >= Due(count[p]))]_vars
=============================================================================
