------------------------------ MODULE MCMachine ------------------------------
(***************************************************************************)
(* What runs on a machine of the mesh, side by side.  A behaviour is one   *)
(* of the claims of two nodes with their agents; of the processes of the   *)
(* machine, trays or nodes; of the panes its tray watches; of the token    *)
(* budget of its node, the figures or the ledger; or of a job it hands to  *)
(* an executor it does not own.                                            *)
(***************************************************************************)
EXTENDS Machine

CONSTANTS job1, NoClaim, NoRoute, e1, Nobody, NoEntry, Unoccupied, Host

VARIABLES part, epoch, claims, claimSeq, releasedAt, agents, procs, sentinels, peers, net, route, jobs
claimVars == <<epoch, claims, claimSeq, releasedAt, agents, procs, sentinels, peers, net, route, jobs>>

VARIABLES order, awaiting, pleas, acted, trusted, banned, handled, settled, silenced, link,
          running, hosting, outbox, toE, toO
jobVars == <<order, awaiting, pleas, acted, trusted, banned, handled, settled, silenced, link,
             running, hosting, outbox, toE, toO>>

trayVars == <<paneVars, quotaVars>>
mcVars == <<part, vars, claimVars, jobVars, trayVars>>

Two == {1, 2}
C == INSTANCE WorkClaims WITH
  Node <- Two, Key <- {job1}, Personal <- Two \X Two, Scans <- {TRUE}, Cap <- 1, Joined <- TRUE, Callers <- {},
  Traffic <- {"settle", "target", "overrun", "restart", "connect", "killed"},
  MaxEpoch <- 2, MaxJobs <- 0, MaxSpawns <- 2, MaxSeq <- 0

J == INSTANCE ForeignJobs WITH
  route <- order, agents <- hosting, Idle <- Unoccupied,
  Executor <- {e1}, Dispatch <- {1}, Key <- {job1}, KeyOf <- [d \in {1} |-> job1], Distrusting <- {e1},
  Traffic <- {"drop", "timeout", "late", "giveup", "expire", "reap", "operator", "crash"},
  MaxTombs <- 1, MaxExtensions <- 1, MaxLinks <- 2

MCInit ==
  /\ Init /\ C!Init /\ J!Init /\ Watch!Init /\ Budget!Init
  /\ part \in {"pair", "foreign", "tray", "node", "panes", "figures", "ledger"}

Pair(A) == part = "pair" /\ A /\ UNCHANGED <<part, vars, jobVars, trayVars>>

Foreign(A) == part = "foreign" /\ A /\ UNCHANGED <<part, vars, claimVars, trayVars>>

Processes ==
  /\ part \in {"tray", "node"} /\ Next
  /\ \A p \in Proc : proc'[p].kind \in {"none", "other", part}
  /\ UNCHANGED <<part, claimVars, jobVars, trayVars>>

Panes == part = "panes" /\ Watch!Next /\ UNCHANGED <<part, vars, claimVars, jobVars, quotaVars>>

\* The figures without jobs or edits, and the ledger with an account at rest.
Figures ==
  /\ \/ part = "figures" /\ UNCHANGED <<booked, edit>> /\ Budget!Next
     \/ part = "ledger" /\ UNCHANGED account /\ Budget!Next
  /\ UNCHANGED <<part, vars, claimVars, jobVars, paneVars>>

MCNext == Pair(C!Next) \/ Foreign(J!Next) \/ Processes \/ Panes \/ Figures

OfProcess(A) == part \in {"tray", "node"} /\ A /\ UNCHANGED <<part, claimVars, jobVars, trayVars>>

\* The fairness of WorkClaims!FairSpec, of the two nodes with agents, and of
\* ForeignJobs; a process goes on, and a signal arrives.
MCSpec ==
  /\ MCInit /\ [][MCNext]_mcVars
  /\ \A n, m \in Two : WF_mcVars(Pair(C!Deliver(n, m))) /\ WF_mcVars(Pair(C!Eof(n, m)))
  /\ \A n \in Two : WF_mcVars(Pair(C!WatchEnds(n, job1)))
  /\ WF_mcVars(Foreign(J!Resume(1))) /\ WF_mcVars(Foreign(J!AckTimeout(1))) /\ WF_mcVars(Foreign(J!NoneLeft(1)))
  /\ WF_mcVars(Foreign(J!Ask(1, e1)))
  /\ WF_mcVars(Foreign(J!OnStatus(e1))) /\ WF_mcVars(Foreign(J!OnResult(e1))) /\ WF_mcVars(Foreign(J!OnProgress(e1)))
  /\ WF_mcVars(Foreign(J!TakeJob(e1))) /\ WF_mcVars(Foreign(J!OnAck(e1))) /\ WF_mcVars(Foreign(J!OnReminder(e1)))
  /\ WF_mcVars(Foreign(J!Prove(e1))) /\ WF_mcVars(Foreign(J!Grow(e1)))
  /\ WF_mcVars(Foreign(J!Resend(e1, 1))) /\ WF_mcVars(Foreign(J!GiveUp(e1, 1)))
  /\ WF_mcVars(Foreign(J!CheckDeadline(<<1, e1>>))) /\ WF_mcVars(Foreign(J!Decide(<<1, e1>>)))
  /\ WF_mcVars(Foreign(J!ReapAwaiting(<<1, e1>>)))
  /\ WF_mcVars(Foreign(\E ok \in BOOLEAN : J!Compute(<<1, e1>>, ok)))
  /\ \A p \in Proc : /\ WF_mcVars(OfProcess(Runs(p))) /\ WF_mcVars(OfProcess(Deliver(p)))

\* WorkClaims, two nodes with agents: suppressed work is not suppressed for ever.
PairSuppressionEnds == part = "pair" => C!SuppressionEnds

\* ForeignJobs: whatever is asked of an executor comes to an end on both sides.
ForeignExchangesEnd == part = "foreign" => J!ExchangesEnd
=============================================================================
