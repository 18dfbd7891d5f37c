------------------------------- MODULE MCApplet -------------------------------
(* GitHub changes on one side in a run: on my pull requests, or on those of others. *)
EXTENDS AutofixMonitor

VARIABLE part

MCInit == Init /\ part \in Pr

MCNext ==
  /\ Next /\ UNCHANGED part
  /\ \A p \in Pr \ {part} : github'[p] = github[p]

mcVars == <<vars, part>>
MCSpec == MCInit /\ [][MCNext]_mcVars /\ Fairness
=============================================================================
