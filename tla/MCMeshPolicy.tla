---------------------------- MODULE MCMeshPolicy ----------------------------
(***************************************************************************)
(* What nodes decide and keep, side by side.  A behaviour is one of        *)
(* gossiping overrides or of placing duties, among two linux machines and  *)
(* a mac; or, in one node, of trusting and banning devices, of telling its *)
(* token budget, or of its beacon sockets.                                 *)
(***************************************************************************)
EXTENDS MeshPolicy

CONSTANTS NoStats

VARIABLES
  part,
  live, tokens, banned, surplus, policy, off, slots, cands, placed, shown, smooth, changes

placement == <<live, tokens, banned, surplus, policy, off, slots, cands, placed, shown, smooth, changes>>
mcVars == <<part, vars, placement, state, beacons>>

Strategies == {"weakest-first", "strongest-first", "local-first", "surplus-first"}
SomeSurpluses ==
  {[n \in Node |-> NoStats], [n \in Node |-> IF n = 3 THEN 12 ELSE IF n = 2 THEN 10 ELSE NoStats]}
Spread(p, k) == [platform |-> p, count |-> k]
Spreads == {<<>>, <<Spread("linux", 1), Spread("macos", 1)>>, <<Spread("linux", 1), Spread("linux", 1)>>,
            <<Spread("linux", 2), Spread("macos", 1)>>}

P == INSTANCE Placement WITH
  Self <- 1,
  Platform <- [n \in Node |-> IF n = 2 THEN "macos" ELSE "linux"],
  Tier <- [n \in Node |-> IF n = 1 THEN 2 ELSE 1],
  Surpluses <- SomeSurpluses,
  Policies <- [strategy : Strategies, tokenAware : {TRUE}, spread : Spreads]
              \cup [strategy : {"surplus-first"}, tokenAware : {FALSE}, spread : {<<>>}],
  Disabled <- {{}, {3}},
  DispatchStrategy <- "surplus-first",
  Neutral <- 1, RankCap <- 10, MaxChanges <- 2

MCInit ==
  /\ Init /\ P!Init /\ Trust!Init /\ B!Init
  /\ part \in {"gossip", "placement", "trust", "budget", "beacons"}
  /\ part # "placement" =>
       /\ live = <<1>> /\ off = {} /\ surplus = [n \in Node |-> NoStats]
       /\ policy = [strategy |-> "surplus-first", tokenAware |-> FALSE, spread |-> <<>>]
  /\ part # "beacons" => gate = "open" /\ net = "up"

MCNext ==
  /\ UNCHANGED part
  /\ \/ part = "gossip" /\ Next /\ UNCHANGED <<placement, state, beacons>>
     \/ part = "placement" /\ P!Next /\ UNCHANGED <<vars, state, beacons>>
     \/ part = "trust" /\ Trust!Next /\ UNCHANGED <<vars, placement, beacons>>
     \/ part = "budget" /\ Budget!Next /\ UNCHANGED <<vars, placement, beacons>>
     \/ part = "beacons" /\ B!Next /\ UNCHANGED <<vars, placement, state>>

MCSpec == MCInit /\ [][MCNext]_mcVars

\* Placement: an undisturbed dispatch goes where every panel says.
DispatchedAsShown == P!DispatchedAsShown

\* Placement: the death of a node moves only what was on it.
OnlyTheLostMoves == P!OnlyTheLostMoves
=============================================================================
