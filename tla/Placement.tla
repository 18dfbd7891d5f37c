------------------------------ MODULE Placement ------------------------------
(***************************************************************************)
(* Who does a duty: the ranking every node computes on its own             *)
(* (linux/diplomat_app/mesh/assign.py), and the walk of a dispatch through *)
(* the candidates it returns (node.py, dispatch), seen from the node Self  *)
(* while nodes come, go and run out of tokens.                             *)
(*                                                                         *)
(* Abstracted: a surplus is counted in buckets (SURPLUS_RANK_BUCKET); a    *)
(* node of which Self has no news is out of its list; what happens to a    *)
(* job once it is placed (ForeignJobs, WorkClaims).                        *)
(***************************************************************************)
EXTENDS Integers, Sequences, FiniteSets

CONSTANTS
  Node,       \* node ids, numbers from 1
  Self,       \* the node that computes and dispatches
  Platform,   \* node -> its platform
  Tier,       \* node -> 1, the strongest, and up
  Surpluses,  \* the tables of advertised surpluses (node -> buckets, or NoStats)
  Policies,   \* the placements tried: [strategy, tokenAware, spread]
  Disabled,   \* the sets of nodes that may have the duty switched off
  DispatchStrategy,   \* config.dispatch_strategy
  NoStats, Neutral, RankCap,   \* NEUTRAL_SURPLUS, SURPLUS_RANK_CAP
  MaxChanges  \* comings, goings, token changes, bans (a bound)

Strategies == {"weakest-first", "strongest-first", "local-first", "surplus-first"}

VARIABLES
  live,     \* the nodes Self knows to be up or stale, in the order of its table
  tokens,   \* node -> "ok", "low" or "out"
  banned,   \* devices banned at Self
  surplus, policy, off,   \* the rest of the gossiped inputs
  slots,    \* the slots of the dispatch under way still to be placed
  cands,    \* candidates left for the first of them
  placed,   \* the outcomes so far: [slot, node], node 0 for none
  shown,    \* node -> the assignment it displayed when the dispatch began
  smooth,   \* nobody has declined or failed since
  changes

inputs == <<live, tokens, banned, surplus, policy, off>>
walk == <<slots, cands, placed, shown, smooth>>
vars == <<inputs, walk, changes>>

----------------------------------------------------------------------------
(* The ranking *)

Without(list, S) == SelectSeq(list, LAMBDA n : n \notin S)
Members(list) == {list[i] : i \in DOMAIN list}

\* _eligible
Eligible(list) ==
  SelectSeq(list, LAMBDA n : n \notin off /\ ~(policy.tokenAware /\ tokens[n] = "out"))

TokenRank(n) == CASE tokens[n] = "ok" -> 0 [] tokens[n] = "low" -> 1 [] OTHER -> 2

\* NodeInfo.surplus, clamped by surplus_bucket
SurplusOf(n) == IF surplus[n] = NoStats THEN Neutral
                ELSE IF surplus[n] < 0 THEN 0 ELSE IF surplus[n] > RankCap THEN RankCap ELSE surplus[n]

\* The key of _ranked
SortKey(n, strategy, local) ==
  CASE strategy = "strongest-first" -> <<TokenRank(n), Tier[n], n>>
    [] strategy = "local-first"     -> <<TokenRank(n), IF n = local THEN 0 ELSE 1, -Tier[n], n>>
    [] strategy = "surplus-first"   -> <<-SurplusOf(n), TokenRank(n), -Tier[n], n>>
    [] OTHER                        -> <<TokenRank(n), -Tier[n], n>>

Less(s, t) == \E i \in DOMAIN s : s[i] < t[i] /\ \A k \in 1..(i - 1) : s[k] = t[k]

\* Variant: the list is rotated by its length, to spread the load.
RankedInTurn(list, strategy, local) ==
  LET K(i) == SortKey(list[i], strategy, local)
      Place(i) == Cardinality({k \in DOMAIN list : Less(K(k), K(i))}) + 1
      Turn(r) == ((r + Len(list) \div 2 - 1) % Len(list)) + 1
  IN [r \in DOMAIN list |-> list[CHOOSE i \in DOMAIN list : Place(i) = Turn(r)]]

\* _ranked: a stable sort.
Ranked(list, strategy, local) ==
  LET K(i) == SortKey(list[i], strategy, local)
      Before(i, k) == Less(K(i), K(k)) \/ (~Less(K(k), K(i)) /\ i < k)
      Place(i) == Cardinality({k \in DOMAIN list : Before(k, i)}) + 1
  IN [r \in DOMAIN list |-> list[CHOOSE i \in DOMAIN list : Place(i) = r]]

Front(list, k) == SubSeq(list, 1, IF k < Len(list) THEN k ELSE Len(list))
OfPlatform(list, p) == SelectSeq(list, LAMBDA n : Platform[n] = p)

\* The loop of assign_duty over the spread: a node fills one place at most.
Picked(pool, spread) ==
  LET f[i \in 0..Len(spread)] ==
        IF i = 0 THEN <<>>
        ELSE f[i - 1] \o Front(OfPlatform(Without(pool, Members(f[i - 1])), spread[i].platform),
                               spread[i].count)
  IN f[Len(spread)]

\* assign_duty
Assigned(list, local) ==
  LET pool == Ranked(Eligible(list), policy.strategy, local) IN
  IF policy.spread = <<>> THEN Front(pool, 1) ELSE Picked(pool, policy.spread)

\* Variant: a spread entry is one slot, whatever its count.
SlotsUncounted(list) ==
  LET pool == Ranked(Eligible(list), DispatchStrategy, Self) IN
  IF policy.spread = <<>> THEN << [platform |-> "any", ids |-> pool] >>
  ELSE [i \in DOMAIN policy.spread |->
          [platform |-> policy.spread[i].platform, ids |-> OfPlatform(pool, policy.spread[i].platform)]]

\* slot_candidates: count slots for each entry of the spread, but no more than
\* there are nodes of the platform, and one even if there is none.
SlotCandidates(list) ==
  LET pool == Ranked(Eligible(list), DispatchStrategy, Self)
      Number(s) == LET have == Len(OfPlatform(pool, s.platform)) most == IF have > 1 THEN have ELSE 1
                   IN IF s.count < most THEN s.count ELSE most
      f[i \in 0..Len(policy.spread)] ==
        IF i = 0 THEN <<>>
        ELSE f[i - 1] \o [k \in 1..Number(policy.spread[i]) |->
               [platform |-> policy.spread[i].platform, ids |-> OfPlatform(pool, policy.spread[i].platform)]]
  IN IF policy.spread = <<>> THEN << [platform |-> "any", ids |-> pool] >> ELSE f[Len(policy.spread)]

----------------------------------------------------------------------------
(* The dispatch *)

Idle == slots = <<>>

Init ==
  /\ \E S \in SUBSET (Node \ {Self}) :
       live \in {<<Self>> \o s : s \in {t \in [1..Cardinality(S) -> S] : Members(t) = S}}
  /\ tokens = [n \in Node |-> "ok"] /\ banned = {}
  /\ surplus \in Surpluses /\ policy \in Policies /\ off \in Disabled
  /\ slots = <<>> /\ cands = <<>> /\ placed = <<>> /\ shown = <<>> /\ smooth = TRUE /\ changes = 0

\* dispatch() up to its first await: banned devices are not asked.
Dispatch ==
  /\ Idle
  /\ slots' = SlotCandidates(Without(live, banned))
  /\ cands' = slots'[1].ids
  /\ shown' = [n \in Members(live) |-> Assigned(<<n>> \o Without(live, {n}), n)]
  /\ placed' = <<>> /\ smooth' = (banned = {})
  /\ UNCHANGED <<inputs, changes>>

Used == {placed[i].node : i \in DOMAIN placed} \ {0}

NextSlot(outcome) ==
  /\ placed' = Append(placed, outcome)
  /\ slots' = Tail(slots) /\ cands' = IF Len(slots) > 1 THEN slots[2].ids ELSE <<>>
  /\ UNCHANGED <<inputs, shown, changes>>

Taken(n) == n \in Used

\* The candidate takes the job.
Accept ==
  /\ cands # <<>> /\ ~Taken(Head(cands)) /\ Head(cands) \in Members(live)
  /\ NextSlot([slot |-> Head(slots).platform, node |-> Head(cands)])
  /\ smooth' = smooth

\* It declines, fails or cannot be reached; or it has a slot already.
PassOver ==
  /\ cands # <<>>
  /\ cands' = Tail(cands) /\ smooth' = (smooth /\ Taken(Head(cands)))
  /\ UNCHANGED <<inputs, slots, placed, shown, changes>>

\* No candidate is left for the slot.
GiveUpSlot ==
  /\ ~Idle /\ cands = <<>>
  /\ NextSlot([slot |-> Head(slots).platform, node |-> 0])
  /\ smooth' = smooth

----------------------------------------------------------------------------
(* The mesh, meanwhile *)

Change == changes < MaxChanges /\ changes' = changes + 1 /\ UNCHANGED <<surplus, policy, off, walk>>

Die(n) ==
  /\ n # Self /\ n \in Members(live) /\ live' = Without(live, {n})
  /\ Change /\ UNCHANGED <<tokens, banned>>

Return(n) ==
  /\ n \notin Members(live) /\ live' = Append(live, n)
  /\ Change /\ UNCHANGED <<tokens, banned>>

SetTokens(n, t) ==
  /\ tokens[n] # t /\ tokens' = [tokens EXCEPT ![n] = t]
  /\ Change /\ UNCHANGED <<live, banned>>

Ban(n) ==
  /\ n # Self /\ banned' = banned \cup {n} /\ n \notin banned
  /\ Change /\ UNCHANGED <<live, tokens>>

Next ==
  \/ Dispatch \/ Accept \/ PassOver \/ GiveUpSlot
  \/ \E n \in Node : Die(n) \/ Return(n) \/ Ban(n) \/ \E t \in {"ok", "low", "out"} : SetTokens(n, t)

Spec == Init /\ [][Next]_vars

----------------------------------------------------------------------------
(* Properties *)

\* Every variable stays in its type, and no list names a node twice.
Distinct(list) == \A i, k \in DOMAIN list : list[i] = list[k] => i = k
TypeOK ==
  /\ Members(live) \cup Members(cands) \cup DOMAIN shown \subseteq Node
  /\ Distinct(live) /\ Distinct(cands) /\ \A n \in DOMAIN shown : Distinct(shown[n])
  /\ tokens \in [Node -> {"ok", "low", "out"}] /\ banned \subseteq Node
  /\ \A i \in DOMAIN placed : placed[i].node \in Node \cup {0}

\* A duty moves only because of a node that had it: when another one dies,
\* nothing moves, and when one of its owners dies the others keep their part.
OnlyTheLostMoves ==
  [][\A n \in Members(live) : live' = Without(live, {n}) =>
       LET before == Assigned(live, Self) after == Assigned(live', Self) IN
       /\ Members(before) \ {n} \subseteq Members(after)
       /\ n \notin Members(before) => after = before]_vars

\* assign_all: "what the panel shows is by construction what dispatch will do",
\* on the panel of every node ("every node runs this same pure function over
\* the same gossiped inputs and lands on the same answer"), when the strategies
\* agree, nobody is banned and everybody accepts.
DispatchedAsShown ==
  (Idle /\ placed # <<>> /\ smooth /\ policy.strategy = DispatchStrategy) =>
    \A n \in DOMAIN shown : Used = Members(shown[n])
=============================================================================
