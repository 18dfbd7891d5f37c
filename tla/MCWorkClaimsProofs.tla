------------------------- MODULE MCWorkClaimsProofs -------------------------
(***************************************************************************)
(* HolderBacked of the parts `pair' and `trio' of MCWorkClaims, for any    *)
(* two nodes, keys, trust and bounds: both parts lose a link by a restart  *)
(* only, and Pair makes it again between two nodes only.  The invariant    *)
(* and its steps are those of WorkClaimsProofs, of which Pair and Trio are *)
(* instances; what is shown here is that they meet its assumptions.        *)
(***************************************************************************)
EXTENDS MCWorkClaims, TLAPS

\* What WorkClaims assumes of its constants, in the two instances.
PairAssumed ==
  /\ {"settle", "target", "overrun", "restart", "connect", "killed"} \subseteq Pair!Kinds
  /\ {Cap, MaxEpoch, 0, MaxSpawns, MaxSeq} \subseteq Nat
  /\ NoClaim \notin Pair!Claim /\ NoRoute \notin Pair!Route

TrioAssumed ==
  /\ Node \cup {3} \subseteq Nat
  /\ {"gossip", "settle", "restart"} \subseteq Trio!Kinds
  /\ {Cap, MaxEpoch, MaxJobs, 0, 1} \subseteq Nat
  /\ NoClaim \notin Trio!Claim /\ NoRoute \notin Trio!Route

LEMMA PairAssumptions == PairAssumed
BY ConstantsAssumption, NoClaimAssumption, NoRouteAssumption
   DEF PairAssumed, Pair!Kinds, Claim, Pair!Claim, Route, Pair!Route

LEMMA TrioAssumptions == TrioAssumed
BY ConstantsAssumption, TrioAssumption DEF TrioAssumed, Trio!Kinds

\* Their links are lost by restarts only, and not made again among three nodes.
LEMMA PairLinks == Pair!LinksLast
BY PairAssumption DEF Pair!LinksLast

LEMMA TrioLinks == Trio!LinksLast
BY DEF Trio!LinksLast

----------------------------------------------------------------------------
LEMMA PairInit == ASSUME Init PROVE Pair!HInv
<1>1. Pair!Init
  BY DEF Init, Pair!Init, Stranger, Pair!Stranger
<1> QED BY <1>1, PairAssumptions, ConstantsAssumption, Pair!HolderInit DEF PairAssumed

LEMMA PairStep == ASSUME Pair!HInv, [Pair!Next]_vars PROVE Pair!HInv'
<1>1. [Pair!Next]_(Pair!vars)
  BY DEF vars, Pair!vars
<1> QED BY <1>1, PairLinks, PairAssumptions, ConstantsAssumption, Pair!HolderStep DEF PairAssumed

LEMMA PairHolds == ASSUME Pair!HInv PROVE Pair!HolderIsBacked
BY PairAssumptions, ConstantsAssumption, Pair!HolderHolds DEF PairAssumed

LEMMA TrioInit == ASSUME Trio!Init PROVE Trio!HInv
BY TrioAssumptions, ConstantsAssumption, Trio!HolderInit DEF TrioAssumed, All

LEMMA TrioStep == ASSUME Trio!HInv, [Trio!Next]_vars PROVE Trio!HInv'
<1>1. [Trio!Next]_(Trio!vars)
  BY DEF vars, Trio!vars
<1> QED BY <1>1, TrioLinks, TrioAssumptions, ConstantsAssumption, Trio!HolderStep
        DEF TrioAssumed, All

LEMMA TrioHolds == ASSUME Trio!HInv PROVE Trio!HolderIsBacked
BY TrioAssumptions, ConstantsAssumption, Trio!HolderHolds DEF TrioAssumed, All

----------------------------------------------------------------------------
\* Whatever part a behaviour is of, it keeps to the steps of that part.
HeldInv == /\ part = "pair" => Pair!HInv
           /\ part = "trio" => Trio!HInv

LEMMA HeldStep == HeldInv /\ [MCNext]_mcVars => HeldInv'
<1> SUFFICES ASSUME HeldInv, [MCNext]_mcVars PROVE HeldInv'
  OBVIOUS
<1>1. part' = part
  BY DEF MCNext, mcVars
<1>2. ASSUME part = "pair" PROVE Pair!HInv'
  <2>1. [Pair!Next]_vars
    BY <1>2 DEF MCNext, mcVars
  <2> QED BY <1>2, <2>1, PairStep DEF HeldInv
<1>3. ASSUME part = "trio" PROVE Trio!HInv'
  <2>1. [Trio!Next]_vars
    BY <1>3 DEF MCNext, mcVars
  <2> QED BY <1>3, <2>1, TrioStep DEF HeldInv
<1> QED BY <1>1, <1>2, <1>3 DEF HeldInv

\* In the parts `pair' and `trio', whoever suppresses work because of a node it
\* is linked to is right or will be told (WorkClaims' HolderIsBacked).
THEOREM HolderBackedInParts == MCSpec => []HolderBacked
<1>1. MCInit => HeldInv
  BY PairInit, TrioInit DEF MCInit, HeldInv
<1>2. HeldInv => HolderBacked
  BY PairHolds, TrioHolds DEF HeldInv, HolderBacked
<1> QED BY <1>1, <1>2, HeldStep, PTL DEF MCSpec
=============================================================================
