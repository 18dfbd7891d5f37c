----------------------- MODULE DeviceAllocatorProofs -----------------------
(***************************************************************************)
(* Proofs about DeviceAllocator, for every set of devices, agents, calls   *)
(* and record names, every quota, and whatever traffic the clients send.   *)
(*                                                                         *)
(* None of the properties is inductive alone: a lease goes back into the   *)
(* table from a call's `old' reference or from leases.json, so the         *)
(* invariant IInv also says what those references and that file hold, and  *)
(* what the holder of the lock has checked.  At the end, about the daemons *)
(* and the installers of AllocatorProcesses, for any number of them.       *)
(***************************************************************************)
EXTENDS DeviceAllocator, AllocatorProcesses, Integers, FiniteSetTheorems, TLAPS

\* The table names records about its own keys; every record is about the
\* device it was made for; a Vega record always has its address.
Records ==
  /\ \A d \in Device : Leased(d) => table[d][1] = d /\ lease[table[d]] # NoLease
  /\ \A r \in Id : lease[r] # NoLease =>
       lease[r].dev = r[1] /\ (r[1] \in Vega => lease[r].handle)
  /\ \A d \in Device : saved[d] # NoLease =>
       saved[d].dev = d /\ (d \in Vega => saved[d].handle)

\* What a handler refers to across an await has not been collected.
RefsLive ==
  \A c \in Call : /\ call[c].rec # NoId => lease[call[c].rec] # NoLease
                  /\ call[c].old # NoId => lease[call[c].old] # NoLease

\* What a continuation knows by where it is.
CallShape ==
  \A c \in Call :
    /\ call[c].pc # "idle" => call[c].owner \in Agent
    /\ call[c].pc \in {"booting", "waiting", "failed"} => call[c].rec # NoId
    /\ call[c].pc \in {"freeing", "restoring"} \/ call[c].op = "change"
         => call[c].old # NoId

\* Between the gate and the reservation a call holds the lock, and the Vega
\* device it claims stays free.
LockHeld ==
  \A c \in Call :
    call[c].pc \in {"listing", "choosing"} =>
      lock = c /\ (call[c].target \in Vega => ~Leased(call[c].target))

IInv == TypeOK /\ Records /\ RefsLive /\ CallShape /\ LockHeld /\ SavedCoversTable

----------------------------------------------------------------------------
LEMMA InitInv == Init => IInv
  BY ConstantsAssumption, NoLeaseAssumption
  DEF Init, IInv, TypeOK, Records, RefsLive, CallShape, LockHeld, SavedCoversTable,
      Leased, Idle, CallRecord, Pc

\* A record that is kept is what the step wrote; the others are gone.
LEMMA ShrinkInv ==
  ASSUME IInv,
         table' \in [Device -> Id \cup {NoId}],
         \A d \in Device : table'[d] \in {table[d], NoId},
         call' \in [Call -> CallRecord],
         \A c \in Call : /\ call'[c].rec \in {call[c].rec, NoId}
                         /\ call'[c].old \in {call[c].old, NoId},
         Keep(lease) \/ lease' = lease,
         Publish \/ saved' = saved
  PROVE  /\ lease' \in [Id -> Lease \cup {NoLease}]
         /\ saved' \in [Device -> Lease \cup {NoLease}]
         /\ Records'
         /\ RefsLive'
         /\ SavedCoversTable'
PROOF
<1> USE ConstantsAssumption, NoLeaseAssumption
<1>0. \A r \in Id : /\ lease'[r] \in {lease[r], NoLease}
                    /\ r \in Refs' => lease'[r] = lease[r]
  BY DEF Keep
<1>1. lease' \in [Id -> Lease \cup {NoLease}]
  BY DEF IInv, TypeOK, Keep
<1>2. \A d \in Device : table'[d] # NoId => lease'[table'[d]] = lease[table[d]] /\ table[d] \in Id
                                           /\ table'[d] = table[d]
  BY <1>0 DEF IInv, TypeOK, Refs
<1>3. \A d \in Device : table'[d] # NoId => lease[table[d]] \in Lease /\ lease[table[d]].dev = d
                              /\ (d \in Vega => lease[table[d]].handle)
  <2> SUFFICES ASSUME NEW d \in Device, table'[d] # NoId
               PROVE  lease[table[d]] \in Lease /\ lease[table[d]].dev = d
                      /\ (d \in Vega => lease[table[d]].handle)
    OBVIOUS
  <2>1. table[d] \in Id /\ table[d] # NoId
    BY <1>2
  <2>2. lease[table[d]] \in Lease /\ lease[table[d]] # NoLease /\ table[d][1] = d
    BY <2>1 DEF IInv, TypeOK, Records, Leased
  <2> QED
    BY <2>1, <2>2 DEF IInv, Records
<1>4. \A d \in Device : Publish => saved'[d] = IF table'[d] = NoId THEN NoLease
                                             ELSE Rehydrated(lease[table[d]])
  BY <1>2 DEF Publish
<1>5. \A l \in Lease : /\ Rehydrated(l) \in Lease /\ Rehydrated(l).dev = l.dev
                       /\ Rehydrated(l).owner = l.owner /\ Rehydrated(l).handle = l.handle
  BY DEF Rehydrated, Lease, Status
<1>6. saved' \in [Device -> Lease \cup {NoLease}]
  <2>1. CASE Publish
    <3>1. saved' = [d \in Device |-> saved'[d]]
      BY <2>1 DEF Publish
    <3> QED BY <3>1, <2>1, <1>3, <1>4, <1>5
  <2>2. CASE saved' = saved
    BY <2>2 DEF IInv, TypeOK
  <2> QED BY <2>1, <2>2
<1>7. Records'
  <2>1. \A d \in Device : table'[d] # NoId => table'[d][1] = d /\ lease'[table'[d]] # NoLease
    BY <1>2, <1>3 DEF IInv, Records, Leased
  <2>2. \A r \in Id : lease'[r] # NoLease => lease'[r].dev = r[1] /\ (r[1] \in Vega => lease'[r].handle)
    BY <1>0 DEF IInv, Records
  <2>3. \A d \in Device : saved'[d] # NoLease => saved'[d].dev = d /\ (d \in Vega => saved'[d].handle)
    BY <1>3, <1>4, <1>5 DEF IInv, Records
  <2> QED BY <2>1, <2>2, <2>3 DEF Records, Leased
<1>8. RefsLive'
  BY <1>0 DEF IInv, RefsLive, Refs, TypeOK, CallRecord
<1>9. SavedCoversTable'
  BY <1>2, <1>3, <1>4, <1>5 DEF IInv, SavedCoversTable, Leased, At
<1> QED BY <1>1, <1>6, <1>7, <1>8, <1>9
\* Shutdowns are issued for devices of the machine.
LEMMA ShutdownTyped ==
  ASSUME IInv, NEW Devs, Devs \subseteq Device, \A d \in Devs : Leased(d)
  PROVE  ShutdownBooted(Devs) \subseteq Device
PROOF
<1> SUFFICES ASSUME NEW d \in Devs PROVE ShutdownOf(At(d)) \subseteq Device
  BY DEF ShutdownBooted
<1>1. table[d] \in Id /\ lease[table[d]] \in Lease
  BY ConstantsAssumption DEF IInv, TypeOK, Records, Leased
<1> QED BY <1>1 DEF ShutdownOf, At, Lease

\* Steps that leave the leases, the references to them and the lock alone.
LEMMA QuietInv ==
  ASSUME IInv, TypeOK', CallShape',
         UNCHANGED <<table, lease, saved>>,
         \A c \in Call : /\ call'[c].rec \in {call[c].rec, NoId}
                         /\ call'[c].old \in {call[c].old, NoId},
         LockHeld'
  PROVE  IInv'
PROOF
<1>1. Records' /\ SavedCoversTable'
  BY DEF IInv, Records, SavedCoversTable, Leased, At
<1>2. RefsLive'
  BY DEF IInv, RefsLive
<1> QED BY <1>1, <1>2 DEF IInv

\* A call that moves on: only its program counter changes.
LEMMA MovePc ==
  ASSUME call \in [Call -> CallRecord], NEW c \in Call, NEW p \in Pc,
         NEW f, f = [call EXCEPT ![c].pc = p]
  PROVE  /\ f \in [Call -> CallRecord]
         /\ \A b \in Call \ {c} : f[b] = call[b]
         /\ f[c].pc = p
         /\ f[c].rec = call[c].rec /\ f[c].old = call[c].old
         /\ f[c].owner = call[c].owner /\ f[c].op = call[c].op
         /\ f[c].target = call[c].target /\ f[c].seen = call[c].seen
PROOF
<1> DEFINE g == [call[c] EXCEPT !.pc = p]
<1>1. call[c] \in CallRecord
  OBVIOUS
<1>2. g = [pc |-> p, op |-> call[c].op, owner |-> call[c].owner,
           want |-> call[c].want, target |-> call[c].target,
           rec |-> call[c].rec, old |-> call[c].old, seen |-> call[c].seen]
  BY <1>1 DEF CallRecord
<1>3. g \in CallRecord
  BY <1>1, <1>2 DEF CallRecord
<1>4. f = [b \in Call |-> IF b = c THEN g ELSE call[b]]
  OBVIOUS
<1> HIDE DEF g
<1> QED BY <1>2, <1>3, <1>4

LEMMA RequestArrivesInv ==
  ASSUME IInv, NEW c \in Call, NEW a \in Agent, NEW want \in Requirements,
         RequestArrives(c, a, want)
  PROVE  IInv'
PROOF
<1> USE ConstantsAssumption
<1>1. TypeOK'
  BY DEF IInv, TypeOK, RequestArrives, Arrive, Idle, CallRecord, Pc, loops, world
<1>2. CallShape'
  BY DEF IInv, TypeOK, CallShape, RequestArrives, Arrive, Idle, CallRecord
<1>3. LockHeld'
  BY DEF IInv, TypeOK, LockHeld, RequestArrives, Arrive, Idle, CallRecord, Leased
<1> QED BY <1>1, <1>2, <1>3, QuietInv
        DEF IInv, TypeOK, RequestArrives, Arrive, Idle, CallRecord

LEMMA ClaimArrivesInv ==
  ASSUME IInv, NEW c \in Call, NEW a \in Agent, NEW d \in Device, ClaimArrives(c, a, d)
  PROVE  IInv'
PROOF
<1> USE ConstantsAssumption
<1>1. TypeOK'
  BY DEF IInv, TypeOK, ClaimArrives, Arrive, Idle, CallRecord, Pc, loops, world
<1>2. CallShape'
  BY DEF IInv, TypeOK, CallShape, ClaimArrives, Arrive, Idle, CallRecord
<1>3. LockHeld'
  BY DEF IInv, TypeOK, LockHeld, ClaimArrives, Arrive, Idle, CallRecord, Leased
<1> QED BY <1>1, <1>2, <1>3, QuietInv
        DEF IInv, TypeOK, ClaimArrives, Arrive, Idle, CallRecord

LEMMA ChangeArrivesInv ==
  ASSUME IInv, NEW c \in Call, NEW a \in Agent, NEW want \in Requirements,
         NEW id \in Named(a), ChangeArrives(c, a, id, want)
  PROVE  IInv'
PROOF
<1> USE ConstantsAssumption
<1>1. PICK d \in FindOwned(a, id) :
        /\ call[c] = Idle
        /\ call' = [call EXCEPT ![c] =
             [Idle EXCEPT !.pc = "freeing", !.op = "change", !.owner = a,
                          !.want = want, !.old = table[d],
                          !.target = IF At(d).handle THEN d ELSE NoDevice]]
        /\ told' = [told EXCEPT ![a] = @ \ {d}]
  BY DEF ChangeArrives, Arrive
<1>2. /\ d \in Device /\ table[d] \in Id /\ table[d] # NoId
      /\ lease[table[d]] # NoLease
  BY DEF FindOwned, Leased, IInv, TypeOK, Records
<1>3. TypeOK'
  BY <1>1, <1>2 DEF IInv, TypeOK, ChangeArrives, Idle, CallRecord, Pc, loops, world
<1>4. CallShape'
  BY <1>1, <1>2 DEF IInv, TypeOK, CallShape, Idle, CallRecord
<1>5. LockHeld'
  BY <1>1, <1>2 DEF IInv, TypeOK, LockHeld, ChangeArrives, Idle, CallRecord, Leased
<1>6. RefsLive'
  BY <1>1, <1>2 DEF IInv, TypeOK, RefsLive, ChangeArrives, Idle, CallRecord
<1>7. Records' /\ SavedCoversTable'
  BY DEF IInv, Records, SavedCoversTable, Leased, At, ChangeArrives
<1> QED BY <1>3, <1>4, <1>5, <1>6, <1>7 DEF IInv

LEMMA EnumerateInv ==
  ASSUME IInv, NEW c \in Call, Enumerate(c) PROVE IInv'
PROOF
<1>1. TypeOK'
  <2>1. {d \in Device \ Vega : power[d] # "off"} \in SUBSET Device
    OBVIOUS
  <2>2. call' \in [Call -> CallRecord]
    <3>1. call[c] \in CallRecord
      BY DEF IInv, TypeOK
    <3> DEFINE g == [call[c] EXCEPT !.pc = "choosing", !.seen = {d \in Device \ Vega : power[d] # "off"}]
    <3>2. g \in CallRecord
      BY <2>1, <3>1 DEF CallRecord, Pc
    <3>3. call' = [b \in Call |-> IF b = c THEN g ELSE call[b]]
      BY DEF IInv, TypeOK, Enumerate
    <3> HIDE DEF g
    <3> QED BY <3>2, <3>3 DEF IInv, TypeOK
  <2> QED BY <2>2 DEF IInv, TypeOK, Enumerate, loops, world
<1>2. CallShape'
  BY DEF IInv, TypeOK, CallShape, Enumerate, CallRecord
<1>3. LockHeld'
  BY DEF IInv, TypeOK, LockHeld, Enumerate, CallRecord, Leased
<1> QED BY <1>1, <1>2, <1>3, QuietInv DEF IInv, TypeOK, Enumerate, CallRecord

LEMMA BootInv ==
  ASSUME IInv, NEW c \in Call, Boot(c) PROVE IInv'
PROOF
<1>1. TypeOK'
  <2>1. call' \in [Call -> CallRecord]
    BY ZenonT(40), MovePc DEF IInv, TypeOK, Boot, Pc
  <2>2. power' \in [Device -> {"off", "on", "user"}]
    BY DEF IInv, TypeOK, Boot
  <2> QED BY <2>1, <2>2 DEF IInv, TypeOK, Boot, loops
<1>2. CallShape'
  BY DEF IInv, TypeOK, CallShape, Boot, CallRecord
<1>3. LockHeld'
  BY DEF IInv, TypeOK, LockHeld, Boot, CallRecord, Leased
<1> QED BY <1>1, <1>2, <1>3, QuietInv DEF IInv, TypeOK, Boot, CallRecord

LEMMA SweepBeginInv == IInv /\ SweepBegin => IInv'
PROOF
<1> SUFFICES ASSUME IInv, SweepBegin PROVE IInv'
  OBVIOUS
<1>1. TypeOK'
  BY DEF IInv, TypeOK, SweepBegin, world, Leased
<1>2. CallShape' /\ LockHeld'
  BY DEF IInv, CallShape, LockHeld, SweepBegin, Leased
<1> QED BY <1>1, <1>2, QuietInv DEF IInv, SweepBegin

LEMMA StopLandsInv ==
  ASSUME IInv, NEW d \in Device, StopLands(d) PROVE IInv'
PROOF
<1>1. TypeOK'
  BY DEF IInv, TypeOK, StopLands, loops
<1>2. CallShape' /\ LockHeld'
  BY DEF IInv, CallShape, LockHeld, StopLands, Leased
<1> QED BY <1>1, <1>2, QuietInv DEF IInv, StopLands

LEMMA WipeBootsInv ==
  ASSUME IInv, NEW r \in Id, WipeBoots(r) PROVE IInv'
PROOF
<1>1. r[1] \in Device
  BY DEF Id
<1>2. TypeOK'
  BY <1>1 DEF IInv, TypeOK, WipeBoots, loops
<1>3. CallShape' /\ LockHeld'
  BY DEF IInv, CallShape, LockHeld, WipeBoots, Leased
<1> QED BY <1>2, <1>3, QuietInv DEF IInv, WipeBoots

LEMMA AgentDiesInv ==
  ASSUME IInv, NEW a \in Agent, AgentDies(a) PROVE IInv'
PROOF
<1>1. TypeOK'
  BY DEF IInv, TypeOK, AgentDies, loops
<1>2. CallShape' /\ LockHeld'
  BY DEF IInv, CallShape, LockHeld, AgentDies, Leased
<1> QED BY <1>1, <1>2, QuietInv DEF IInv, AgentDies

LEMMA StutterInv == IInv /\ UNCHANGED vars => IInv'
PROOF
<1> SUFFICES ASSUME IInv, UNCHANGED vars PROVE IInv'
  OBVIOUS
<1>1. TypeOK' /\ CallShape' /\ LockHeld'
  BY DEF IInv, TypeOK, CallShape, LockHeld, Leased, vars, loops, world
<1> QED BY <1>1, QuietInv DEF IInv, vars

----------------------------------------------------------------------------
(* Steps that take devices out of the table *)

\* A table that only shrinks keeps its type.
LEMMA WithoutTyped ==
  ASSUME IInv, NEW Devs
  PROVE  /\ Without(Devs) \in [Device -> Id \cup {NoId}]
         /\ \A d \in Device : Without(Devs)[d] \in {table[d], NoId}
  BY DEF IInv, TypeOK, Without

LEMMA ReapStopsTyped ==
  ASSUME IInv, NEW gone \in SUBSET Reapable
  PROVE  ReapStops(gone) \subseteq Device
PROOF
<1>1. \A d \in {e \in gone : At(e).status # "repairing"} : d \in Device /\ Leased(d)
  BY DEF Reapable
<1> QED BY <1>1, ShutdownTyped DEF ReapStops

LEMMA RefusedTyped ==
  ASSUME IInv, NEW c \in Call, call[c].pc # "idle"
  PROVE  /\ Refused(c) \in CallRecord
         /\ Refused(c).pc \in {"idle", "restoring"}
         /\ Refused(c).pc = "restoring" => Refused(c).owner \in Agent
         /\ Refused(c).pc = "restoring" \/ Refused(c).op = "change"
              => Refused(c).old # NoId
         /\ Refused(c).rec = NoId /\ Refused(c).old \in {call[c].old, NoId}
PROOF
<1>1. call[c] \in CallRecord
  BY DEF IInv, TypeOK
<1>2. CASE call[c].op = "change"
  <2>1. Refused(c) = [call[c] EXCEPT !.pc = "restoring", !.rec = NoId, !.seen = {}]
    BY <1>2 DEF Refused
  <2>2. call[c].owner \in Agent /\ call[c].old # NoId
    BY <1>2 DEF IInv, CallShape
  <2> QED BY <1>1, <1>2, <2>1, <2>2 DEF CallRecord, Pc
<1>3. CASE call[c].op # "change"
  BY <1>1, <1>3 DEF Refused, Idle, CallRecord, Pc
<1> QED BY <1>2, <1>3

LEMMA GateInv ==
  ASSUME IInv, NEW c \in Call, Gate(c) PROVE IInv'
PROOF
<1> USE ConstantsAssumption
<1>1. PICK gone \in SUBSET Reapable :
        LET d == call[c].target
            taken == d # NoDevice /\ Leased(d) /\ d \notin gone /\ At(d).handle
        IN /\ table' = Without(gone)
           /\ stops' = stops \cup ReapStops(gone)
           /\ IF Full(gone) \/ taken
                THEN lock' = lock /\ call' = [call EXCEPT ![c] = Refused(c)]
                ELSE lock' = c /\ call' = [call EXCEPT ![c].pc = "listing"]
           /\ UNCHANGED <<loops, told, alive, power>>
           /\ Keep(lease)
           /\ IF gone = {} THEN UNCHANGED saved ELSE Publish
  BY DEF Gate
<1>2. call[c].pc = "queued" /\ lock = NoCall
  BY DEF Gate
<1>3. call' \in [Call -> CallRecord]
  <2>1. CASE call' = [call EXCEPT ![c] = Refused(c)]
    BY <1>2, <2>1, RefusedTyped DEF IInv, TypeOK
  <2>2. CASE call' = [call EXCEPT ![c].pc = "listing"]
    BY <2>2, MovePc DEF IInv, TypeOK, Pc
  <2> QED BY <1>1, <2>1, <2>2
<1>4. \A b \in Call : /\ call'[b].rec \in {call[b].rec, NoId}
                      /\ call'[b].old \in {call[b].old, NoId}
  <2>1. CASE call' = [call EXCEPT ![c] = Refused(c)]
    BY <1>2, <2>1, RefusedTyped DEF IInv, TypeOK
  <2>2. CASE call' = [call EXCEPT ![c].pc = "listing"]
    BY <2>2, MovePc DEF IInv, TypeOK, Pc
  <2> QED BY <1>1, <2>1, <2>2
<1>5. /\ lease' \in [Id -> Lease \cup {NoLease}]
      /\ saved' \in [Device -> Lease \cup {NoLease}]
      /\ Records' /\ RefsLive' /\ SavedCoversTable'
  BY <1>1, <1>3, <1>4, WithoutTyped, ShrinkInv
<1>6. TypeOK'
  BY <1>1, <1>3, <1>5, WithoutTyped, ReapStopsTyped DEF IInv, TypeOK, loops
<1>7. CallShape'
  BY SMTT(20), <1>1, <1>2, RefusedTyped DEF IInv, TypeOK, CallShape, CallRecord
<1>8. LockHeld'
  <2>1. \A b \in Call : call[b].pc \notin {"listing", "choosing"}
    BY <1>2 DEF IInv, LockHeld
  <2>2. CASE call' = [call EXCEPT ![c] = Refused(c)]
    BY <1>2, <2>1, <2>2, RefusedTyped DEF IInv, TypeOK, LockHeld
  <2>3. CASE call' # [call EXCEPT ![c] = Refused(c)]
    <3> DEFINE d == call[c].target
    <3>1. /\ lock' = c /\ call' = [call EXCEPT ![c].pc = "listing"]
          /\ ~(d # NoDevice /\ Leased(d) /\ d \notin gone /\ At(d).handle)
      BY <1>1, <2>3
    <3>2. d \in Vega => table'[d] = NoId
      <4> SUFFICES ASSUME d \in Vega, Leased(d), d \notin gone PROVE FALSE
        BY <1>1 DEF Without, Leased
      <4>1. table[d] \in Id /\ table[d][1] = d /\ lease[table[d]] # NoLease
        BY DEF IInv, TypeOK, Records, Leased
      <4>2. At(d).handle
        BY <4>1 DEF IInv, Records, At
      <4> QED BY <3>1, <4>2
    <3>3. \A b \in Call : call'[b].pc \in {"listing", "choosing"} => b = c
      BY <2>1, <3>1 DEF IInv, TypeOK
    <3>4. call'[c].target = d
      BY <3>1 DEF IInv, TypeOK, CallRecord
    <3> QED BY <3>1, <3>2, <3>3, <3>4 DEF LockHeld, Leased
  <2> QED BY <2>2, <2>3
<1> QED BY <1>5, <1>6, <1>7, <1>8 DEF IInv
LEMMA DropFailedInv ==
  ASSUME IInv, NEW c \in Call, DropFailed(c) PROVE IInv'
PROOF
<1> USE ConstantsAssumption
<1>1. /\ call[c].pc = "failed" /\ lock = NoCall
      /\ call' = [call EXCEPT ![c] = Refused(c)]
  BY DEF DropFailed
<1>2. /\ table' \in [Device -> Id \cup {NoId}]
      /\ \A d \in Device : table'[d] \in {table[d], NoId}
  BY DEF DropFailed, IInv, TypeOK
<1>3. /\ call' \in [Call -> CallRecord]
      /\ \A b \in Call : /\ call'[b].rec \in {call[b].rec, NoId}
                         /\ call'[b].old \in {call[b].old, NoId}
  BY <1>1, RefusedTyped DEF IInv, TypeOK
<1>4. Publish \/ saved' = saved
  BY DEF DropFailed
<1>5. /\ lease' \in [Id -> Lease \cup {NoLease}]
      /\ saved' \in [Device -> Lease \cup {NoLease}]
      /\ Records' /\ RefsLive' /\ SavedCoversTable'
  BY <1>2, <1>3, <1>4, ShrinkInv DEF DropFailed
<1>6. TypeOK'
  BY <1>2, <1>3, <1>5 DEF DropFailed, IInv, TypeOK, loops, world
<1>7. CallShape'
  BY <1>1, RefusedTyped DEF IInv, TypeOK, CallShape
<1>8. LockHeld'
  BY <1>1, RefusedTyped DEF IInv, TypeOK, LockHeld
<1> QED BY <1>5, <1>6, <1>7, <1>8 DEF IInv

LEMMA FreeOldInv ==
  ASSUME IInv, NEW c \in Call, FreeOld(c) PROVE IInv'
PROOF
<1> USE ConstantsAssumption
<1>1. /\ call[c].pc = "freeing" /\ lock = NoCall
      /\ call' = [call EXCEPT ![c].pc = "queued", ![c].target = NoDevice]
      /\ Publish
  BY DEF FreeOld
<1> DEFINE g == [call[c] EXCEPT !.pc = "queued", !.target = NoDevice]
<1>2. call[c] \in CallRecord
  BY DEF IInv, TypeOK
<1>3. /\ g \in CallRecord /\ g.pc = "queued" /\ g.rec = call[c].rec /\ g.old = call[c].old
      /\ g.owner = call[c].owner /\ g.op = call[c].op
  BY <1>2 DEF CallRecord, Pc
<1>4. call' = [b \in Call |-> IF b = c THEN g ELSE call[b]]
  BY <1>1 DEF IInv, TypeOK
<1> HIDE DEF g
<1>5. /\ call' \in [Call -> CallRecord]
      /\ \A b \in Call : /\ call'[b].rec \in {call[b].rec, NoId}
                         /\ call'[b].old \in {call[b].old, NoId}
  BY <1>3, <1>4 DEF IInv, TypeOK
<1>6. /\ lease' \in [Id -> Lease \cup {NoLease}]
      /\ saved' \in [Device -> Lease \cup {NoLease}]
      /\ Records' /\ RefsLive' /\ SavedCoversTable'
  BY <1>1, <1>5, WithoutTyped, ShrinkInv DEF FreeOld
<1>7. TypeOK'
  BY <1>5, <1>6, WithoutTyped DEF FreeOld, IInv, TypeOK, loops, world
<1>8. CallShape'
  BY <1>1, <1>3, <1>4 DEF IInv, TypeOK, CallShape
<1>9. LockHeld'
  BY <1>1, <1>3, <1>4 DEF IInv, TypeOK, LockHeld
<1> QED BY <1>6, <1>7, <1>8, <1>9 DEF IInv

\* The one-step handlers and the timers: the table shrinks, calls stay.
LEMMA ShrinkStep ==
  ASSUME IInv, NEW Devs, table' = Without(Devs), Keep(lease) \/ lease' = lease,
         Publish \/ saved' = saved,
         call' = call, lock' = lock,
         sweep' \subseteq Id, erasing' \subseteq Id,
         alive' \in [Agent -> BOOLEAN], told' \in [Agent -> SUBSET Device],
         power' = power, stops' \subseteq Device
  PROVE  IInv'
PROOF
<1>1. /\ lease' \in [Id -> Lease \cup {NoLease}]
      /\ saved' \in [Device -> Lease \cup {NoLease}]
      /\ Records' /\ RefsLive' /\ SavedCoversTable'
  <2>1. call' \in [Call -> CallRecord]
    BY DEF IInv, TypeOK
  <2> QED BY <2>1, WithoutTyped, ShrinkInv
<1>2. TypeOK'
  BY <1>1, WithoutTyped DEF IInv, TypeOK
<1>3. CallShape'
  BY DEF IInv, CallShape
<1>4. LockHeld'
  BY ConstantsAssumption DEF IInv, LockHeld, Leased, Without, TypeOK
<1> QED BY <1>1, <1>2, <1>3, <1>4 DEF IInv

LEMMA FindOwnedLeased ==
  ASSUME NEW a, NEW id
  PROVE  FindOwned(a, id) \subseteq Device /\ \A d \in FindOwned(a, id) : Leased(d)
  BY DEF FindOwned

LEMMA ReleasesInv ==
  ASSUME IInv, NEW a \in Agent, NEW id, Releases(a, FindOwned(a, id)),
         alive' \in [Agent -> BOOLEAN]
  PROVE  IInv'
PROOF
<1> DEFINE Devs == FindOwned(a, id)
<1>1. ShutdownBooted(Devs) \subseteq Device
  BY FindOwnedLeased, ShutdownTyped
<1> HIDE DEF Devs
<1>2. /\ sweep' \subseteq Id /\ erasing' \subseteq Id /\ stops' \subseteq Device
      /\ told' \in [Agent -> SUBSET Device]
  BY <1>1 DEF Releases, loops, IInv, TypeOK, Devs
<1> QED BY <1>2, ShrinkStep DEF Releases, Devs

LEMMA ReleaseInv ==
  ASSUME IInv, NEW a \in Agent, NEW id \in Named(a), Release(a, id) PROVE IInv'
  BY ReleasesInv DEF Release, IInv, TypeOK

LEMMA ExitInv ==
  ASSUME IInv, NEW a \in Agent, Exit(a) PROVE IInv'
PROOF
<1>1. alive' \in [Agent -> BOOLEAN]
  BY DEF Exit, IInv, TypeOK
<1> QED BY <1>1, ReleasesInv DEF Exit

LEMMA KillInv ==
  ASSUME IInv, NEW d \in Device, Kill(d) PROVE IInv'
PROOF
<1>1. stops' \subseteq Device
  <2>1. CASE Leased(d)
    <3>1. table[d] \in Id /\ lease[table[d]] \in Lease
      BY <2>1, ConstantsAssumption DEF IInv, TypeOK, Records, Leased
    <3>2. ShutdownOf(At(d)) \subseteq Device
      BY <3>1 DEF ShutdownOf, At, Lease
    <3> QED BY <2>1, <3>2 DEF Kill, IInv, TypeOK
  <2>2. CASE ~Leased(d)
    BY <2>2 DEF Kill, IInv, TypeOK
  <2> QED BY <2>1, <2>2
<1>2. told' \in [Agent -> SUBSET Device]
  BY DEF Kill, IInv, TypeOK
<1> QED BY <1>1, <1>2, ShrinkStep DEF Kill, loops, IInv, TypeOK

LEMMA RepairedInv ==
  ASSUME IInv, NEW d \in Device, Repaired(d) PROVE IInv'
  BY ShrinkStep DEF Repaired, loops, world, IInv, TypeOK

LEMMA ReapInv ==
  ASSUME IInv, NEW gone \in SUBSET Device, Reap(gone) PROVE IInv'
PROOF
<1>1. stops' \subseteq Device
  BY ReapStopsTyped DEF Reap, IInv, TypeOK
<1> QED BY <1>1, ShrinkStep DEF Reap, loops, IInv, TypeOK

LEMMA SweepJudgeInv ==
  ASSUME IInv, NEW r \in Id, SweepJudge(r) PROVE IInv'
PROOF
<1> USE ConstantsAssumption
<1>0. \A Devs : Devs \subseteq Device /\ (\A d \in Devs : Leased(d)) => ShutdownBooted(Devs) \subseteq Device
  BY ShutdownTyped
<1>1. CASE UNCHANGED <<table, stops, told>>
  <2>1. table' = Without({})
    BY <1>1 DEF Without, IInv, TypeOK
  <2> QED BY <1>1, <2>1, ShrinkStep DEF SweepJudge, IInv, TypeOK
<1>2. CASE /\ Idles(r)
           /\ LET d == lease[r].dev
              IN /\ table' = Without({d})
                 /\ stops' = stops \cup ShutdownBooted({d})
                 /\ told' = [a \in Agent |-> told[a] \ {d}]
  <2>1. PICK d \in Device : table[d] = r
    BY <1>2 DEF Idles, Held
  <2>2. Leased(d) /\ lease[r].dev = d
    BY <2>1 DEF Leased, IInv, Records
  <2>3. ShutdownBooted({d}) \subseteq Device
    BY <1>0, <2>2
  <2>4. stops' \subseteq Device /\ told' \in [Agent -> SUBSET Device]
    BY <1>2, <2>2, <2>3 DEF IInv, TypeOK
  <2> QED BY <1>2, <2>4, ShrinkStep DEF SweepJudge, IInv, TypeOK
<1> QED BY <1>1, <1>2 DEF SweepJudge

LEMMA PoolRefreshInv == IInv /\ PoolRefresh => IInv'
PROOF
<1> SUFFICES ASSUME IInv, PoolRefresh PROVE IInv'
  OBVIOUS
<1>1. table' = Without({})
  BY DEF PoolRefresh, Without, IInv, TypeOK
<1> QED BY <1>1, ShrinkStep DEF PoolRefresh, loops, world, IInv, TypeOK

----------------------------------------------------------------------------
(* Steps that write lease records or put one into the table *)

LEMMA RehydratedKeeps ==
  ASSUME NEW l \in Lease
  PROVE  /\ Rehydrated(l) \in Lease /\ Rehydrated(l).dev = l.dev
         /\ Rehydrated(l).owner = l.owner /\ Rehydrated(l).handle = l.handle
  BY DEF Rehydrated, Lease, Status

\* `l' is what the step wrote, before unreachable records are dropped.
LEMMA WriteInv ==
  ASSUME IInv, NEW l \in [Id -> Lease \cup {NoLease}],
         \A r \in Id : l[r] # NoLease =>
            l[r].dev = r[1] /\ (r[1] \in Vega => l[r].handle),
         table' \in [Device -> Id \cup {NoId}],
         \A d \in Device : table'[d] # NoId => table'[d][1] = d /\ l[table'[d]] # NoLease,
         call' \in [Call -> CallRecord],
         \A c \in Call : /\ call'[c].rec # NoId => l[call'[c].rec] # NoLease
                         /\ call'[c].old # NoId => l[call'[c].old] # NoLease,
         Keep(l) \/ lease' = l,
         \/ Publish
         \/ /\ saved' = saved
            /\ \A d \in Device : table'[d] # NoId =>
                 table'[d] = table[d] /\ l[table[d]].owner = lease[table[d]].owner
  PROVE  /\ lease' \in [Id -> Lease \cup {NoLease}]
         /\ saved' \in [Device -> Lease \cup {NoLease}]
         /\ Records' /\ RefsLive' /\ SavedCoversTable'
PROOF
<1> USE ConstantsAssumption, NoLeaseAssumption
<1>1. \A r \in Id : /\ lease'[r] \in {l[r], NoLease}
                    /\ r \in Refs' => lease'[r] = l[r]
  BY DEF Keep
<1>2. lease' \in [Id -> Lease \cup {NoLease}]
  BY DEF Keep
<1>3. \A d \in Device : table'[d] # NoId =>
        /\ lease'[table'[d]] = l[table'[d]] /\ table'[d] \in Id
        /\ l[table'[d]] \in Lease /\ l[table'[d]].dev = d
        /\ d \in Vega => l[table'[d]].handle
  BY <1>1 DEF Refs
<1>6. /\ saved' \in [Device -> Lease \cup {NoLease}]
      /\ SavedCoversTable'
      /\ \A d \in Device : saved'[d] # NoLease => saved'[d].dev = d /\ (d \in Vega => saved'[d].handle)
  <2>1. CASE Publish
    <3>1. \A d \in Device : saved'[d] = IF table'[d] = NoId THEN NoLease
                                                            ELSE Rehydrated(l[table'[d]])
      BY <1>3, <2>1 DEF Publish
    <3>2. saved' = [d \in Device |-> saved'[d]]
      BY <2>1 DEF Publish
    <3>3. saved' \in [Device -> Lease \cup {NoLease}]
      BY <1>3, <3>1, <3>2, RehydratedKeeps
    <3>4. SavedCoversTable'
      BY <1>3, <3>1, RehydratedKeeps DEF SavedCoversTable, Leased, At
    <3>5. \A d \in Device : saved'[d] # NoLease => saved'[d].dev = d /\ (d \in Vega => saved'[d].handle)
      BY <1>3, <3>1, RehydratedKeeps
    <3> QED BY <3>3, <3>4, <3>5
  <2>2. CASE /\ saved' = saved
             /\ \A d \in Device : table'[d] # NoId =>
                   table'[d] = table[d] /\ l[table[d]].owner = lease[table[d]].owner
    <3>1. SavedCoversTable'
      BY <1>3, <2>2 DEF IInv, SavedCoversTable, Leased, At
    <3>2. /\ saved' \in [Device -> Lease \cup {NoLease}]
          /\ \A d \in Device : saved'[d] # NoLease => saved'[d].dev = d /\ (d \in Vega => saved'[d].handle)
      BY <2>2 DEF IInv, TypeOK, Records
    <3> QED BY <3>1, <3>2
  <2> QED BY <2>1, <2>2
<1>7. \A r \in Id : lease'[r] # NoLease => lease'[r].dev = r[1] /\ (r[1] \in Vega => lease'[r].handle)
  BY <1>1
<1>8. \A d \in Device : table'[d] # NoId => table'[d][1] = d /\ lease'[table'[d]] # NoLease
  BY <1>3
<1>9. Records'
  BY <1>6, <1>7, <1>8 DEF Records, Leased
<1>10. RefsLive'
  <2>1. \A c \in Call : /\ call'[c].rec \in Id \cup {NoId} /\ call'[c].rec \in Refs'
                        /\ call'[c].old \in Id \cup {NoId} /\ call'[c].old \in Refs'
    BY DEF Refs, CallRecord
  <2> QED BY <1>1, <2>1 DEF RefsLive
<1> QED BY <1>2, <1>6, <1>9, <1>10

\* Writing fields of one record keeps the others, its device and its type.
LEMMA WriteField ==
  ASSUME IInv, NEW r \in Id, NEW m \in Lease \cup {NoLease}, m # NoLease,
         m.dev = r[1], r[1] \in Vega => m.handle,
         NEW l, l = [q \in Id |-> IF q = r THEN m ELSE lease[q]]
  PROVE  /\ l \in [Id -> Lease \cup {NoLease}]
         /\ \A q \in Id : l[q] # NoLease =>
              l[q].dev = q[1] /\ (q[1] \in Vega => l[q].handle)
         /\ \A q \in Id : lease[q] # NoLease => l[q] # NoLease
  BY DEF IInv, TypeOK, Records

LEMMA LiveRecord ==
  ASSUME IInv, NEW r \in Id, lease[r] # NoLease
  PROVE  /\ lease[r] \in Lease /\ lease[r].dev = r[1] /\ r[1] \in Device
         /\ r[1] \in Vega => lease[r].handle
  BY DEF IInv, TypeOK, Records, Id

LEMMA SetStatus ==
  ASSUME NEW x \in Lease, NEW s \in Status, NEW y, y = [x EXCEPT !.status = s]
  PROVE  /\ y \in Lease /\ y.dev = x.dev /\ y.owner = x.owner
         /\ y.handle = x.handle /\ y.status = s /\ y.bootedByUs = x.bootedByUs
  BY DEF Lease

LEMMA SetOwner ==
  ASSUME NEW x \in Lease, NEW o \in Agent \cup {NoAgent}, NEW y, y = [x EXCEPT !.owner = o]
  PROVE  /\ y \in Lease /\ y.dev = x.dev /\ y.owner = o
         /\ y.handle = x.handle /\ y.status = x.status
  BY DEF Lease

LEMMA BrokenArrivesInv ==
  ASSUME IInv, NEW c \in Call, NEW a \in Agent, NEW want \in Requirements,
         NEW id \in Named(a), BrokenArrives(c, a, id, want)
  PROVE  IInv'
PROOF
<1> USE ConstantsAssumption, NoLeaseAssumption
<1>1. PICK d \in FindOwned(a, id) :
       /\ call[c] = Idle
       /\ call' = [call EXCEPT ![c] =
            [Idle EXCEPT !.pc = "queued", !.op = "broken", !.owner = a,
                         !.want = want, !.old = table[d]]]
       /\ erasing' = IF AutoRepair /\ d \notin Vega THEN erasing \cup {table[d]}
                                                    ELSE erasing
       /\ stops' = IF AutoRepair /\ d \notin Vega THEN stops \cup {d} ELSE stops
       /\ lease' = [lease EXCEPT ![table[d]].status = "repairing",
                                 ![table[d]].owner = NoAgent]
       /\ told' = [told EXCEPT ![a] = @ \ {d}]
  BY DEF BrokenArrives, Arrive
<1>2. /\ d \in Device /\ table[d] \in Id /\ table[d] # NoId /\ table[d][1] = d
      /\ lease[table[d]] # NoLease
  BY DEF FindOwned, Leased, IInv, TypeOK, Records
<1> DEFINE r == table[d]
           m == [lease[r] EXCEPT !.status = "repairing", !.owner = NoAgent]
           l == [q \in Id |-> IF q = r THEN m ELSE lease[q]]
<1>3. /\ m \in Lease /\ m.dev = r[1] /\ (r[1] \in Vega => m.handle)
  <2> DEFINE y == [lease[r] EXCEPT !.status = "repairing"]
  <2>1. lease[r] \in Lease /\ lease[r].dev = r[1] /\ (r[1] \in Vega => lease[r].handle)
    BY <1>2, LiveRecord
  <2>2. "repairing" \in Status /\ NoAgent \in Agent \cup {NoAgent}
    BY DEF Status
  <2>3. y \in Lease /\ y.dev = lease[r].dev /\ y.handle = lease[r].handle
    BY <2>1, <2>2, SetStatus
  <2>4. m = [y EXCEPT !.owner = NoAgent]
    OBVIOUS
  <2> HIDE DEF m, y
  <2>5. m \in Lease /\ m.dev = y.dev /\ m.handle = y.handle
    BY <2>2, <2>3, <2>4, SetOwner
  <2> QED BY <2>1, <2>3, <2>5
<1>4. lease' = l
  BY <1>1, <1>2 DEF IInv, TypeOK
<1>5. call' \in [Call -> CallRecord]
  BY <1>1, <1>2 DEF IInv, TypeOK, Idle, CallRecord, Pc
<1> HIDE DEF m
<1>6. /\ l \in [Id -> Lease \cup {NoLease}]
      /\ \A q \in Id : l[q] # NoLease => l[q].dev = q[1] /\ (q[1] \in Vega => l[q].handle)
      /\ \A q \in Id : lease[q] # NoLease => l[q] # NoLease
  <2>1. m # NoLease /\ l = [q \in Id |-> IF q = r THEN m ELSE lease[q]]
    BY <1>3
  <2> HIDE DEF l
  <2> QED BY <1>2, <1>3, <2>1, WriteField
<1>7. table' = table /\ Publish
  BY DEF BrokenArrives
<1>8. \A b \in Call : /\ call'[b].rec # NoId => l[call'[b].rec] # NoLease
                      /\ call'[b].old # NoId => l[call'[b].old] # NoLease
  <2>1. \A b \in Call : /\ call'[b].rec # NoId => lease[call'[b].rec] # NoLease
                        /\ call'[b].old # NoId => lease[call'[b].old] # NoLease
    BY <1>1, <1>2 DEF IInv, TypeOK, RefsLive, Idle, CallRecord
  <2> HIDE DEF l
  <2>2. \A b \in Call : call'[b].rec \in Id \cup {NoId} /\ call'[b].old \in Id \cup {NoId}
    BY <1>5 DEF CallRecord
  <2> QED BY <2>1, <2>2, <1>6
<1>9. \A e \in Device : table'[e] # NoId => table'[e][1] = e /\ l[table'[e]] # NoLease
  <2> HIDE DEF l
  <2> QED BY <1>6, <1>7 DEF IInv, TypeOK, Records, Leased
<1> HIDE DEF l
<1>10. table' \in [Device -> Id \cup {NoId}]
  BY <1>7 DEF IInv, TypeOK
<1>11. /\ lease' \in [Id -> Lease \cup {NoLease}]
       /\ saved' \in [Device -> Lease \cup {NoLease}]
       /\ Records' /\ RefsLive' /\ SavedCoversTable'
  BY <1>4, <1>5, <1>6, <1>7, <1>8, <1>9, <1>10, WriteInv
<1>12. TypeOK'
  BY <1>1, <1>2, <1>5, <1>10, <1>11 DEF IInv, TypeOK, BrokenArrives
<1>13. CallShape'
  BY <1>1 DEF IInv, TypeOK, CallShape, Idle, CallRecord
<1>14. LockHeld'
  BY <1>1, <1>7 DEF IInv, TypeOK, LockHeld, Idle, CallRecord, Leased, BrokenArrives
<1> QED BY <1>11, <1>12, <1>13, <1>14 DEF IInv
\* The refusal step of a call keeps what its continuation needs.
LEMMA RefusedStep ==
  ASSUME IInv, NEW c \in Call, call[c].pc # "idle",
         call' = [call EXCEPT ![c] = Refused(c)]
  PROVE  /\ call' \in [Call -> CallRecord]
         /\ \A b \in Call : /\ call'[b].rec \in {call[b].rec, NoId}
                            /\ call'[b].old \in {call[b].old, NoId}
                            /\ call'[b].pc \in {"listing", "choosing"} =>
                                 call'[b] = call[b]
         /\ CallShape'
  BY RefusedTyped DEF IInv, TypeOK, CallShape

LEMMA RefsKept ==
  ASSUME IInv, call' \in [Call -> CallRecord],
         \A c \in Call : /\ call'[c].rec \in {call[c].rec, NoId}
                         /\ call'[c].old \in {call[c].old, NoId},
         NEW l, \A q \in Id : lease[q] # NoLease => l[q] # NoLease
  PROVE  \A c \in Call : /\ call'[c].rec # NoId => l[call'[c].rec] # NoLease
                         /\ call'[c].old # NoId => l[call'[c].old] # NoLease
PROOF
<1>1. \A c \in Call : call'[c].rec \in Id \cup {NoId} /\ call'[c].old \in Id \cup {NoId}
  BY DEF CallRecord
<1> QED BY <1>1 DEF IInv, RefsLive

LEMMA EraseAnswersInv ==
  ASSUME IInv, NEW r \in Id, EraseAnswers(r) PROVE IInv'
PROOF
<1> USE ConstantsAssumption, NoLeaseAssumption
<1>1. PICK ok \in BOOLEAN :
        /\ table' = Without({d \in Device : table[d] = r /\ ok})
        /\ Keep(IF Held(r) /\ ~ok THEN [lease EXCEPT ![r].status = "repairing"] ELSE lease)
        /\ IF Held(r) THEN Publish ELSE UNCHANGED saved
  BY DEF EraseAnswers
<1>2. /\ sweep' \subseteq Id /\ erasing' \subseteq Id /\ call' = call /\ lock' = lock
      /\ alive' \in [Agent -> BOOLEAN] /\ told' \in [Agent -> SUBSET Device]
      /\ power' = power /\ stops' \subseteq Device
  BY DEF EraseAnswers, world, IInv, TypeOK
<1>3. CASE ~(Held(r) /\ ~ok)
  BY <1>1, <1>2, <1>3, ShrinkStep
<1>4. CASE Held(r) /\ ~ok
  <2>1. PICK d \in Device : table[d] = r
    BY <1>4 DEF Held
  <2>2. table' = table /\ Publish
    BY <1>1, <1>4 DEF Without, IInv, TypeOK
  <2>3. lease[r] # NoLease
    BY <2>1 DEF IInv, Records, Leased
  <2> DEFINE m == [lease[r] EXCEPT !.status = "repairing"]
             l == [q \in Id |-> IF q = r THEN m ELSE lease[q]]
  <2>4. m \in Lease /\ m.dev = r[1] /\ (r[1] \in Vega => m.handle)
    <3>1. lease[r] \in Lease /\ lease[r].dev = r[1] /\ (r[1] \in Vega => lease[r].handle)
      BY <2>3, LiveRecord
    <3>2. "repairing" \in Status
      BY DEF Status
    <3> QED BY <3>1, <3>2, SetStatus
  <2>5. [lease EXCEPT ![r].status = "repairing"] = l
    BY DEF IInv, TypeOK
  <2>6. Keep(l)
    BY <1>1, <1>4, <2>5
  <2> HIDE DEF m
  <2>7. m # NoLease
    BY <2>4
  <2>8. l = [q \in Id |-> IF q = r THEN m ELSE lease[q]]
    OBVIOUS
  <2> HIDE DEF l
  <2>9. /\ l \in [Id -> Lease \cup {NoLease}]
        /\ \A q \in Id : l[q] # NoLease => l[q].dev = q[1] /\ (q[1] \in Vega => l[q].handle)
        /\ \A q \in Id : lease[q] # NoLease => l[q] # NoLease
    BY <2>4, <2>7, <2>8, WriteField
  <2>10. /\ call' \in [Call -> CallRecord]
         /\ \A c \in Call : /\ call'[c].rec # NoId => l[call'[c].rec] # NoLease
                            /\ call'[c].old # NoId => l[call'[c].old] # NoLease
    <3>1. call' \in [Call -> CallRecord]
      BY <1>2 DEF IInv, TypeOK
    <3> QED BY <1>2, <2>9, <3>1, RefsKept
  <2>11. \A e \in Device : table'[e] # NoId => table'[e][1] = e /\ l[table'[e]] # NoLease
    BY <2>2, <2>9 DEF IInv, TypeOK, Records, Leased
  <2>12. table' \in [Device -> Id \cup {NoId}]
    BY <2>2 DEF IInv, TypeOK
  <2>13. /\ lease' \in [Id -> Lease \cup {NoLease}]
         /\ saved' \in [Device -> Lease \cup {NoLease}]
         /\ Records' /\ RefsLive' /\ SavedCoversTable'
    BY <2>2, <2>6, <2>9, <2>10, <2>11, <2>12, WriteInv
  <2>14. TypeOK' /\ CallShape' /\ LockHeld'
    BY <1>2, <2>2, <2>12, <2>13 DEF IInv, TypeOK, CallShape, LockHeld, Leased
  <2> QED BY <2>13, <2>14 DEF IInv
<1> QED BY <1>3, <1>4

LEMMA RestoreOldInv ==
  ASSUME IInv, NEW c \in Call, RestoreOld(c) PROVE IInv'
PROOF
<1> USE ConstantsAssumption, NoLeaseAssumption
<1> DEFINE r == call[c].old
           d == lease[r].dev
<1>1. call[c].pc = "restoring" /\ lock = NoCall /\ call' = [call EXCEPT ![c] = Idle]
  BY DEF RestoreOld
<1>2. r \in Id /\ r # NoId /\ lease[r] # NoLease
  BY <1>1 DEF IInv, TypeOK, CallShape, RefsLive, CallRecord
<1>3. d \in Device /\ d = r[1] /\ lease[r] \in Lease
  BY <1>2, LiveRecord
<1>4. /\ call' \in [Call -> CallRecord]
      /\ \A b \in Call : /\ call'[b].rec \in {call[b].rec, NoId}
                         /\ call'[b].old \in {call[b].old, NoId}
  BY <1>1 DEF IInv, TypeOK, Idle, CallRecord, Pc
<1>5. \/ table' = [table EXCEPT ![d] = r]
      \/ table' = table
  BY DEF RestoreOld
<1>6. /\ table' \in [Device -> Id \cup {NoId}]
      /\ \A e \in Device : table'[e] # NoId => table'[e][1] = e /\ lease[table'[e]] # NoLease
  BY <1>2, <1>3, <1>5 DEF IInv, TypeOK, Records, Leased
<1>7. /\ lease \in [Id -> Lease \cup {NoLease}]
      /\ \A q \in Id : lease[q] # NoLease => lease[q].dev = q[1] /\ (q[1] \in Vega => lease[q].handle)
  BY DEF IInv, TypeOK, Records
<1>8. \A b \in Call : /\ call'[b].rec # NoId => lease[call'[b].rec] # NoLease
                      /\ call'[b].old # NoId => lease[call'[b].old] # NoLease
  BY <1>4, RefsKept
<1>9. Publish \/ (saved' = saved /\ table' = table)
  BY DEF RestoreOld
<1>10. /\ lease' \in [Id -> Lease \cup {NoLease}]
       /\ saved' \in [Device -> Lease \cup {NoLease}]
       /\ Records' /\ RefsLive' /\ SavedCoversTable'
  <2>1. Keep(lease)
    BY DEF RestoreOld
  <2> QED BY <1>4, <1>6, <1>7, <1>8, <1>9, <2>1, WriteInv
<1>11. told' \in [Agent -> SUBSET Device]
  BY <1>3 DEF RestoreOld, IInv, TypeOK
<1>12. TypeOK'
  BY <1>4, <1>6, <1>10, <1>11 DEF RestoreOld, IInv, TypeOK, loops, world
<1>13. CallShape'
  BY <1>1 DEF IInv, TypeOK, CallShape, Idle
<1>14. LockHeld'
  BY <1>1 DEF IInv, TypeOK, LockHeld, Idle
<1> QED BY <1>10, <1>12, <1>13, <1>14 DEF IInv

LEMMA FreshSlot ==
  ASSUME NEW Some, Some # {} PROVE (CHOOSE s \in Some : TRUE) \in Some
  OBVIOUS

LEMMA ChooseInv ==
  ASSUME IInv, NEW c \in Call, Choose(c) PROVE IInv'
PROOF
<1> USE ConstantsAssumption, NoLeaseAssumption
<1>1. call[c].pc = "choosing" /\ lock = c /\ lock' = NoCall
  BY DEF Choose, IInv, LockHeld
<1>2. \A b \in Call : call[b].pc \in {"listing", "choosing"} => b = c
  BY <1>1 DEF IInv, LockHeld
<1>3. /\ sweep' \subseteq Id /\ erasing' \subseteq Id /\ alive' \in [Agent -> BOOLEAN]
      /\ told' \in [Agent -> SUBSET Device] /\ power' \in [Device -> {"off", "on", "user"}]
      /\ stops' \subseteq Device
  BY DEF Choose, loops, world, IInv, TypeOK
<1>4. CASE /\ call' = [call EXCEPT ![c] = Refused(c)]
           /\ UNCHANGED <<table, saved>>
           /\ Keep(lease)
  <2>1. /\ call' \in [Call -> CallRecord] /\ CallShape'
        /\ \A b \in Call : /\ call'[b].rec \in {call[b].rec, NoId}
                           /\ call'[b].old \in {call[b].old, NoId}
    BY <1>1, <1>4, RefusedStep
  <2>2. /\ table' \in [Device -> Id \cup {NoId}]
        /\ \A d \in Device : table'[d] \in {table[d], NoId}
    BY <1>4 DEF IInv, TypeOK
  <2>3. /\ lease' \in [Id -> Lease \cup {NoLease}]
        /\ saved' \in [Device -> Lease \cup {NoLease}]
        /\ Records' /\ RefsLive' /\ SavedCoversTable'
    BY <1>4, <2>1, <2>2, ShrinkInv
  <2>4. TypeOK'
    BY <1>1, <1>3, <2>1, <2>2, <2>3 DEF TypeOK
  <2>5. LockHeld'
    <3>1. \A b \in Call : call'[b].pc \notin {"listing", "choosing"}
      BY <1>1, <1>2, <1>4, RefusedTyped DEF IInv, TypeOK
    <3> QED BY <3>1 DEF LockHeld
  <2> QED BY <2>1, <2>3, <2>4, <2>5 DEF IInv
<1>5. CASE \E d \in Candidates(c) :
             LET r == <<d, CHOOSE s \in Fresh(d) : TRUE>>
             IN /\ Fresh(d) # {}
                /\ table' = [table EXCEPT ![d] = r]
                /\ call' = [call EXCEPT ![c].pc = "booting", ![c].rec = r,
                                        ![c].seen = {}, ![c].want = {}]
                /\ Keep([lease EXCEPT ![r] = Reserved(c, d)])
                /\ Publish
  <2>1. PICK d \in Candidates(c) :
             LET r == <<d, CHOOSE s \in Fresh(d) : TRUE>>
             IN /\ Fresh(d) # {}
                /\ table' = [table EXCEPT ![d] = r]
                /\ call' = [call EXCEPT ![c].pc = "booting", ![c].rec = r,
                                        ![c].seen = {}, ![c].want = {}]
                /\ Keep([lease EXCEPT ![r] = Reserved(c, d)])
                /\ Publish
    BY <1>5
  <2> DEFINE r == <<d, CHOOSE s \in Fresh(d) : TRUE>>
             m == Reserved(c, d)
             g == [call[c] EXCEPT !.pc = "booting", !.rec = r, !.seen = {}, !.want = {}]
             l == [q \in Id |-> IF q = r THEN m ELSE lease[q]]
  <2>2. call[c] \in CallRecord /\ call[c].owner \in Agent
    BY <1>1 DEF IInv, TypeOK, CallShape
  <2>3. d \in Device
    BY <2>2 DEF Candidates, Preferred, Matches, Claimable, CallRecord
  <2>4. r \in Id /\ r[1] = d /\ r # NoId
    <3>1. (CHOOSE s \in Fresh(d) : TRUE) \in Fresh(d)
      BY <2>1, FreshSlot
    <3>2. (CHOOSE s \in Fresh(d) : TRUE) \in Slot
      BY <3>1 DEF Fresh
    <3>3. \A s \in Slot : <<d, s>> \in Id /\ <<d, s>>[1] = d /\ <<d, s>> # NoId
      BY <2>3 DEF Id
    <3> HIDE DEF Fresh
    <3> QED BY <3>2, <3>3, Zenon
  <2>5. m \in Lease /\ m.dev = d /\ (d \in Vega => m.handle) /\ m # NoLease
    <3>1. /\ (d \notin call[c].seen \cup Vega) \in BOOLEAN
          /\ (d \in Apple \cup Vega \cup call[c].seen) \in BOOLEAN
          /\ "booting" \in Status
      BY DEF Status
    <3>2. m = [dev |-> d, owner |-> call[c].owner, status |-> "booting",
               bootedByUs |-> d \notin call[c].seen \cup Vega,
               handle |-> d \in Apple \cup Vega \cup call[c].seen]
      BY DEF Reserved
    <3>3. m \in Lease
      <4> HIDE DEF m
      <4> QED BY <2>2, <2>3, <3>1, <3>2, Zenon DEF Lease
    <3>4. m.dev = d /\ m.handle = (d \in Apple \cup Vega \cup call[c].seen)
      BY DEF Reserved
    <3> QED BY <3>3, <3>4
  <2>6. /\ g \in CallRecord /\ g.pc = "booting" /\ g.rec = r /\ g.old = call[c].old
        /\ g.owner = call[c].owner /\ g.op = call[c].op
    BY <2>2, <2>4 DEF CallRecord, Pc
  <2>7. call' = [b \in Call |-> IF b = c THEN g ELSE call[b]]
    BY <2>1 DEF IInv, TypeOK
  <2>8. Keep(l) /\ Publish
    <3>1. [lease EXCEPT ![r] = m] = l
      BY DEF IInv, TypeOK
    <3> QED BY <2>1, <3>1
  <2>9. table' = [e \in Device |-> IF e = d THEN r ELSE table[e]]
    BY <2>1 DEF IInv, TypeOK
  <2> HIDE DEF m, r, g
  <2>10. l = [q \in Id |-> IF q = r THEN m ELSE lease[q]]
    OBVIOUS
  <2> HIDE DEF l
  <2>11. /\ l \in [Id -> Lease \cup {NoLease}]
         /\ \A q \in Id : l[q] # NoLease => l[q].dev = q[1] /\ (q[1] \in Vega => l[q].handle)
         /\ \A q \in Id : lease[q] # NoLease => l[q] # NoLease
    BY <2>4, <2>5, <2>10, WriteField
  <2>12. call' \in [Call -> CallRecord]
    BY <2>6, <2>7 DEF IInv, TypeOK
  <2>13. \A b \in Call : /\ call'[b].rec # NoId => l[call'[b].rec] # NoLease
                         /\ call'[b].old # NoId => l[call'[b].old] # NoLease
    <3>1. l[r] # NoLease
      BY <2>4, <2>5, <2>10
    <3>2. \A b \in Call : /\ call[b].rec # NoId => l[call[b].rec] # NoLease
                          /\ call[b].old # NoId => l[call[b].old] # NoLease
      BY <2>11 DEF IInv, RefsLive, TypeOK, CallRecord
    <3> QED BY <2>6, <2>7, <3>1, <3>2
  <2>14. /\ table' \in [Device -> Id \cup {NoId}]
         /\ \A e \in Device : table'[e] # NoId => table'[e][1] = e /\ l[table'[e]] # NoLease
    BY <2>4, <2>5, <2>9, <2>10, <2>11 DEF IInv, TypeOK, Records, Leased
  <2>15. /\ lease' \in [Id -> Lease \cup {NoLease}]
         /\ saved' \in [Device -> Lease \cup {NoLease}]
         /\ Records' /\ RefsLive' /\ SavedCoversTable'
    BY <2>8, <2>11, <2>12, <2>13, <2>14, WriteInv
  <2>16. TypeOK'
    BY <1>1, <1>3, <2>12, <2>14, <2>15 DEF TypeOK
  <2>17. CallShape'
    BY <2>2, <2>4, <2>6, <2>7 DEF IInv, CallShape
  <2>18. LockHeld'
    BY <1>2, <2>6, <2>7 DEF LockHeld
  <2> QED BY <2>15, <2>16, <2>17, <2>18 DEF IInv
<1> QED BY <1>4, <1>5 DEF Choose

LEMMA BootedTyped ==
  ASSUME NEW x \in Lease, NEW ok \in BOOLEAN
  PROVE  /\ Booted(x, ok) \in Lease /\ Booted(x, ok).dev = x.dev
         /\ Booted(x, ok).owner = x.owner
         /\ Booted(x, ok).handle = (x.dev \in Apple \cup Vega \/ power[x.dev] # "off")
         /\ x.dev \in Vega => Booted(x, ok).handle
  BY DEF Booted, Lease, Status

LEMMA BootAnswersInv ==
  ASSUME IInv, NEW c \in Call, BootAnswers(c) PROVE IInv'
PROOF
<1> USE ConstantsAssumption, NoLeaseAssumption
<1> DEFINE r == call[c].rec
<1>1. PICK ok \in BOOLEAN :
        LET m == Booted(lease[r], ok)
        IN /\ ReleasedMidBoot(c, m) \/ BootFailed(c, m) \/ Granted(c, m)
           /\ UNCHANGED <<table, loops>>
           /\ Keep([lease EXCEPT ![r] = m])
  BY DEF BootAnswers
<1> DEFINE m == Booted(lease[r], ok)
           l == [q \in Id |-> IF q = r THEN m ELSE lease[q]]
<1>2. call[c].pc = "waiting" /\ UNCHANGED <<saved, lock, alive, power>>
  BY DEF BootAnswers
<1>3. r \in Id /\ r # NoId /\ lease[r] # NoLease
  BY <1>2 DEF IInv, TypeOK, CallShape, RefsLive, CallRecord
<1>4. lease[r] \in Lease /\ lease[r].dev = r[1] /\ r[1] \in Device
  BY <1>3, LiveRecord
<1>5. /\ m \in Lease /\ m.dev = r[1] /\ (r[1] \in Vega => m.handle) /\ m.owner = lease[r].owner
      /\ m # NoLease
  BY SMTT(20), <1>4, BootedTyped
<1>6. [lease EXCEPT ![r] = m] = l
  BY DEF IInv, TypeOK
<1>7. Keep(l)
  BY <1>1, <1>6
<1>8. ReleasedMidBoot(c, m) \/ BootFailed(c, m) \/ Granted(c, m)
  BY <1>1
<1>9. table' = table /\ sweep' = sweep /\ erasing' = erasing
  BY <1>1 DEF loops
<1> HIDE DEF m
<1>10. l = [q \in Id |-> IF q = r THEN m ELSE lease[q]]
  OBVIOUS
<1> HIDE DEF l
<1>11. /\ l \in [Id -> Lease \cup {NoLease}]
       /\ \A q \in Id : l[q] # NoLease => l[q].dev = q[1] /\ (q[1] \in Vega => l[q].handle)
       /\ \A q \in Id : lease[q] # NoLease => l[q] # NoLease
  BY <1>3, <1>5, <1>10, WriteField
<1>12. /\ call' \in [Call -> CallRecord] /\ CallShape'
       /\ \A b \in Call : /\ call'[b].rec \in {call[b].rec, NoId}
                          /\ call'[b].old \in {call[b].old, NoId}
                          /\ call'[b].pc \in {"listing", "choosing"} => call'[b] = call[b]
  <2>1. CASE ReleasedMidBoot(c, m)
    BY <1>2, <2>1, RefusedStep DEF ReleasedMidBoot
  <2>2. CASE BootFailed(c, m)
    <3>1. call' = [call EXCEPT ![c].pc = "failed"] /\ "failed" \in Pc
      BY <2>2 DEF BootFailed, Pc
    <3> QED BY <1>2, <3>1, MovePc DEF IInv, TypeOK, CallShape
  <2>3. CASE Granted(c, m)
    <3>1. call' = [call EXCEPT ![c] = Idle]
      BY <2>3 DEF Granted
    <3> QED BY <3>1 DEF IInv, TypeOK, CallShape, Idle, CallRecord, Pc
  <2> QED BY <1>8, <2>1, <2>2, <2>3
<1>13. \A b \in Call : /\ call'[b].rec # NoId => l[call'[b].rec] # NoLease
                       /\ call'[b].old # NoId => l[call'[b].old] # NoLease
  BY <1>11, <1>12, RefsKept
<1>14. /\ table' \in [Device -> Id \cup {NoId}]
       /\ \A e \in Device : table'[e] # NoId => table'[e][1] = e /\ l[table'[e]] # NoLease
  BY <1>9, <1>11 DEF IInv, TypeOK, Records, Leased
<1>15. \A e \in Device : table'[e] # NoId =>
          table'[e] = table[e] /\ l[table[e]].owner = lease[table[e]].owner
  BY <1>5, <1>9, <1>10, <1>14
<1>16. /\ lease' \in [Id -> Lease \cup {NoLease}]
       /\ saved' \in [Device -> Lease \cup {NoLease}]
       /\ Records' /\ RefsLive' /\ SavedCoversTable'
  BY <1>2, <1>7, <1>11, <1>12, <1>13, <1>14, <1>15, WriteInv
<1>17. stops' \subseteq Device
  <2>1. \A x : x \in Lease => ShutdownOf(x) \subseteq Device
    BY DEF ShutdownOf, Lease
  <2>2. CASE Granted(c, m)
    <3>1. call[c].op = "change" => lease[call[c].old] \in Lease
      <4>1. ASSUME call[c].op = "change"
            PROVE call[c].old \in Id /\ lease[call[c].old] # NoLease
        BY <4>1 DEF IInv, TypeOK, CallShape, RefsLive, CallRecord
      <4> QED BY <4>1 DEF IInv, TypeOK
    <3> QED BY <2>1, <2>2, <3>1 DEF Granted, IInv, TypeOK
  <2>3. CASE ReleasedMidBoot(c, m) \/ BootFailed(c, m)
    BY <1>5, <2>1, <2>3 DEF ReleasedMidBoot, BootFailed, IInv, TypeOK
  <2> QED BY <1>8, <2>2, <2>3
<1>18. told' \in [Agent -> SUBSET Device]
  BY <1>4, <1>5, <1>8 DEF ReleasedMidBoot, BootFailed, Granted, IInv, TypeOK
<1>19. TypeOK'
  BY <1>2, <1>9, <1>12, <1>14, <1>16, <1>17, <1>18 DEF IInv, TypeOK
<1>20. LockHeld'
  BY <1>2, <1>9, <1>12 DEF IInv, LockHeld, Leased
<1> QED BY <1>12, <1>16, <1>19, <1>20 DEF IInv

LEMMA RestartInv ==
  ASSUME IInv, NEW sigterm \in BOOLEAN, Restart(sigterm) PROVE IInv'
PROOF
<1> USE ConstantsAssumption, NoLeaseAssumption
<1> DEFINE name(d) == <<d, CHOOSE s \in Slot : TRUE>>
<1>1. \A d \in Device : name(d) \in Id /\ name(d)[1] = d /\ name(d) # NoId
  <2>1. (CHOOSE s \in Slot : TRUE) \in Slot
    BY FreshSlot
  <2>2. \A s \in Slot, d \in Device : <<d, s>> \in Id /\ <<d, s>>[1] = d /\ <<d, s>> # NoId
    BY DEF Id
  <2> QED BY <2>1, <2>2, Zenon
<1>2. /\ table' = [d \in Device |-> IF Rehydratable(d) THEN name(d) ELSE NoId]
      /\ lease' = [r \in Id |-> IF r = name(r[1]) /\ Rehydratable(r[1])
                                  THEN saved[r[1]] ELSE NoLease]
      /\ saved' = saved
      /\ call' = [c \in Call |-> Idle]
  BY DEF Restart
<1>3. \A r \in Id : r[1] \in Device
  BY DEF Id
<1>4. \A d \in Device : Rehydratable(d) => saved[d] \in Lease /\ saved[d] # NoLease
  BY DEF Rehydratable, IInv, TypeOK
<1> HIDE DEF name
<1>5. lease' \in [Id -> Lease \cup {NoLease}]
  BY <1>2, <1>3, <1>4
<1>6. \A d \in Device : table'[d] # NoId =>
        table'[d] = name(d) /\ lease'[table'[d]] = saved[d] /\ Rehydratable(d)
  BY <1>1, <1>2
<1>7. Records'
  <2>1. \A d \in Device : table'[d] # NoId => table'[d][1] = d /\ lease'[table'[d]] # NoLease
    BY <1>1, <1>4, <1>6
  <2>2. \A r \in Id : lease'[r] # NoLease => lease'[r].dev = r[1] /\ (r[1] \in Vega => lease'[r].handle)
    BY <1>2, <1>3, <1>4 DEF IInv, Records
  <2>3. \A d \in Device : saved'[d] # NoLease => saved'[d].dev = d /\ (d \in Vega => saved'[d].handle)
    BY <1>2 DEF IInv, Records
  <2> QED BY <2>1, <2>2, <2>3 DEF Records, Leased
<1>8. SavedCoversTable'
  BY <1>2, <1>4, <1>6 DEF IInv, Records, SavedCoversTable, Leased, At
<1>9. RefsLive' /\ CallShape' /\ LockHeld'
  BY <1>2 DEF RefsLive, CallShape, LockHeld, Idle
<1>10. call' \in [Call -> CallRecord]
  BY <1>2 DEF Idle, CallRecord, Pc
<1>11. TypeOK'
  <2>1. table' \in [Device -> Id \cup {NoId}]
    BY <1>1, <1>2
  <2>2. power' \in [Device -> {"off", "on", "user"}]
    BY DEF Restart, IInv, TypeOK
  <2> QED BY <1>5, <1>10, <2>1, <2>2 DEF Restart, IInv, TypeOK
<1> QED BY <1>7, <1>8, <1>9, <1>11 DEF IInv

----------------------------------------------------------------------------
(* The theorems *)

LEMMA NextInv == IInv /\ [Next]_vars => IInv'
PROOF
<1> SUFFICES ASSUME IInv, [Next]_vars PROVE IInv'
  OBVIOUS
<1>1. CASE \E c \in Call : Handler(c)
  <2>1. PICK c \in Call : Handler(c)
    BY <1>1
  <2>2. CASE \E a \in Agent, want \in Requirements : RequestArrives(c, a, want)
    BY <2>2, RequestArrivesInv
  <2>3. CASE \E a \in Agent, d \in Device : ClaimArrives(c, a, d)
    BY <2>3, ClaimArrivesInv
  <2>4. CASE \E a \in Agent, want \in Requirements : \E id \in Named(a) : ChangeArrives(c, a, id, want)
    BY <2>4, ChangeArrivesInv
  <2>5. CASE \E a \in Agent, want \in Requirements : \E id \in Named(a) : BrokenArrives(c, a, id, want)
    BY <2>5, BrokenArrivesInv
  <2>6. CASE Gate(c) \/ Enumerate(c) \/ Choose(c) \/ Boot(c)
    BY <2>6, GateInv, EnumerateInv, ChooseInv, BootInv
  <2>7. CASE BootAnswers(c) \/ DropFailed(c) \/ FreeOld(c) \/ RestoreOld(c)
    BY <2>7, BootAnswersInv, DropFailedInv, FreeOldInv, RestoreOldInv
  <2> QED BY <2>1, <2>2, <2>3, <2>4, <2>5, <2>6, <2>7 DEF Handler
<1>2. CASE OneStep
  <2>1. CASE \E a \in Agent : \E id \in Named(a) : Release(a, id)
    BY <2>1, ReleaseInv
  <2>2. CASE \E a \in Agent : Exit(a)
    BY <2>2, ExitInv
  <2>3. CASE \E d \in Device : Kill(d) \/ Repaired(d)
    BY <2>3, KillInv, RepairedInv
  <2> QED BY <1>2, <2>1, <2>2, <2>3 DEF OneStep
<1>3. CASE Timer
  <2>1. CASE \E gone \in SUBSET Device : Reap(gone)
    BY <2>1, ReapInv
  <2>2. CASE SweepBegin \/ PoolRefresh
    BY <2>2, SweepBeginInv, PoolRefreshInv
  <2>3. CASE \E r \in Id : SweepJudge(r) \/ WipeBoots(r) \/ EraseAnswers(r)
    BY <2>3, SweepJudgeInv, WipeBootsInv, EraseAnswersInv
  <2> QED BY <1>3, <2>1, <2>2, <2>3 DEF Timer
<1>4. CASE World
  <2>1. CASE \E d \in Device : StopLands(d)
    BY <2>1, StopLandsInv
  <2>2. CASE \E a \in Agent : AgentDies(a)
    BY <2>2, AgentDiesInv
  <2>3. CASE Restart(FALSE) \/ Restart(TRUE)
    BY <2>3, RestartInv
  <2> QED BY <1>4, <2>1, <2>2, <2>3 DEF World
<1>5. CASE UNCHANGED vars
  BY <1>5, StutterInv
<1> QED BY <1>1, <1>2, <1>3, <1>4, <1>5 DEF Next

\* The daemon's state always has its type: no handler resumes with a record
\* that is gone, and a status, an owner or an address is always one of the
\* code's (daemon.js reserve, bootAlloc, rehydrateLeases).
THEOREM TypeCorrect == Spec => []TypeOK
PROOF
<1>1. Init => IInv
  BY InitInv
<1>2. IInv /\ [Next]_vars => IInv'
  BY NextInv
<1>3. IInv => TypeOK
  BY DEF IInv
<1> QED BY <1>1, <1>2, <1>3, PTL DEF Spec

\* Whenever the daemon dies, leases.json names every lease with its present
\* owner (daemon.js publish, rehydrateLeases).
THEOREM SavedCovers == Spec => []SavedCoversTable
PROOF
<1>1. Init => IInv
  BY InitInv
<1>2. IInv /\ [Next]_vars => IInv'
  BY NextInv
<1>3. IInv => SavedCoversTable
  BY DEF IInv
<1> QED BY <1>1, <1>2, <1>3, PTL DEF Spec

----------------------------------------------------------------------------
(* The daemon implements the lease service *)

\* No step gives a leased device to another agent, and none revives an agent.
OwnerStep ==
  \A d \in Device : table[d] # NoId /\ table'[d] # NoId =>
    lease'[table'[d]].owner \in {lease[table[d]].owner, NoAgent}

NoRevival == \A a \in Agent : alive'[a] => alive[a]

LEMMA ShrinkOwner ==
  ASSUME IInv, \A d \in Device : table'[d] \in {table[d], NoId},
         Keep(lease) \/ lease' = lease
  PROVE  OwnerStep
PROOF
<1> SUFFICES ASSUME NEW d \in Device, table[d] # NoId, table'[d] # NoId
             PROVE  lease'[table'[d]] = lease[table[d]]
  BY DEF OwnerStep
<1>1. table'[d] = table[d] /\ table[d] \in Id /\ table[d] \in Refs'
  BY DEF IInv, TypeOK, Refs
<1> QED BY <1>1 DEF Keep

\* A record that is written keeps its owner or loses it.
LEMMA WriteOwner ==
  ASSUME IInv, NEW r \in Id, NEW m,
         m.owner \in {lease[r].owner, NoAgent},
         NEW l, l = [q \in Id |-> IF q = r THEN m ELSE lease[q]],
         Keep(l) \/ lease' = l,
         \A d \in Device : table'[d] \in {table[d], NoId}
  PROVE  OwnerStep
PROOF
<1> SUFFICES ASSUME NEW d \in Device, table[d] # NoId, table'[d] # NoId
             PROVE  lease'[table'[d]].owner \in {lease[table[d]].owner, NoAgent}
  BY DEF OwnerStep
<1>1. table'[d] = table[d] /\ table[d] \in Id /\ table[d] \in Refs'
  BY DEF IInv, TypeOK, Refs
<1>2. lease'[table[d]] = l[table[d]]
  BY <1>1 DEF Keep
<1> QED BY <1>1, <1>2

LEMMA BrokenOwner ==
  ASSUME IInv, NEW c \in Call, NEW a \in Agent, NEW want \in Requirements,
         NEW id \in Named(a), BrokenArrives(c, a, id, want)
  PROVE  OwnerStep
PROOF
<1>1. PICK d \in FindOwned(a, id) :
       lease' = [lease EXCEPT ![table[d]].status = "repairing", ![table[d]].owner = NoAgent]
  BY DEF BrokenArrives
<1>2. table[d] \in Id /\ lease[table[d]] \in Lease /\ table' = table
  BY ConstantsAssumption DEF FindOwned, Leased, IInv, TypeOK, Records, BrokenArrives
<1> DEFINE x == [lease[table[d]] EXCEPT !.status = "repairing"]
           m == [x EXCEPT !.owner = NoAgent]
           l == [q \in Id |-> IF q = table[d] THEN m ELSE lease[q]]
<1>3. lease' = l
  BY <1>1, <1>2 DEF IInv, TypeOK
<1>4. m.owner = NoAgent
  <2>1. x \in Lease
    BY <1>2, SetStatus DEF Status
  <2> HIDE DEF x
  <2> QED BY <2>1, SetOwner
<1> HIDE DEF m
<1>5. l = [q \in Id |-> IF q = table[d] THEN m ELSE lease[q]]
  OBVIOUS
<1> HIDE DEF l
<1> QED BY <1>2, <1>3, <1>4, <1>5, WriteOwner

LEMMA BootAnswersOwner ==
  ASSUME IInv, NEW c \in Call, BootAnswers(c) PROVE OwnerStep
PROOF
<1> DEFINE r == call[c].rec
<1>1. r \in Id /\ lease[r] \in Lease
  BY ConstantsAssumption, LiveRecord DEF BootAnswers, IInv, TypeOK, CallShape, RefsLive, CallRecord
<1>2. PICK ok \in BOOLEAN : /\ Keep([lease EXCEPT ![r] = Booted(lease[r], ok)])
                            /\ table' = table
  BY DEF BootAnswers
<1> DEFINE m == Booted(lease[r], ok)
           l == [q \in Id |-> IF q = r THEN m ELSE lease[q]]
<1>3. m.owner = lease[r].owner
  BY <1>1, BootedTyped
<1>4. Keep(l)
  <2>1. [lease EXCEPT ![r] = m] = l
    BY DEF IInv, TypeOK
  <2> QED BY <1>2, <2>1
<1> HIDE DEF m
<1>5. l = [q \in Id |-> IF q = r THEN m ELSE lease[q]]
  OBVIOUS
<1> HIDE DEF l
<1> QED BY <1>1, <1>2, <1>3, <1>4, <1>5, WriteOwner

LEMMA EraseOwner ==
  ASSUME IInv, NEW r \in Id, EraseAnswers(r) PROVE OwnerStep
PROOF
<1>1. PICK ok \in BOOLEAN :
        /\ table' = Without({d \in Device : table[d] = r /\ ok})
        /\ Keep(IF Held(r) /\ ~ok THEN [lease EXCEPT ![r].status = "repairing"] ELSE lease)
  BY DEF EraseAnswers
<1>2. \A d \in Device : table'[d] \in {table[d], NoId}
  BY <1>1 DEF Without
<1>3. CASE ~(Held(r) /\ ~ok)
  BY <1>1, <1>2, <1>3, ShrinkOwner
<1>4. CASE Held(r) /\ ~ok
  <2>1. lease[r] \in Lease
    BY <1>4, ConstantsAssumption DEF Held, IInv, TypeOK, Records, Leased
  <2> DEFINE m == [lease[r] EXCEPT !.status = "repairing"]
             l == [q \in Id |-> IF q = r THEN m ELSE lease[q]]
  <2>2. m.owner = lease[r].owner
    BY <2>1, SetStatus DEF Status
  <2>3. Keep(l)
    <3>1. [lease EXCEPT ![r].status = "repairing"] = l
      BY DEF IInv, TypeOK
    <3> QED BY <1>1, <1>4, <3>1
  <2> HIDE DEF m
  <2>4. l = [q \in Id |-> IF q = r THEN m ELSE lease[q]]
    OBVIOUS
  <2> HIDE DEF l
  <2> QED BY <1>2, <2>2, <2>3, <2>4, WriteOwner
<1> QED BY <1>3, <1>4

\* A reservation takes a free device: a matching one was seen free under the
\* lock, and a claimed Vega device was free when the lock was taken.
LEMMA ChooseOwner ==
  ASSUME IInv, NEW c \in Call, Choose(c) PROVE OwnerStep
PROOF
<1>1. CASE UNCHANGED table /\ Keep(lease)
  BY <1>1, ShrinkOwner
<1>2. CASE \E d \in Candidates(c) :
             LET r == <<d, CHOOSE s \in Fresh(d) : TRUE>>
             IN /\ table' = [table EXCEPT ![d] = r]
                /\ Keep([lease EXCEPT ![r] = Reserved(c, d)])
                /\ Fresh(d) # {}
  <2>1. PICK d \in Candidates(c) :
             LET r == <<d, CHOOSE s \in Fresh(d) : TRUE>>
             IN /\ table' = [table EXCEPT ![d] = r]
                /\ Keep([lease EXCEPT ![r] = Reserved(c, d)])
                /\ Fresh(d) # {}
    BY <1>2
  <2> DEFINE r == <<d, CHOOSE s \in Fresh(d) : TRUE>>
  <2>2. ~Leased(d)
    <3>1. CASE call[c].target = NoDevice
      BY <3>1 DEF Candidates, Preferred, Matches
    <3>2. CASE call[c].target # NoDevice
      BY <3>2 DEF Candidates, Claimable, IInv, LockHeld, Choose
    <3> QED BY <3>1, <3>2
  <2>3. lease[r] = NoLease
    <3>1. (CHOOSE s \in Fresh(d) : TRUE) \in Fresh(d)
      BY <2>1, FreshSlot
    <3>2. \A s \in Fresh(d) : lease[<<d, s>>] = NoLease
      BY DEF Fresh
    <3> HIDE DEF Fresh
    <3> QED BY <3>1, <3>2, Zenon
  <2>4. table' = [table EXCEPT ![d] = r] /\ Keep([lease EXCEPT ![r] = Reserved(c, d)])
    BY <2>1
  <2> HIDE DEF r
  <2> SUFFICES ASSUME NEW e \in Device, table[e] # NoId, table'[e] # NoId
               PROVE  lease'[table'[e]] = lease[table[e]]
    BY DEF OwnerStep
  <2>5. e # d
    BY <2>2 DEF Leased
  <2>6. table'[e] = table[e] /\ table[e] \in Id /\ table[e] \in Refs'
    BY <2>4, <2>5 DEF IInv, TypeOK, Refs
  <2>7. table[e] # r
    BY <2>3 DEF IInv, Records, Leased
  <2> QED BY <2>4, <2>6, <2>7 DEF Keep, IInv, TypeOK
<1> QED BY <1>1, <1>2 DEF Choose

LEMMA RestoreOwner ==
  ASSUME IInv, NEW c \in Call, RestoreOld(c) PROVE OwnerStep
PROOF
<1> DEFINE r == call[c].old
           d == lease[r].dev
<1>1. \/ ~Leased(d) /\ table' = [table EXCEPT ![d] = r]
      \/ table' = table
  BY DEF RestoreOld, Restorable
<1>2. Keep(lease)
  BY DEF RestoreOld
<1> SUFFICES ASSUME NEW e \in Device, table[e] # NoId, table'[e] # NoId
             PROVE  lease'[table'[e]] = lease[table[e]]
  BY DEF OwnerStep
<1>3. table'[e] = table[e] /\ table[e] \in Id
  BY <1>1 DEF Leased, IInv, TypeOK
<1>4. table[e] \in Refs'
  BY <1>3 DEF Refs
<1> QED BY <1>2, <1>3, <1>4 DEF Keep

\* A restart brings a lease back under the owner it had.
LEMMA RestartOwner ==
  ASSUME IInv, NEW sigterm \in BOOLEAN, Restart(sigterm) PROVE OwnerStep
PROOF
<1> DEFINE name(d) == <<d, CHOOSE s \in Slot : TRUE>>
<1>1. \A d \in Device : name(d) \in Id /\ name(d)[1] = d
  <2>1. (CHOOSE s \in Slot : TRUE) \in Slot
    BY FreshSlot, ConstantsAssumption
  <2>2. \A s \in Slot, d \in Device : <<d, s>> \in Id /\ <<d, s>>[1] = d
    BY DEF Id
  <2> QED BY <2>1, <2>2, Zenon
<1>2. /\ table' = [d \in Device |-> IF Rehydratable(d) THEN name(d) ELSE NoId]
      /\ lease' = [r \in Id |-> IF r = name(r[1]) /\ Rehydratable(r[1])
                                  THEN saved[r[1]] ELSE NoLease]
  BY DEF Restart
<1> HIDE DEF name
<1> SUFFICES ASSUME NEW d \in Device, table[d] # NoId, table'[d] # NoId
             PROVE  lease'[table'[d]].owner = lease[table[d]].owner
  BY DEF OwnerStep
<1>3. lease'[table'[d]] = saved[d]
  BY <1>1, <1>2
<1> QED BY <1>3 DEF IInv, SavedCoversTable, Leased, At

LEMMA StepOwner == IInv /\ [Next]_vars => OwnerStep
PROOF
<1> SUFFICES ASSUME IInv, [Next]_vars PROVE OwnerStep
  OBVIOUS
<1>0. ASSUME UNCHANGED <<table, lease>> PROVE OwnerStep
  BY <1>0, ShrinkOwner
<1>1. CASE \E c \in Call : Handler(c)
  <2>1. PICK c \in Call : Handler(c)
    BY <1>1
  <2>2. CASE \/ \E a \in Agent, want \in Requirements : RequestArrives(c, a, want)
             \/ \E a \in Agent, d \in Device : ClaimArrives(c, a, d)
    BY <1>0, <2>2 DEF RequestArrives, ClaimArrives
  <2>3. CASE \E a \in Agent, want \in Requirements : \E id \in Named(a) : ChangeArrives(c, a, id, want)
    BY <1>0, <2>3 DEF ChangeArrives
  <2>4. CASE \E a \in Agent, want \in Requirements : \E id \in Named(a) : BrokenArrives(c, a, id, want)
    BY <2>4, BrokenOwner
  <2>5. CASE Enumerate(c) \/ Boot(c)
    BY <1>0, <2>5 DEF Enumerate, Boot
  <2>6. CASE Gate(c) \/ FreeOld(c)
    <3>1. /\ \E Devs : table' = Without(Devs)
          /\ Keep(lease)
      BY <2>6 DEF Gate, FreeOld
    <3> QED BY <3>1, ShrinkOwner DEF Without
  <2>7. CASE DropFailed(c)
    BY <2>7, ShrinkOwner DEF DropFailed
  <2>8. CASE Choose(c) \/ BootAnswers(c) \/ RestoreOld(c)
    BY <2>8, ChooseOwner, BootAnswersOwner, RestoreOwner
  <2> QED BY <2>1, <2>2, <2>3, <2>4, <2>5, <2>6, <2>7, <2>8 DEF Handler
<1>2. CASE OneStep \/ \E gone \in SUBSET Device : Reap(gone)
  <2>1. /\ \E Devs : table' = Without(Devs)
        /\ Keep(lease)
    BY <1>2 DEF OneStep, Release, Exit, Releases, Kill, Repaired, Reap
  <2> QED BY <2>1, ShrinkOwner DEF Without
<1>3. CASE SweepBegin \/ PoolRefresh \/ \E r \in Id : WipeBoots(r)
  BY <1>0, <1>3 DEF SweepBegin, PoolRefresh, WipeBoots
<1>4. CASE \E r \in Id : SweepJudge(r)
  <2>1. /\ \A d \in Device : table'[d] \in {table[d], NoId}
        /\ Keep(lease)
    BY <1>4 DEF SweepJudge, Without, IInv, TypeOK
  <2> QED BY <2>1, ShrinkOwner
<1>5. CASE \E r \in Id : EraseAnswers(r)
  BY <1>5, EraseOwner
<1>6. CASE World
  <2>1. CASE (\E d \in Device : StopLands(d)) \/ (\E a \in Agent : AgentDies(a))
    BY <1>0, <2>1 DEF StopLands, AgentDies
  <2>2. CASE Restart(FALSE) \/ Restart(TRUE)
    BY <2>2, RestartOwner
  <2> QED BY <1>6, <2>1, <2>2 DEF World
<1>7. CASE UNCHANGED vars
  BY <1>0, <1>7 DEF vars
<1> QED BY <1>1, <1>2, <1>3, <1>4, <1>5, <1>6, <1>7 DEF Next, Timer

LEMMA StepAlive == IInv /\ [Next]_vars => NoRevival
PROOF
<1> SUFFICES ASSUME IInv, [Next]_vars PROVE NoRevival
  OBVIOUS
<1>1. alive' = alive \/ \E a \in Agent : alive' = [alive EXCEPT ![a] = FALSE]
  <2>1. CASE \E c \in Call : Handler(c)
    BY ZenonT(40), <2>1 DEF Handler, RequestArrives, ClaimArrives, ChangeArrives, BrokenArrives, Gate,
         Enumerate, Choose, Boot, BootAnswers, DropFailed, FreeOld, RestoreOld, world
  <2>2. CASE OneStep
    BY <2>2 DEF OneStep, Release, Exit, Kill, Repaired, world
  <2>3. CASE Timer
    BY <2>3 DEF Timer, Reap, SweepBegin, SweepJudge, PoolRefresh, WipeBoots, EraseAnswers, world
  <2>4. CASE World
    BY <2>4 DEF World, StopLands, AgentDies, Restart
  <2>5. CASE UNCHANGED vars
    BY <2>5 DEF vars
  <2> QED BY <2>1, <2>2, <2>3, <2>4, <2>5 DEF Next
<1> QED BY <1>1 DEF NoRevival, IInv, TypeOK

LEMMA HolderTyped ==
  ASSUME IInv
  PROVE  Holder \in [Device -> Agent \cup {"free", "quarantine"}]
PROOF
<1>1. \A d \in Device : Leased(d) => At(d).owner \in Agent \cup {NoAgent}
  BY ConstantsAssumption DEF IInv, TypeOK, Records, Leased, At, Lease
<1> QED BY <1>1 DEF Holder

\* The daemon implements the abstract lease service: a device changes hands
\* only by way of "free", also across restarts, changes put back and claims
\* by name (daemon.js selectDevice, reserve, restoreOld, rehydrateLeases).
THEOREM Implements == Spec => ImplementsLeaseService
PROOF
<1>1. Init => IInv /\ Service!Init
  BY InitInv DEF Init, Service!Init, Holder, Leased
<1>2. IInv /\ [Next]_vars => IInv'
  BY NextInv
<1>3. IInv /\ IInv' /\ [Next]_vars => [Service!Next]_(Service!vars)
  <2> SUFFICES ASSUME IInv, IInv', [Next]_vars PROVE Service!Next
    OBVIOUS
  <2>1. OwnerStep /\ NoRevival
    BY StepOwner, StepAlive
  <2>2. Holder' \in [Device -> Agent \cup {"free", "quarantine"}]
    <3>1. \A d \in Device : table'[d] # NoId => lease'[table'[d]].owner \in Agent \cup {NoAgent}
      BY ConstantsAssumption DEF IInv, TypeOK, Records, Leased, Lease
    <3> QED BY <3>1 DEF Holder, Leased, At
  <2>3. \A d \in Device : Service!Legal(Holder[d], Holder'[d])
    <3> SUFFICES ASSUME NEW d \in Device PROVE Service!Legal(Holder[d], Holder'[d])
      OBVIOUS
    <3>1. Holder[d] \in Agent \cup {"free", "quarantine"}
      BY HolderTyped
    <3>2. Holder'[d] \in Agent \cup {"free", "quarantine"}
      BY <2>2
    <3>3. CASE table[d] = NoId
      <4>1. Holder[d] = "free"
        BY <3>3 DEF Holder, Leased
      <4> QED BY <3>2, <4>1 DEF Service!Legal
    <3>4. CASE table'[d] = NoId
      <4>1. Holder'[d] = "free"
        BY <3>4 DEF Holder, Leased
      <4> QED BY <3>1, <4>1 DEF Service!Legal
    <3>5. CASE table[d] # NoId /\ table'[d] # NoId
      <4>1. lease'[table'[d]].owner \in {lease[table[d]].owner, NoAgent}
        BY <2>1, <3>5 DEF OwnerStep
      <4>2. Holder'[d] \in {Holder[d], "quarantine"}
        BY <3>5, <4>1 DEF Holder, Leased, At
      <4>3. CASE Holder'[d] = Holder[d]
        BY <4>3 DEF Service!Legal
      <4>4. CASE Holder'[d] # Holder[d]
        <5>1. Holder'[d] = "quarantine" /\ Holder[d] # "quarantine"
          BY <4>2, <4>4
        <5> QED BY <3>1, <5>1 DEF Service!Legal
      <4> QED BY <4>3, <4>4
    <3> QED BY <3>3, <3>4, <3>5
  <2>4. alive' \in [Agent -> BOOLEAN]
    BY DEF IInv, TypeOK
  <2> QED BY <2>1, <2>2, <2>3, <2>4 DEF Service!Next, NoRevival
<1> QED BY <1>1, <1>2, <1>3, PTL DEF Spec, ImplementsLeaseService, Service!Spec

----------------------------------------------------------------------------
(* The quota *)

\* Between the gate and the reservation there is room for one more lease.
Between == {"listing", "choosing"}
RoomLeft == \A c \in Call : call[c].pc \in Between => Cardinality(Active) < Quota

LEMMA RefusedPc ==
  ASSUME NEW c \in Call
  PROVE  Refused(c).pc \in {"restoring", "idle"}
BY DEF Refused, Idle

\* Who is between the gate and the reservation came through the gate, and who
\* leaves for the boot has chosen.
LEMMA StepCalls ==
  ASSUME IInv, [Next]_vars, NEW c \in Call
  PROVE  /\ call'[c].pc \in Between => call[c].pc \in Between \/ Gate(c)
         /\ call[c].pc = "choosing" /\ call'[c].pc = "booting" => Choose(c)
PROOF
<1> DEFINE Said == /\ call'[c].pc \in Between => call[c].pc \in Between \/ Gate(c)
                   /\ call[c].pc = "choosing" /\ call'[c].pc = "booting" => Choose(c)
<1>0. call \in [Call -> CallRecord]
  BY DEF IInv, TypeOK
<1>1. ASSUME call' = call PROVE Said
  BY <1>1
<1>2. CASE \E x \in Call : Handler(x)
  <2>1. PICK x \in Call : Handler(x)
    BY <1>2
  <2>2. CASE x # c
    <3>1. \E v : call' = [call EXCEPT ![x] = v]
      <4>1. CASE \/ \E a \in Agent, want \in Requirements : RequestArrives(x, a, want)
                 \/ \E a \in Agent, d \in Device : ClaimArrives(x, a, d)
        BY <4>1 DEF RequestArrives, ClaimArrives, Arrive
      <4>2. CASE \/ \E a \in Agent, want \in Requirements : \E id \in Named(a) : ChangeArrives(x, a, id, want)
                 \/ \E a \in Agent, want \in Requirements : \E id \in Named(a) : BrokenArrives(x, a, id, want)
        BY <4>2 DEF ChangeArrives, BrokenArrives, Arrive
      <4>3. CASE Gate(x)
        <5>1. \/ call' = [call EXCEPT ![x] = Refused(x)]
              \/ call' = [call EXCEPT ![x] = [call[x] EXCEPT !.pc = "listing"]]
          BY <4>3 DEF Gate
        <5> QED BY <5>1
      <4>4. CASE Enumerate(x)
        BY <4>4 DEF Enumerate
      <4>5. CASE Choose(x)
        BY <4>5 DEF Choose
      <4>6. CASE Boot(x) \/ BootAnswers(x) \/ DropFailed(x)
        BY <4>6 DEF Boot, BootAnswers, ReleasedMidBoot, BootFailed, Granted, DropFailed
      <4>7. CASE FreeOld(x) \/ RestoreOld(x)
        BY <4>7 DEF FreeOld, RestoreOld
      <4> QED BY <2>1, <4>1, <4>2, <4>3, <4>4, <4>5, <4>6, <4>7 DEF Handler
    <3> QED BY <1>0, <1>1, <2>2, <3>1
  <2>3. CASE x = c
    <3>a. ASSUME call[c].pc # "choosing", \E v : call' = [call EXCEPT ![c] = v] /\ v.pc \notin Between
          PROVE  Said
      BY <1>0, <3>a
    <3>1. CASE \/ \E a \in Agent, want \in Requirements : RequestArrives(c, a, want)
               \/ \E a \in Agent, d \in Device : ClaimArrives(c, a, d)
      <4>a. \A a, w, d : /\ [Idle EXCEPT !.pc = "queued", !.owner = a, !.want = w].pc = "queued"
                         /\ [Idle EXCEPT !.pc = "queued", !.owner = a, !.target = d].pc = "queued"
        BY DEF Idle
      <4>b. \E v : Arrive(c, v) /\ v.pc = "queued"
        <5>1. CASE \E a \in Agent, w \in Requirements :
                     Arrive(c, [Idle EXCEPT !.pc = "queued", !.owner = a, !.want = w])
          BY <4>a, <5>1, ZenonT(20)
        <5>2. CASE \E a \in Agent, d \in Device :
                     Arrive(c, [Idle EXCEPT !.pc = "queued", !.owner = a, !.target = d])
          BY <4>a, <5>2, Zenon
        <5> QED BY <3>1, <5>1, <5>2 DEF RequestArrives, ClaimArrives
      <4>1. \E v : call[c] = Idle /\ call' = [call EXCEPT ![c] = v] /\ v.pc = "queued"
        BY <4>b DEF Arrive
      <4>2. Idle.pc # "choosing"
        BY DEF Idle
      <4> QED BY <3>a, <4>1, <4>2 DEF Between
    <3>2. CASE \/ \E a \in Agent, want \in Requirements : \E id \in Named(a) : ChangeArrives(c, a, id, want)
               \/ \E a \in Agent, want \in Requirements : \E id \in Named(a) : BrokenArrives(c, a, id, want)
      <4>b. \E v : Arrive(c, v) /\ v.pc \in {"queued", "freeing"}
        <5>1. CASE \E a, w, o, t : Arrive(c, [Idle EXCEPT !.pc = "freeing", !.op = "change", !.owner = a,
                                                          !.want = w, !.old = o, !.target = t])
          <6>1. PICK a, w, o, t : Arrive(c, [Idle EXCEPT !.pc = "freeing", !.op = "change", !.owner = a,
                                                          !.want = w, !.old = o, !.target = t])
            BY <5>1
          <6> DEFINE v == [Idle EXCEPT !.pc = "freeing", !.op = "change", !.owner = a,
                                       !.want = w, !.old = o, !.target = t]
          <6>2. v.pc = "freeing"
            BY DEF Idle
          <6>3. Arrive(c, v)
            BY <6>1
          <6> HIDE DEF v
          <6> QED BY <6>2, <6>3
        <5>2. CASE \E a, w, o : Arrive(c, [Idle EXCEPT !.pc = "queued", !.op = "broken", !.owner = a,
                                                       !.want = w, !.old = o])
          <6>1. PICK a, w, o : Arrive(c, [Idle EXCEPT !.pc = "queued", !.op = "broken", !.owner = a,
                                                       !.want = w, !.old = o])
            BY <5>2
          <6> DEFINE v == [Idle EXCEPT !.pc = "queued", !.op = "broken", !.owner = a,
                                       !.want = w, !.old = o]
          <6>2. v.pc = "queued"
            BY DEF Idle
          <6>3. Arrive(c, v)
            BY <6>1
          <6> HIDE DEF v
          <6> QED BY <6>2, <6>3
        <5>3. \A a, w, id : ChangeArrives(c, a, id, w) =>
                \E o, t : Arrive(c, [Idle EXCEPT !.pc = "freeing", !.op = "change", !.owner = a,
                                                 !.want = w, !.old = o, !.target = t])
          BY Zenon DEF ChangeArrives
        <5>4. \A a, w, id : BrokenArrives(c, a, id, w) =>
                \E o : Arrive(c, [Idle EXCEPT !.pc = "queued", !.op = "broken", !.owner = a,
                                              !.want = w, !.old = o])
          BY Zenon DEF BrokenArrives
        <5> QED BY <3>2, <5>1, <5>2, <5>3, <5>4, ZenonT(20)
      <4>1. \E v : call[c] = Idle /\ call' = [call EXCEPT ![c] = v] /\ v.pc \in {"queued", "freeing"}
        BY <4>b DEF Arrive
      <4>2. Idle.pc # "choosing"
        BY DEF Idle
      <4> QED BY <3>a, <4>1, <4>2 DEF Between
    <3>3. CASE Gate(c)
      <4>1. call[c].pc = "queued"
        BY <3>3 DEF Gate
      <4> QED BY <3>3, <4>1
    <3>4. CASE Enumerate(c)
      <4>1. call[c].pc = "listing" /\ \E v : call' = [call EXCEPT ![c] = v]
        BY <3>4 DEF Enumerate
      <4> QED BY <4>1 DEF Between
    <3>5. CASE Choose(c)
      <4>1. call[c].pc = "choosing"
        BY <3>5 DEF Choose
      <4> QED BY <3>5, <4>1 DEF Between
    <3>6. CASE Boot(c) \/ DropFailed(c)
      <4>1. \E v : call[c].pc \in {"booting", "failed"} /\ call' = [call EXCEPT ![c] = v]
                   /\ v.pc \in {"waiting", "restoring", "idle"}
        BY <1>0, <3>6, RefusedPc DEF Boot, DropFailed, CallRecord
      <4> QED BY <3>a, <4>1 DEF Between
    <3>7. CASE BootAnswers(c)
      <4>1. \E v : call[c].pc = "waiting" /\ call' = [call EXCEPT ![c] = v]
                   /\ (v = Refused(c) \/ v = Idle \/ v.pc = "failed")
        BY <1>0, <3>7 DEF BootAnswers, ReleasedMidBoot, BootFailed, Granted, CallRecord
      <4>2. Idle.pc = "idle"
        BY DEF Idle
      <4> QED BY <3>a, <4>1, <4>2, RefusedPc DEF Between
    <3>8. CASE FreeOld(c) \/ RestoreOld(c)
      <4>1. \E v : call[c].pc \in {"freeing", "restoring"} /\ call' = [call EXCEPT ![c] = v]
                   /\ (v.pc = "queued" \/ v = Idle)
        BY <1>0, <3>8 DEF FreeOld, RestoreOld, CallRecord
      <4>2. Idle.pc = "idle"
        BY DEF Idle
      <4> QED BY <3>a, <4>1, <4>2 DEF Between
    <3> QED BY <2>1, <2>3, <3>1, <3>2, <3>3, <3>4, <3>5, <3>6, <3>7, <3>8 DEF Handler
  <2> QED BY <2>2, <2>3
<1>3. CASE OneStep
  BY <1>1, <1>3 DEF OneStep, Release, Exit, Releases, Kill, Repaired
<1>4. CASE Timer
  BY <1>1, <1>4 DEF Timer, Reap, SweepBegin, SweepJudge, PoolRefresh, WipeBoots, EraseAnswers
<1>5. CASE World
  <2>1. CASE (\E d \in Device : StopLands(d)) \/ (\E a \in Agent : AgentDies(a))
    BY <1>1, <2>1 DEF StopLands, AgentDies
  <2>2. CASE Restart(FALSE) \/ Restart(TRUE)
    BY <2>2 DEF Restart, Idle, Between
  <2> QED BY <1>5, <2>1, <2>2 DEF World
<1>6. CASE UNCHANGED vars
  BY <1>1, <1>6 DEF vars
<1> QED BY <1>2, <1>3, <1>4, <1>5, <1>6 DEF Next

\* A step adds a lease only when it leaves nobody between the gate and the
\* reservation.
LEMMA StepAdds ==
  ASSUME IInv, [Next]_vars
  PROVE  \/ \A d \in Device : table'[d] # NoId => table[d] # NoId
         \/ \A c \in Call : call'[c].pc \notin Between
PROOF
<1> DEFINE Shrinks == \A d \in Device : table'[d] # NoId => table[d] # NoId
           Clear == \A c \in Call : call'[c].pc \notin Between
<1>0. call \in [Call -> CallRecord] /\ table \in [Device -> Id \cup {NoId}]
  BY DEF IInv, TypeOK
<1>1. ASSUME table' = table PROVE Shrinks
  BY <1>1
<1>2. ASSUME \E Some : table' = Without(Some) PROVE Shrinks
  BY <1>0, <1>2 DEF Without
<1>3. CASE \E x \in Call : Handler(x)
  <2>1. PICK x \in Call : Handler(x)
    BY <1>3
  <2>2. CASE \/ \E a \in Agent, want \in Requirements : RequestArrives(x, a, want)
             \/ \E a \in Agent, d \in Device : ClaimArrives(x, a, d)
             \/ \E a \in Agent, want \in Requirements : \E id \in Named(a) : ChangeArrives(x, a, id, want)
    BY <1>1, <2>2 DEF RequestArrives, ClaimArrives, ChangeArrives
  <2>3. CASE \E a \in Agent, want \in Requirements : \E id \in Named(a) : BrokenArrives(x, a, id, want)
    BY <1>1, <2>3 DEF BrokenArrives
  <2>4. CASE Gate(x) \/ FreeOld(x)
    BY <1>2, <2>4 DEF Gate, FreeOld
  <2>5. CASE Enumerate(x) \/ Boot(x) \/ BootAnswers(x)
    BY <1>1, <2>5 DEF Enumerate, Boot, BootAnswers
  <2>6. CASE DropFailed(x)
    BY <1>0, <2>6 DEF DropFailed
  <2>7. CASE Choose(x)
    <3>1. call'[x].pc \notin Between /\ \A c \in Call \ {x} : call'[c] = call[c]
      <4>1. \E v : call' = [call EXCEPT ![x] = v] /\ v.pc \in {"booting", "restoring", "idle"}
        <5>1. CASE call' = [call EXCEPT ![x] = Refused(x)]
          BY <5>1, RefusedPc
        <5>2. CASE \E r : call' = [call EXCEPT ![x].pc = "booting", ![x].rec = r, ![x].seen = {}, ![x].want = {}]
          <6>1. PICK r : call' = [call EXCEPT ![x].pc = "booting", ![x].rec = r, ![x].seen = {}, ![x].want = {}]
            BY <5>2
          <6> DEFINE v == [call[x] EXCEPT !.pc = "booting", !.rec = r, !.seen = {}, !.want = {}]
          <6>2. v.pc = "booting"
            BY <1>0 DEF CallRecord
          <6>3. call' = [call EXCEPT ![x] = v]
            BY <1>0, <6>1
          <6> QED BY <6>2, <6>3
        <5> QED BY <2>7, <5>1, <5>2, Zenon DEF Choose
      <4> QED BY <1>0, <4>1 DEF Between
    <3>2. \A c \in Call \ {x} : call[c].pc \notin Between
      BY <2>7 DEF IInv, LockHeld, Choose, Between
    <3> QED BY <3>1, <3>2
  <2>8. CASE RestoreOld(x)
    <3>1. call'[x].pc \notin Between /\ \A c \in Call \ {x} : call'[c] = call[c]
      BY <1>0, <2>8 DEF RestoreOld, Idle, Between
    <3>2. \A c \in Call : call[c].pc \notin Between
      BY <2>8, ConstantsAssumption DEF IInv, LockHeld, RestoreOld, Between
    <3> QED BY <3>1, <3>2
  <2> QED BY <2>1, <2>2, <2>3, <2>4, <2>5, <2>6, <2>7, <2>8 DEF Handler
<1>4. CASE OneStep
  BY <1>2, <1>4 DEF OneStep, Release, Exit, Releases, Kill, Repaired
<1>5. CASE Timer
  <2>1. CASE \E r \in Id : SweepJudge(r)
    BY <1>1, <1>2, <2>1 DEF SweepJudge
  <2>2. CASE Timer /\ ~\E r \in Id : SweepJudge(r)
    BY <1>1, <1>2, <2>2 DEF Timer, Reap, SweepBegin, PoolRefresh, WipeBoots, EraseAnswers
  <2> QED BY <1>5, <2>1, <2>2
<1>6. CASE World
  <2>1. CASE (\E d \in Device : StopLands(d)) \/ (\E a \in Agent : AgentDies(a))
    BY <1>1, <2>1 DEF StopLands, AgentDies
  <2>2. CASE Restart(FALSE) \/ Restart(TRUE)
    BY <2>2 DEF Restart, Idle, Between
  <2> QED BY <1>6, <2>1, <2>2 DEF World
<1>7. CASE UNCHANGED vars
  BY <1>1, <1>7 DEF vars
<1> QED BY <1>3, <1>4, <1>5, <1>6, <1>7 DEF Next

LEMMA ActiveCounted ==
  ASSUME NEW Some, NEW T, T \subseteq Device, Some \subseteq T
  PROVE  /\ Cardinality(Some) \in Nat /\ Cardinality(T) \in Nat
         /\ Cardinality(Some) <= Cardinality(T)
         /\ \A d \in Device : Cardinality(T \cup {d}) <= Cardinality(T) + 1
PROOF
<1>1. IsFiniteSet(T)
  BY DevicesFinite, FS_Subset
<1>2. IsFiniteSet(Some) /\ Cardinality(Some) <= Cardinality(T)
  BY <1>1, FS_Subset
<1>3. Cardinality(Some) \in Nat /\ Cardinality(T) \in Nat
  BY <1>1, <1>2, FS_CardinalityType
<1>4. ASSUME NEW d \in Device PROVE Cardinality(T \cup {d}) <= Cardinality(T) + 1
  <2>1. Cardinality(T \cup {d}) = IF d \in T THEN Cardinality(T) ELSE Cardinality(T) + 1
    BY <1>1, FS_AddElement
  <2> QED BY <1>3, <2>1
<1> QED BY <1>2, <1>3, <1>4

\* What is active after a step was active before, or is a new lease.
LEMMA ActiveNext ==
  ASSUME IInv, [Next]_vars, NEW Devs, \A d \in Device \ Devs : table'[d] # NoId => table[d] # NoId
  PROVE  Active' \subseteq Active \cup Devs
PROOF
<1>1. OwnerStep
  BY StepOwner
<1> QED BY <1>1 DEF OwnerStep, Active, Leased, At

LEMMA RoomNext == IInv /\ RoomLeft /\ [Next]_vars => RoomLeft'
PROOF
<1> SUFFICES ASSUME IInv, RoomLeft, [Next]_vars, NEW c \in Call, call'[c].pc \in Between
             PROVE  Cardinality(Active') < Quota
  BY DEF RoomLeft
<1>1. \A d \in Device : table'[d] # NoId => table[d] # NoId
  BY StepAdds
<1>2. Active' \subseteq Active /\ Active \subseteq Device
  <2>1. Active' \subseteq Active \cup {}
    BY <1>1, ActiveNext
  <2> QED BY <2>1 DEF Active
<1>3. CASE call[c].pc \in Between
  BY <1>2, <1>3, ActiveCounted, ConstantsAssumption DEF RoomLeft
<1>4. CASE Gate(c)
  <2>1. PICK gone \in SUBSET Reapable : table' = Without(gone) /\ ~Full(gone)
    <3>1. Refused(c).pc \in {"restoring", "idle"} /\ call \in [Call -> CallRecord]
      BY RefusedPc DEF IInv, TypeOK
    <3> QED BY <1>4, <3>1 DEF Gate, Between
  <2>2. Active' \subseteq Active \ gone
    BY <1>2, <2>1 DEF Without, Active, Leased
  <2>3. Active \ gone \subseteq Device
    BY <1>2
  <2> QED BY <2>1, <2>2, <2>3, ActiveCounted, ConstantsAssumption DEF Full
<1> QED BY <1>3, <1>4, StepCalls

\* A lease is admitted only where the quota has room for it: nothing adds a
\* lease while the CLIs are asked (daemon.js handleRequest, restoreOld,
\* withLock).
THEOREM QuotaKept == Spec => AdmitUnderQuota
PROOF
<1>1. Init => IInv /\ RoomLeft
  BY InitInv DEF Init, RoomLeft, Idle, Between
<1>2. IInv /\ RoomLeft /\ [Next]_vars => IInv' /\ RoomLeft'
  BY NextInv, RoomNext
<1>3. IInv /\ RoomLeft /\ [Next]_vars =>
        \A c \in Call : (call[c].pc = "choosing" /\ call'[c].pc = "booting") => Cardinality(Active') <= Quota
  <2> SUFFICES ASSUME IInv, RoomLeft, [Next]_vars, NEW c \in Call,
                      call[c].pc = "choosing", call'[c].pc = "booting"
               PROVE  Cardinality(Active') <= Quota
    OBVIOUS
  <2>1. Choose(c)
    BY StepCalls
  <2>2. PICK d \in Device : \A e \in Device \ {d} : table'[e] = table[e]
    <3>0. call[c].pc # "booting" /\ call \in [Call -> CallRecord]
      BY DEF IInv, TypeOK
    <3>1. \/ UNCHANGED table /\ call' = [call EXCEPT ![c] = Refused(c)]
          \/ \E d \in Candidates(c) : \E r : table' = [table EXCEPT ![d] = r]
      <4>1. CASE UNCHANGED <<table, saved>> /\ call' = [call EXCEPT ![c] = Refused(c)]
        BY <4>1
      <4>2. CASE \E d \in Candidates(c) : table' = [table EXCEPT ![d] = <<d, CHOOSE s \in Fresh(d) : TRUE>>]
        BY <4>2, Zenon
      <4> QED BY <2>1, <4>1, <4>2 DEF Choose
    <3>2. Candidates(c) \subseteq Device
      BY DEF Candidates, Preferred, Matches, Claimable, IInv, TypeOK, CallRecord
    <3>3. ~(call' = [call EXCEPT ![c] = Refused(c)])
      BY <3>0, RefusedPc
    <3> QED BY <3>1, <3>2, <3>3 DEF IInv, TypeOK
  <2>3. Active' \subseteq Active \cup {d}
    BY <2>2, ActiveNext
  <2>4. Active \subseteq Device /\ Active \cup {d} \subseteq Device
    BY DEF Active
  <2>5. Cardinality(Active) < Quota
    BY DEF RoomLeft, Between
  <2>6. Cardinality(Active) \in Nat /\ Cardinality(Active \cup {d}) <= Cardinality(Active) + 1
    BY <2>4, ActiveCounted
  <2>7. /\ Cardinality(Active') \in Nat /\ Cardinality(Active \cup {d}) \in Nat
        /\ Cardinality(Active') <= Cardinality(Active \cup {d})
    BY <2>3, <2>4, ActiveCounted
  <2> QED BY <2>5, <2>6, <2>7, ConstantsAssumption
<1> QED BY <1>1, <1>2, <1>3, PTL DEF Spec, AdmitUnderQuota
----------------------------------------------------------------------------
(* What an agent was told is its own *)

\* The sessions make one tool call at a time, and no daemon restarts where a
\* device may be changed: the address of a lease that was booting is lost with
\* the daemon, and the next change of its owner then frees all it owns.
Orderly == Sequential /\ ("change" \notin Traffic \/ Traffic \cap {"crash", "sigterm"} = {})

Busy == {"booting", "waiting", "failed"}

\* The dead own nothing.
Mourned == \A a \in Agent : ~alive[a] => told[a] = {}

\* What is quarantined, or being erased, has no owner; on disk neither.
Ownerless ==
  /\ \A r \in Id : lease[r] # NoLease /\ lease[r].status = "repairing" => lease[r].owner = NoAgent
  /\ \A r \in erasing : lease[r] # NoLease /\ lease[r].owner = NoAgent
  /\ \A d \in Device : saved[d] # NoLease /\ saved[d].status = "repairing" => saved[d].owner = NoAgent

OneCall == \A c, x \in Call : c # x /\ call[c].owner = call[x].owner => call[c].owner = NoAgent

\* A lease that boots is its call's, and nobody was told of it yet.
Booting ==
  \A c \in Call : call[c].pc \in Busy =>
    /\ lease[call[c].rec].owner = call[c].owner
    /\ \A d \in Device, a \in Agent : table[d] = call[c].rec => d \notin told[a]

\* A change gives up a lease of its own, whose address is known.
Changing ==
  \A c \in Call :
    /\ call[c].op = "change" =>
         /\ "change" \in Traffic
         /\ lease[call[c].old].owner = call[c].owner /\ lease[call[c].old].handle
         /\ call[c].pc = "freeing" => /\ call[c].target = lease[call[c].old].dev
                                      /\ call[c].target \notin told[call[c].owner]
         /\ call[c].pc \in Busy => call[c].rec # call[c].old
    /\ call[c].pc \in {"freeing", "restoring"} => call[c].op = "change"

\* Only a lease that boots has no address, where devices may be changed.
Addressed ==
  "change" \in Traffic =>
    \A d \in Device : (Leased(d) /\ At(d).owner # NoAgent /\ ~At(d).handle) =>
      \E c \in Call : call[c].pc \in Busy /\ call[c].rec = table[d]

ToldInv == ToldIsHeld /\ Mourned /\ Ownerless /\ OneCall /\ Booting /\ Changing /\ Addressed

\* A call in state u goes on to v, or ends.
Moved(u, v) ==
  \/ v = Idle
  \/ /\ v.owner = u.owner /\ v.op = u.op /\ v.old = u.old
     /\ v.pc \in Busy => u.pc \in Busy /\ v.rec = u.rec
     /\ v.pc = "freeing" => u.pc = "freeing" /\ v.target = u.target
     /\ v.pc \in {"freeing", "restoring"} => u.op = "change"

LEMMA MoveOne ==
  ASSUME IInv, ToldInv, NEW c \in Call, NEW v, Moved(call[c], v),
         call' = [call EXCEPT ![c] = v]
  PROVE  \A x \in Call : Moved(call[x], call'[x])
PROOF
<1>1. call'[c] = v /\ \A x \in Call \ {c} : call'[x] = call[x]
  BY DEF IInv, TypeOK
<1>2. \A x \in Call : Moved(call[x], call[x])
  BY DEF Moved, ToldInv, Changing
<1> QED BY <1>1, <1>2

LEMMA RefusedMoves ==
  ASSUME IInv, NEW c \in Call
  PROVE  Moved(call[c], Refused(c)) /\ Refused(c).pc \notin Busy
PROOF
<1>1. call[c] \in CallRecord
  BY DEF IInv, TypeOK
<1>2. CASE call[c].op = "change"
  <2> DEFINE v == [call[c] EXCEPT !.pc = "restoring", !.rec = NoId, !.seen = {}]
  <2>1. v.pc = "restoring" /\ v.owner = call[c].owner /\ v.op = call[c].op /\ v.old = call[c].old
    BY <1>1 DEF CallRecord
  <2>2. Refused(c) = v
    BY <1>2 DEF Refused
  <2> HIDE DEF v
  <2> QED BY <1>2, <2>1, <2>2 DEF Moved, Busy
<1>3. CASE call[c].op # "change"
  <2>1. Refused(c) = Idle /\ Idle.pc = "idle"
    BY <1>3 DEF Refused, Idle
  <2> QED BY <2>1 DEF Moved, Busy
<1> QED BY <1>2, <1>3

\* What the told know of a lease in the table.
LEMMA ToldLease ==
  ASSUME IInv, ToldInv, NEW a \in Agent, NEW d \in told[a]
  PROVE  /\ d \in Device /\ table[d] \in Id /\ table[d] # NoId /\ table[d][1] = d
         /\ lease[table[d]] \in Lease /\ lease[table[d]] # NoLease
         /\ lease[table[d]].owner = a /\ lease[table[d]].dev = d
         /\ alive[a]
PROOF
<1>1. d \in Device /\ Leased(d) /\ At(d).owner = a
  BY DEF IInv, TypeOK, ToldInv, ToldIsHeld
<1>2. table[d] \in Id /\ table[d] # NoId /\ lease[table[d]] # NoLease /\ table[d][1] = d
  BY <1>1 DEF IInv, TypeOK, Records, Leased
<1>3. alive[a]
  BY DEF ToldInv, Mourned
<1> QED BY <1>1, <1>2, <1>3, LiveRecord DEF At

\* What a call refers to is there.
LEMMA CallRefs ==
  ASSUME IInv, ToldInv, NEW c \in Call
  PROVE  /\ call[c].pc \in Busy => /\ call[c].rec \in Id /\ call[c].rec # NoId
                                   /\ lease[call[c].rec] # NoLease /\ call[c].owner \in Agent
         /\ call[c].op = "change" => /\ call[c].old \in Id /\ call[c].old # NoId
                                     /\ lease[call[c].old] # NoLease
         /\ call[c].owner # NoAgent => \A x \in Call : call[x].owner = call[c].owner => x = c
PROOF
<1>1. call[c] \in CallRecord
  BY DEF IInv, TypeOK
<1>2. call[c].pc \in Busy => call[c].rec # NoId /\ call[c].owner \in Agent
  BY DEF IInv, CallShape, Busy
<1>3. call[c].op = "change" => call[c].old # NoId
  BY DEF IInv, CallShape
<1>4. call[c].rec \in Id \cup {NoId} /\ call[c].old \in Id \cup {NoId}
  BY <1>1 DEF CallRecord
<1>5. call[c].owner # NoAgent => \A x \in Call : call[x].owner = call[c].owner => x = c
  BY DEF ToldInv, OneCall
<1> QED BY <1>2, <1>3, <1>4, <1>5 DEF IInv, RefsLive

\* No two calls boot one lease, and none boots the lease another gives up.
LEMMA RecsApart ==
  ASSUME IInv, ToldInv, NEW c \in Call, NEW x \in Call, c # x, call[x].pc \in Busy
  PROVE  /\ call[c].pc \in Busy => call[c].rec # call[x].rec
         /\ call[c].op = "change" => call[c].old # call[x].rec
PROOF
<1>1. lease[call[x].rec].owner = call[x].owner /\ call[x].owner # NoAgent
  BY CallRefs, ConstantsAssumption DEF ToldInv, Booting
<1>2. call[c].owner # call[x].owner
  BY <1>1, CallRefs
<1> QED BY <1>1, <1>2 DEF ToldInv, Booting, Changing

----------------------------------------------------------------------------
\* A step that frees leases and moves calls on; l is what it wrote.
LEMMA ToldStep ==
  ASSUME IInv, IInv', ToldInv, NEW l,
         \A q \in Id : /\ lease'[q] \in {l[q], NoLease}
                       /\ lease[q] = NoLease => l[q] = NoLease
                       /\ lease[q] # NoLease => /\ l[q].owner = lease[q].owner
                                                /\ l[q].status = "repairing" =>
                                                     lease[q].status = "repairing" \/ lease[q].owner = NoAgent,
         \A q \in erasing' : q \in erasing /\ lease'[q] = l[q] /\ l[q] # NoLease,
         \A q \in Id : lease[q] # NoLease /\ lease[q].handle /\ ~l[q].handle =>
                         \E c \in Call : call[c].pc \in Busy /\ call[c].rec = q,
         \A d \in Device : table'[d] \in {table[d], NoId},
         \A c \in Call : Moved(call[c], call'[c]),
         Publish \/ saved' = saved,
         \A a \in Agent : told'[a] \subseteq told[a] /\ (~alive'[a] => told'[a] = {}),
         \A d \in Device, a \in Agent : table[d] # NoId /\ table'[d] = NoId => d \notin told'[a],
         \A c \in Call : call[c].pc \in Busy /\ call'[c].pc \notin Busy =>
                           \A d \in Device : table'[d] # call[c].rec
  PROVE  ToldInv'
PROOF
<1>0. Idle.pc = "idle" /\ Idle.op = "request" /\ Idle.owner = NoAgent
  BY DEF Idle
<1>a. \A d \in Device : table'[d] # NoId => /\ table'[d] = table[d] /\ table[d] \in Id
                                            /\ lease'[table[d]] # NoLease /\ lease'[table[d]] = l[table[d]]
                                            /\ lease[table[d]] # NoLease
  <2> SUFFICES ASSUME NEW d \in Device, table'[d] # NoId
               PROVE  /\ table'[d] = table[d] /\ table[d] \in Id
                      /\ lease'[table[d]] # NoLease /\ lease'[table[d]] = l[table[d]]
                      /\ lease[table[d]] # NoLease
    OBVIOUS
  <2>1. table'[d] = table[d] /\ table[d] \in Id
    BY DEF IInv, TypeOK
  <2>2. lease'[table[d]] # NoLease
    BY <2>1 DEF IInv, Records, Leased
  <2> QED BY <2>1, <2>2
<1>1. ToldIsHeld'
  <2> SUFFICES ASSUME NEW a \in Agent, NEW d \in told'[a]
               PROVE  table'[d] # NoId /\ lease'[table'[d]].owner = a
    BY DEF ToldIsHeld, Leased, At
  <2>1. d \in told[a]
    OBVIOUS
  <2>2. d \in Device /\ table[d] # NoId /\ lease[table[d]].owner = a
    BY <2>1, ToldLease
  <2>3. table'[d] # NoId
    BY <2>2
  <2> QED BY <1>a, <2>2, <2>3
<1>2. Mourned'
  BY DEF Mourned
<1>3. Ownerless'
  <2>1. ASSUME NEW r \in Id, lease'[r] # NoLease, lease'[r].status = "repairing"
        PROVE  lease'[r].owner = NoAgent
    BY <2>1 DEF ToldInv, Ownerless
  <2>2. ASSUME NEW r \in erasing' PROVE lease'[r] # NoLease /\ lease'[r].owner = NoAgent
    <3>1. r \in Id /\ r \in erasing
      BY DEF IInv, TypeOK
    <3>2. lease[r] # NoLease /\ lease[r].owner = NoAgent
      BY <3>1 DEF ToldInv, Ownerless
    <3> QED BY <3>1, <3>2
  <2>3. ASSUME NEW d \in Device, saved'[d] # NoLease, saved'[d].status = "repairing"
        PROVE  saved'[d].owner = NoAgent
    <3>1. CASE saved' = saved
      BY <2>3, <3>1 DEF ToldInv, Ownerless
    <3>2. CASE Publish
      <4>1. table'[d] # NoId /\ saved'[d] = Rehydrated(lease'[table'[d]])
        BY <2>3, <3>2 DEF Publish
      <4>2. table[d] \in Id /\ table'[d] = table[d] /\ lease'[table[d]] # NoLease
        BY <1>a, <4>1
      <4>3. lease'[table[d]] \in Lease
        BY <4>2 DEF IInv, TypeOK
      <4>4. \A x \in Lease : Rehydrated(x).status = "repairing" =>
               x.status = "repairing" /\ Rehydrated(x).owner = x.owner
        BY DEF Rehydrated, Lease
      <4> QED BY <2>1, <2>3, <4>1, <4>2, <4>3, <4>4
    <3> QED BY <3>1, <3>2
  <2> QED BY <2>1, <2>2, <2>3 DEF Ownerless
<1>4. OneCall'
  BY <1>0 DEF ToldInv, OneCall, Moved
<1>5. Booting'
  <2> SUFFICES ASSUME NEW c \in Call, call'[c].pc \in Busy
               PROVE  /\ lease'[call'[c].rec].owner = call'[c].owner
                      /\ \A d \in Device, a \in Agent : table'[d] = call'[c].rec => d \notin told'[a]
    BY DEF Booting
  <2>1. /\ call[c].pc \in Busy /\ call'[c].rec = call[c].rec /\ call'[c].owner = call[c].owner
    BY <1>0 DEF Moved, Busy
  <2>2. call[c].rec \in Id /\ call[c].rec # NoId /\ lease[call[c].rec] # NoLease
    BY <2>1, CallRefs
  <2>3. lease'[call[c].rec] # NoLease
    BY <2>1, <2>2 DEF IInv, RefsLive
  <2>4. lease'[call[c].rec].owner = lease[call[c].rec].owner
    BY <2>2, <2>3
  <2>5. \A d \in Device : table'[d] = call[c].rec => table[d] = call[c].rec
    BY <2>2
  <2> QED BY <2>1, <2>4, <2>5 DEF ToldInv, Booting
<1>6. Changing'
  <2> SUFFICES ASSUME NEW c \in Call
               PROVE  /\ call'[c].op = "change" =>
                           /\ "change" \in Traffic
                           /\ lease'[call'[c].old].owner = call'[c].owner /\ lease'[call'[c].old].handle
                           /\ call'[c].pc = "freeing" => /\ call'[c].target = lease'[call'[c].old].dev
                                                         /\ call'[c].target \notin told'[call'[c].owner]
                           /\ call'[c].pc \in Busy => call'[c].rec # call'[c].old
                      /\ call'[c].pc \in {"freeing", "restoring"} => call'[c].op = "change"
    BY DEF Changing
  <2>1. CASE call'[c] = Idle
    BY <1>0, <2>1
  <2>2. CASE call'[c] # Idle
    <3>1. /\ call'[c].owner = call[c].owner /\ call'[c].op = call[c].op /\ call'[c].old = call[c].old
          /\ call'[c].pc \in Busy => call[c].pc \in Busy /\ call'[c].rec = call[c].rec
          /\ call'[c].pc = "freeing" => call[c].pc = "freeing" /\ call'[c].target = call[c].target
          /\ call'[c].pc \in {"freeing", "restoring"} => call[c].op = "change"
      BY <2>2 DEF Moved
    <3>2. ASSUME call[c].op = "change"
          PROVE  /\ lease'[call[c].old].owner = call[c].owner /\ lease'[call[c].old].handle
                 /\ lease'[call[c].old].dev = lease[call[c].old].dev
      <4> DEFINE q == call[c].old
      <4>1. q \in Id /\ q # NoId /\ lease[q] # NoLease
        BY <3>2, CallRefs
      <4>2. lease'[q] # NoLease
        BY <3>1, <4>1 DEF IInv, RefsLive
      <4>3. lease'[q] = l[q] /\ lease[q].owner = call[c].owner /\ lease[q].handle
        BY <3>2, <4>1, <4>2 DEF ToldInv, Changing
      <4>4. lease'[q].dev = q[1] /\ lease[q].dev = q[1]
        BY <4>1, <4>2 DEF IInv, Records
      <4>5. \A x \in Call : call[x].pc \in Busy => call[x].rec # q
        BY <3>2, RecsApart DEF ToldInv, Changing
      <4> QED BY <4>1, <4>3, <4>4, <4>5
    <3>3. call[c].op = "change" /\ call[c].pc = "freeing" => call[c].owner \in Agent
      BY DEF IInv, CallShape
    <3> QED BY <3>1, <3>2, <3>3 DEF ToldInv, Changing
  <2> QED BY <2>1, <2>2
<1>7. Addressed'
  <2> SUFFICES ASSUME "change" \in Traffic, NEW d \in Device, table'[d] # NoId,
                      lease'[table'[d]].owner # NoAgent, ~lease'[table'[d]].handle
               PROVE  \E c \in Call : call'[c].pc \in Busy /\ call'[c].rec = table'[d]
    BY DEF Addressed, Leased, At
  <2>1. /\ table'[d] = table[d] /\ table[d] \in Id /\ lease[table[d]] # NoLease
        /\ lease'[table[d]] = l[table[d]]
    BY <1>a
  <2>2. PICK c \in Call : call[c].pc \in Busy /\ call[c].rec = table[d]
    <3>1. CASE lease[table[d]].handle
      BY <2>1, <3>1
    <3>2. CASE ~lease[table[d]].handle
      BY <2>1, <3>2 DEF ToldInv, Addressed, Leased, At
    <3> QED BY <3>1, <3>2
  <2>3. call'[c].pc \in Busy
    BY <2>1, <2>2
  <2> QED BY <1>0, <2>1, <2>2, <2>3 DEF Moved, Busy
<1> QED BY <1>1, <1>2, <1>3, <1>4, <1>5, <1>6, <1>7 DEF ToldInv

\* The same, of a step that writes no lease.
LEMMA ToldShrink ==
  ASSUME IInv, IInv', ToldInv, Keep(lease) \/ lease' = lease, erasing' \subseteq erasing,
         \A d \in Device : table'[d] \in {table[d], NoId},
         \A c \in Call : Moved(call[c], call'[c]),
         Publish \/ saved' = saved,
         \A a \in Agent : told'[a] \subseteq told[a] /\ (~alive'[a] => told'[a] = {}),
         \A d \in Device, a \in Agent : table[d] # NoId /\ table'[d] = NoId => d \notin told'[a],
         \A c \in Call : call[c].pc \in Busy /\ call'[c].pc \notin Busy =>
                           \A d \in Device : table'[d] # call[c].rec
  PROVE  ToldInv'
PROOF
<1>1. \A q \in Id : /\ lease'[q] \in {lease[q], NoLease}
                    /\ q \in Refs' => lease'[q] = lease[q]
  BY DEF Keep
<1>2. \A q \in erasing' : q \in erasing /\ lease'[q] = lease[q] /\ lease[q] # NoLease
  <2>1. \A q \in erasing' : q \in erasing /\ q \in Id /\ q \in Refs'
    BY DEF Refs, IInv, TypeOK
  <2> QED BY <1>1, <2>1 DEF ToldInv, Ownerless
<1> QED BY <1>1, <1>2, ToldStep

\* One that leaves calls, owners and leases alone, but for what it frees.
LEMMA ToldFree ==
  ASSUME IInv, IInv', ToldInv, NEW Devs, table' = Without(Devs), Keep(lease) \/ lease' = lease,
         erasing' \subseteq erasing, call' = call, Publish \/ saved' = saved,
         \A a \in Agent : told'[a] \subseteq told[a] /\ (~alive'[a] => told'[a] = {}),
         \A d \in Devs, a \in Agent : d \notin told'[a]
  PROVE  ToldInv'
PROOF
<1>1. \A c \in Call : Moved(call[c], call'[c]) /\ (call[c].pc \in Busy => call'[c].pc \in Busy)
  BY DEF Moved, ToldInv, Changing
<1>2. \A d \in Device : table'[d] \in {table[d], NoId} /\ (table[d] # NoId /\ table'[d] = NoId => d \in Devs)
  BY DEF Without
<1> QED BY <1>1, <1>2, ToldShrink

\* A quarantine, and a lease whose owner died, are nobody's to be told.
LEMMA Untold ==
  ASSUME IInv, ToldInv, NEW d \in Device, NEW a \in Agent, d \in told[a]
  PROVE  d \notin Reapable /\ lease[table[d]].status # "repairing"
PROOF
<1>1. /\ table[d] \in Id /\ lease[table[d]] # NoLease /\ lease[table[d]].owner = a /\ alive[a]
  BY ToldLease
<1>2. lease[table[d]].status # "repairing"
  BY <1>1, ConstantsAssumption DEF ToldInv, Ownerless
<1> QED BY <1>1, <1>2 DEF Reapable, At

LEMMA ReleasesTold ==
  ASSUME IInv, IInv', ToldInv, NEW a \in Agent, NEW id, Releases(a, FindOwned(a, id)),
         alive' = alive \/ (id = NoDevice /\ alive' = [alive EXCEPT ![a] = FALSE])
  PROVE  ToldInv'
PROOF
<1> DEFINE Devs == FindOwned(a, id)
<1>1. \A d \in Devs : d \in Device /\ Leased(d) /\ At(d).owner = a
  BY DEF FindOwned
<1>2. told' = [told EXCEPT ![a] = @ \ Devs] /\ told \in [Agent -> SUBSET Device]
  BY DEF Releases, IInv, TypeOK
<1>3. \A d \in Devs, b \in Agent : d \notin told'[b]
  <2>1. \A d \in Devs, b \in Agent : d \in told[b] => b = a
    BY <1>1 DEF ToldInv, ToldIsHeld
  <2> QED BY <1>2, <2>1
<1>4. ASSUME NEW b \in Agent
      PROVE  told'[b] \subseteq told[b] /\ (~alive'[b] => told'[b] = {})
  <2>1. told'[b] \subseteq told[b]
    BY <1>2
  <2>2. ASSUME ~alive'[b] PROVE told'[b] = {}
    <3>1. CASE ~alive[b]
      BY <2>1, <3>1 DEF ToldInv, Mourned
    <3>2. CASE alive[b]
      <4>1. id = NoDevice /\ b = a
        BY <2>2, <3>2 DEF IInv, TypeOK
      <4>2. told[a] \subseteq Devs
        BY <4>1 DEF FindOwned, ToldInv, ToldIsHeld, IInv, TypeOK
      <4> QED BY <1>2, <4>1, <4>2
    <3> QED BY <3>1, <3>2
  <2> QED BY <2>1, <2>2
<1> HIDE DEF Devs
<1> QED BY <1>3, <1>4, ToldFree DEF Releases, Devs, loops

LEMMA OneStepTold ==
  ASSUME IInv, IInv', ToldInv, OneStep
  PROVE  ToldInv'
PROOF
<1>1. CASE \E a \in Agent : \E id \in Named(a) : Release(a, id)
  BY <1>1, ReleasesTold DEF Release
<1>2. CASE \E a \in Agent : Exit(a)
  BY <1>2, ReleasesTold DEF Exit
<1>3. ASSUME NEW d \in Device, Kill(d) PROVE ToldInv'
  <2>1. told' = [a \in Agent |-> told[a] \ {d}] /\ alive' = alive /\ call' = call /\ erasing' = erasing
        /\ table' = Without({d}) /\ Keep(lease) /\ Publish
    BY <1>3 DEF Kill, loops
  <2>2. \A a \in Agent : told'[a] \subseteq told[a] /\ (~alive'[a] => told'[a] = {})
    BY <2>1 DEF ToldInv, Mourned
  <2> QED BY <2>1, <2>2, ToldFree
<1>4. ASSUME NEW d \in Device, Repaired(d) PROVE ToldInv'
  <2>1. UNCHANGED <<told, alive, call, erasing>> /\ table' = Without({d}) /\ Keep(lease) /\ Publish
        /\ lease[table[d]].status = "repairing"
    BY <1>4 DEF Repaired, loops, world, At
  <2>2. \A a \in Agent : told'[a] \subseteq told[a] /\ (~alive'[a] => told'[a] = {})
    BY <2>1 DEF ToldInv, Mourned
  <2>3. \A a \in Agent : d \notin told'[a]
    BY <2>1, Untold
  <2> QED BY <2>1, <2>2, <2>3, ToldFree
<1> QED BY <1>1, <1>2, <1>3, <1>4 DEF OneStep

LEMMA TimerTold ==
  ASSUME IInv, IInv', ToldInv, Timer
  PROVE  ToldInv'
PROOF
<1>0. Without({}) = table /\ \A a \in Agent : ~alive[a] => told[a] = {}
  BY DEF Without, IInv, TypeOK, ToldInv, Mourned
<1>1. ASSUME NEW gone \in SUBSET Device, Reap(gone) PROVE ToldInv'
  <2>1. UNCHANGED <<told, alive, call, erasing>> /\ table' = Without(gone) /\ Keep(lease) /\ Publish
        /\ gone \subseteq Reapable
    BY <1>1 DEF Reap, loops
  <2>2. \A d \in gone, a \in Agent : d \notin told'[a]
    BY <2>1, Untold
  <2> QED BY <1>0, <2>1, <2>2, ToldFree
<1>2. CASE SweepBegin \/ PoolRefresh \/ \E r \in Id : WipeBoots(r)
  <2>1. UNCHANGED <<table, lease, call, erasing, told, alive>> /\ (Publish \/ saved' = saved)
    BY <1>2 DEF SweepBegin, PoolRefresh, WipeBoots, loops, world
  <2>2. table' = Without({})
    BY <1>0, <2>1
  <2> QED BY <1>0, <2>1, <2>2, ToldFree
<1>3. ASSUME NEW r \in Id, SweepJudge(r) PROVE ToldInv'
  <2>1. UNCHANGED <<call, erasing, alive>> /\ Keep(lease) /\ (Publish \/ saved' = saved)
    BY <1>3 DEF SweepJudge
  <2>2. CASE UNCHANGED <<table, stops, told>>
    <3>1. table' = Without({})
      BY <1>0, <2>2
    <3> QED BY <1>0, <2>1, <2>2, <3>1, ToldFree
  <2>3. CASE \E d : table' = Without({d}) /\ told' = [a \in Agent |-> told[a] \ {d}]
    <3>1. PICK d : table' = Without({d}) /\ told' = [a \in Agent |-> told[a] \ {d}]
      BY <2>3
    <3>2. \A a \in Agent : told'[a] \subseteq told[a] /\ (~alive'[a] => told'[a] = {})
      BY <1>0, <2>1, <3>1
    <3>3. \A e \in {d}, a \in Agent : e \notin told'[a]
      BY <3>1
    <3> QED BY <2>1, <3>1, <3>2, <3>3, ToldFree
  <2> QED BY <1>3, <2>2, <2>3 DEF SweepJudge
<1>4. ASSUME NEW r \in Id, EraseAnswers(r) PROVE ToldInv'
  <2>1. PICK ok \in BOOLEAN :
          /\ table' = Without({d \in Device : table[d] = r /\ ok})
          /\ Keep(IF Held(r) /\ ~ok THEN [lease EXCEPT ![r].status = "repairing"] ELSE lease)
    BY <1>4 DEF EraseAnswers
  <2>2. /\ UNCHANGED <<call, told, alive>> /\ (Publish \/ saved' = saved)
        /\ r \in erasing /\ erasing' \subseteq erasing
    BY <1>4 DEF EraseAnswers, world
  <2>3. \A d \in Device, a \in Agent : table[d] = r => d \notin told'[a]
    BY <2>2, ToldLease, ConstantsAssumption DEF ToldInv, Ownerless
  <2>4. CASE ~(Held(r) /\ ~ok)
    <3>1. Keep(lease)
      BY <2>1, <2>4
    <3> QED BY <1>0, <2>1, <2>2, <2>3, <3>1, ToldFree
  <2>5. CASE Held(r) /\ ~ok
    <3> DEFINE m == [lease[r] EXCEPT !.status = "repairing"]
               l == [q \in Id |-> IF q = r THEN m ELSE lease[q]]
    <3>1. lease[r] \in Lease /\ lease[r] # NoLease /\ lease[r].owner = NoAgent
      BY <2>2, LiveRecord DEF ToldInv, Ownerless
    <3>2. /\ m \in Lease /\ m.owner = lease[r].owner /\ m.handle = lease[r].handle
      BY <3>1, SetStatus DEF Status
    <3>3. Keep(l)
      <4>1. [lease EXCEPT ![r].status = "repairing"] = l
        BY DEF IInv, TypeOK
      <4> QED BY <2>1, <2>5, <4>1
    <3> HIDE DEF m
    <3>4. \A q \in Id : l[q] = IF q = r THEN m ELSE lease[q]
      OBVIOUS
    <3>5. m # NoLease
      BY <3>2, NoLeaseAssumption
    <3> HIDE DEF l
    <3>6. \A q \in Id : lease'[q] \in {l[q], NoLease} /\ (q \in Refs' => lease'[q] = l[q])
      BY <3>3 DEF Keep
    <3>7. \A q \in erasing' : q \in Id /\ q \in Refs' /\ lease[q] # NoLease
      BY <2>2 DEF IInv, TypeOK, Refs, ToldInv, Ownerless
    <3>8. \A q \in erasing' : q \in erasing /\ lease'[q] = l[q] /\ l[q] # NoLease
      BY <2>2, <3>4, <3>5, <3>6, <3>7
    <3>9. \A q \in Id : /\ lease'[q] \in {l[q], NoLease}
                        /\ lease[q] = NoLease => l[q] = NoLease
                        /\ lease[q] # NoLease => /\ l[q].owner = lease[q].owner
                                                 /\ l[q].status = "repairing" =>
                                                      lease[q].status = "repairing" \/ lease[q].owner = NoAgent
                        /\ lease[q].handle => l[q].handle
      BY <3>1, <3>2, <3>4, <3>6
    <3>10. \A d \in Device : table'[d] \in {table[d], NoId} /\ (table[d] # NoId => table'[d] # NoId)
      BY <2>1, <2>5 DEF Without
    <3>11. \A c \in Call : Moved(call[c], call'[c]) /\ (call[c].pc \in Busy => call'[c].pc \in Busy)
      BY <2>2 DEF Moved, ToldInv, Changing
    <3> QED BY <1>0, <2>2, <3>8, <3>9, <3>10, <3>11, ToldStep
  <2> QED BY <2>4, <2>5
<1> QED BY <1>1, <1>2, <1>3, <1>4 DEF Timer

LEMMA WorldTold ==
  ASSUME IInv, IInv', ToldInv, (\E d \in Device : StopLands(d)) \/ (\E a \in Agent : AgentDies(a))
  PROVE  ToldInv'
PROOF
<1>1. UNCHANGED <<table, lease, saved, call, erasing>>
  BY DEF StopLands, AgentDies, loops
<1>2. table' = Without({})
  BY <1>1 DEF Without, IInv, TypeOK
<1>3. \A a \in Agent : told'[a] \subseteq told[a] /\ (~alive'[a] => told'[a] = {})
  <2>1. CASE UNCHANGED <<told, alive>>
    BY <2>1 DEF ToldInv, Mourned
  <2>2. CASE \E b \in Agent : alive' = [alive EXCEPT ![b] = FALSE] /\ told' = [told EXCEPT ![b] = {}]
    BY <2>2 DEF ToldInv, Mourned, IInv, TypeOK
  <2> QED BY <2>1, <2>2 DEF StopLands, AgentDies
<1> QED BY <1>1, <1>2, <1>3, ToldFree

\* A daemon takes up all that its predecessor told anyone.
LEMMA RestartTold ==
  ASSUME IInv, IInv', ToldInv, NEW sigterm \in BOOLEAN, Restart(sigterm), "change" \notin Traffic
  PROVE  ToldInv'
PROOF
<1> DEFINE name(d) == <<d, CHOOSE s \in Slot : TRUE>>
<1>1. \A d \in Device : name(d) \in Id /\ name(d)[1] = d /\ name(d) # NoId
  <2>1. (CHOOSE s \in Slot : TRUE) \in Slot
    BY FreshSlot, ConstantsAssumption
  <2>2. \A s \in Slot, d \in Device : <<d, s>> \in Id /\ <<d, s>>[1] = d /\ <<d, s>> # NoId
    BY ConstantsAssumption DEF Id
  <2> QED BY <2>1, <2>2, Zenon
<1>2. /\ table' = [d \in Device |-> IF Rehydratable(d) THEN name(d) ELSE NoId]
      /\ lease' = [r \in Id |-> IF r = name(r[1]) /\ Rehydratable(r[1])
                                  THEN saved[r[1]] ELSE NoLease]
      /\ call' = [c \in Call |-> Idle]
      /\ erasing' = {} /\ UNCHANGED <<saved, alive, told>>
  BY DEF Restart
<1> HIDE DEF name
<1>3. ToldIsHeld'
  <2> SUFFICES ASSUME NEW a \in Agent, NEW d \in told[a]
               PROVE  table'[d] # NoId /\ lease'[table'[d]].owner = a
    BY <1>2 DEF ToldIsHeld, Leased, At
  <2>1. d \in Device /\ table[d] # NoId /\ lease[table[d]].owner = a /\ alive[a]
    BY ToldLease
  <2>2. saved[d] # NoLease /\ saved[d].owner = a
    BY <2>1 DEF IInv, SavedCoversTable, Leased, At
  <2>3. Rehydratable(d)
    BY <2>1, <2>2, ConstantsAssumption DEF Rehydratable
  <2> QED BY <1>1, <1>2, <2>1, <2>2, <2>3
<1>4. Mourned'
  BY <1>2 DEF ToldInv, Mourned
<1>5. Ownerless'
  <2>1. \A r \in Id : lease'[r] # NoLease => r[1] \in Device /\ lease'[r] = saved[r[1]]
    BY <1>2 DEF Id
  <2> QED BY <1>2, <2>1 DEF ToldInv, Ownerless
<1>6. \A c \in Call : call'[c].pc = "idle" /\ call'[c].op = "request" /\ call'[c].owner = NoAgent
  BY <1>2 DEF Idle
<1>7. OneCall' /\ Booting' /\ Changing' /\ Addressed'
  BY <1>6 DEF OneCall, Booting, Changing, Addressed, Busy
<1> QED BY <1>3, <1>4, <1>5, <1>7 DEF ToldInv

LEMMA GateTold ==
  ASSUME IInv, IInv', ToldInv, NEW c \in Call, Gate(c)
  PROVE  ToldInv'
PROOF
<1>1. PICK gone \in SUBSET Reapable : table' = Without(gone)
  BY DEF Gate
<1>2. /\ UNCHANGED <<told, alive, erasing>> /\ Keep(lease) /\ (Publish \/ saved' = saved)
      /\ call[c].pc = "queued"
  BY DEF Gate, loops
<1>3. \/ call' = [call EXCEPT ![c] = Refused(c)]
      \/ call' = [call EXCEPT ![c].pc = "listing"]
  BY DEF Gate
<1>4. \A x \in Call : Moved(call[x], call'[x])
  <2>1. CASE call' = [call EXCEPT ![c] = Refused(c)]
    BY <2>1, RefusedMoves, MoveOne
  <2>2. CASE call' = [call EXCEPT ![c].pc = "listing"]
    <3> DEFINE v == [call[c] EXCEPT !.pc = "listing"]
    <3>1. call[c] \in CallRecord
      BY DEF IInv, TypeOK
    <3>2. v.pc = "listing" /\ v.owner = call[c].owner /\ v.op = call[c].op /\ v.old = call[c].old
      BY <3>1 DEF CallRecord
    <3>3. call' = [call EXCEPT ![c] = v]
      BY <2>2
    <3> HIDE DEF v
    <3>4. Moved(call[c], v)
      BY <3>2 DEF Moved, Busy
    <3> QED BY <3>3, <3>4, MoveOne
  <2> QED BY <1>3, <2>1, <2>2
<1>5. \A x \in Call : call[x].pc \in Busy => call'[x].pc \in Busy
  BY <1>2, <1>3 DEF Busy, IInv, TypeOK
<1>6. \A d \in Device : table'[d] \in {table[d], NoId} /\ (table[d] # NoId /\ table'[d] = NoId => d \in gone)
  BY <1>1 DEF Without
<1>7. \A d \in gone, a \in Agent : d \notin told'[a]
  BY <1>2, Untold DEF Reapable
<1>8. \A a \in Agent : told'[a] \subseteq told[a] /\ (~alive'[a] => told'[a] = {})
  BY <1>2 DEF ToldInv, Mourned
<1> QED BY <1>2, <1>4, <1>5, <1>6, <1>7, <1>8, ToldShrink

\* The handlers that go on, or end without a device.
LEMMA OnTold ==
  ASSUME IInv, IInv', ToldInv, NEW c \in Call, NEW v, Moved(call[c], v),
         call' = [call EXCEPT ![c] = v],
         UNCHANGED <<told, alive, erasing>>, Keep(lease) \/ lease' = lease, Publish \/ saved' = saved,
         NEW Devs, table' = [d \in Device |-> IF d \in Devs THEN NoId ELSE table[d]],
         \A d \in Devs, a \in Agent : d \notin told[a],
         call[c].pc \in Busy /\ v.pc \notin Busy => \A d \in Device : table'[d] # call[c].rec
  PROVE  ToldInv'
PROOF
<1>1. \A x \in Call : Moved(call[x], call'[x])
  BY MoveOne
<1>2. call'[c] = v /\ \A x \in Call \ {c} : call'[x] = call[x]
  BY DEF IInv, TypeOK
<1>3. \A d \in Device : table'[d] \in {table[d], NoId} /\ (table[d] # NoId /\ table'[d] = NoId => d \in Devs)
  OBVIOUS
<1>4. \A a \in Agent : told'[a] \subseteq told[a] /\ (~alive'[a] => told'[a] = {})
  BY DEF ToldInv, Mourned
<1> QED BY <1>1, <1>2, <1>3, <1>4, ToldShrink

LEMMA QuietTold ==
  ASSUME IInv, IInv', ToldInv, NEW c \in Call, Enumerate(c) \/ Boot(c) \/ DropFailed(c) \/ FreeOld(c)
  PROVE  ToldInv'
PROOF
<1>0. call[c] \in CallRecord /\ Without({}) = table
  BY DEF IInv, TypeOK, Without
<1>1. CASE Enumerate(c)
  <2> DEFINE v == [call[c] EXCEPT !.pc = "choosing", !.seen = {d \in Device \ Vega : power[d] # "off"}]
  <2>1. /\ v.pc = "choosing" /\ v.owner = call[c].owner /\ v.op = call[c].op /\ v.old = call[c].old
        /\ call[c].pc = "listing"
    BY <1>0, <1>1 DEF CallRecord, Enumerate
  <2>2. call' = [call EXCEPT ![c] = v]
    BY <1>1 DEF Enumerate
  <2> HIDE DEF v
  <2>3. Moved(call[c], v) /\ call[c].pc \notin Busy
    BY <2>1 DEF Moved, Busy
  <2>4. UNCHANGED <<told, alive, erasing, lease, saved>> /\ table' = Without({})
    BY <1>0, <1>1 DEF Enumerate, loops, world
  <2> DEFINE Devs == {}
  <2>5. table' = [d \in Device |-> IF d \in Devs THEN NoId ELSE table[d]]
    BY <2>4 DEF Without
  <2>6. \A d \in Devs, a \in Agent : d \notin told[a]
    OBVIOUS
  <2>7. UNCHANGED <<told, alive, erasing>> /\ lease' = lease /\ saved' = saved
    BY <2>4
  <2> HIDE DEF Devs
  <2> QED BY <2>2, <2>3, <2>5, <2>6, <2>7, OnTold
<1>2. CASE Boot(c)
  <2> DEFINE v == [call[c] EXCEPT !.pc = "waiting"]
  <2>1. /\ v.pc = "waiting" /\ v.owner = call[c].owner /\ v.op = call[c].op /\ v.old = call[c].old
        /\ v.rec = call[c].rec /\ call[c].pc = "booting"
    BY <1>0, <1>2 DEF CallRecord, Boot
  <2>2. call' = [call EXCEPT ![c] = v]
    BY <1>2 DEF Boot
  <2> HIDE DEF v
  <2>3. Moved(call[c], v) /\ v.pc \in Busy
    BY <2>1 DEF Moved, Busy
  <2>4. UNCHANGED <<told, alive, erasing, lease, saved>> /\ table' = Without({})
    BY <1>0, <1>2 DEF Boot, loops
  <2> DEFINE Devs == {}
  <2>5. table' = [d \in Device |-> IF d \in Devs THEN NoId ELSE table[d]]
    BY <2>4 DEF Without
  <2>6. \A d \in Devs, a \in Agent : d \notin told[a]
    OBVIOUS
  <2>7. UNCHANGED <<told, alive, erasing>> /\ lease' = lease /\ saved' = saved
    BY <2>4
  <2> HIDE DEF Devs
  <2> QED BY <2>2, <2>3, <2>5, <2>6, <2>7, OnTold
<1>3. CASE DropFailed(c)
  <2> DEFINE Devs == {d \in Device : table[d] = call[c].rec}
  <2>1. /\ UNCHANGED <<told, alive, erasing>> /\ Keep(lease) /\ (Publish \/ saved' = saved)
        /\ call' = [call EXCEPT ![c] = Refused(c)] /\ call[c].pc = "failed"
        /\ table' = [d \in Device |-> IF d \in Devs THEN NoId ELSE table[d]]
    BY <1>3 DEF DropFailed, loops, world
  <2>2. \A d \in Devs, a \in Agent : d \notin told[a]
    BY <2>1 DEF ToldInv, Booting, Busy
  <2>3. \A d \in Device : table'[d] # call[c].rec
    BY <2>1, CallRefs DEF Busy
  <2> HIDE DEF Devs
  <2> QED BY <2>1, <2>2, <2>3, RefusedMoves, OnTold
<1>4. CASE FreeOld(c)
  <2> DEFINE Devs == FindOwned(call[c].owner, call[c].target)
             v == [call[c] EXCEPT !.pc = "queued", !.target = NoDevice]
  <2>1. /\ UNCHANGED <<told, alive, erasing>> /\ Keep(lease) /\ Publish
        /\ call' = [call EXCEPT ![c] = v] /\ call[c].pc = "freeing"
        /\ table' = [d \in Device |-> IF d \in Devs THEN NoId ELSE table[d]]
    BY <1>4 DEF FreeOld, loops, world, Without
  <2>2. v.pc = "queued" /\ v.owner = call[c].owner /\ v.op = call[c].op /\ v.old = call[c].old
    BY <1>0 DEF CallRecord
  <2>3. \A d \in Devs, a \in Agent : d \notin told[a]
    <3>1. /\ call[c].op = "change" /\ call[c].target = lease[call[c].old].dev
          /\ call[c].target \notin told[call[c].owner]
      BY <2>1 DEF ToldInv, Changing
    <3>2. call[c].old \in Id /\ lease[call[c].old] # NoLease
      BY <3>1, CallRefs
    <3>3. call[c].target # NoDevice
      BY <3>1, <3>2, LiveRecord, ConstantsAssumption
    <3>4. \A d \in Devs : d = call[c].target /\ d \in Device /\ lease[table[d]].owner = call[c].owner
      BY <3>3 DEF FindOwned, At
    <3>5. \A d \in Device, a \in Agent : d \in told[a] => lease[table[d]].owner = a
      BY ToldLease
    <3> QED BY <3>1, <3>4, <3>5
  <2> HIDE DEF Devs, v
  <2>4. Moved(call[c], v) /\ call[c].pc \notin Busy
    BY <2>1, <2>2 DEF Moved, Busy
  <2> QED BY <2>1, <2>3, <2>4, OnTold
<1> QED BY <1>1, <1>2, <1>3, <1>4

\* A call arrives that touches no lease.
LEMMA ArriveTold ==
  ASSUME IInv, IInv', ToldInv, NEW c \in Call, NEW a \in Agent, Sequential, MayCall(a),
         call[c] = Idle, NEW v, call' = [call EXCEPT ![c] = v], v.owner = a, v.pc \in {"queued", "freeing"},
         UNCHANGED <<table, lease, saved, erasing, alive>>,
         \A b \in Agent : told'[b] \subseteq told[b],
         v.op = "change" => /\ "change" \in Traffic /\ lease[v.old].owner = a /\ lease[v.old].handle
                            /\ v.target = lease[v.old].dev /\ v.target \notin told'[a],
         v.pc = "freeing" => v.op = "change"
  PROVE  ToldInv'
PROOF
<1>0. call'[c] = v /\ \A x \in Call \ {c} : call'[x] = call[x]
  BY DEF IInv, TypeOK
<1>a. Idle.pc = "idle" /\ v.pc \notin Busy /\ v.pc # "restoring" /\ call[c].pc \notin Busy
  BY DEF Idle, Busy
<1>b. \A x \in Call : call[x].owner # a
  BY DEF MayCall
<1>1. ToldIsHeld'
  BY DEF ToldInv, ToldIsHeld, Leased, At
<1>2. Mourned'
  BY DEF ToldInv, Mourned
<1>3. Ownerless'
  BY DEF ToldInv, Ownerless
<1>4. OneCall'
  BY <1>0, <1>b DEF ToldInv, OneCall
<1>5. Booting'
  <2> SUFFICES ASSUME NEW x \in Call, call'[x].pc \in Busy
               PROVE  /\ lease'[call'[x].rec].owner = call'[x].owner
                      /\ \A d \in Device, b \in Agent : table'[d] = call'[x].rec => d \notin told'[b]
    BY DEF Booting
  <2>1. x # c /\ call'[x] = call[x]
    BY <1>0, <1>a
  <2> QED BY <2>1 DEF ToldInv, Booting
<1>6. Changing'
  <2> SUFFICES ASSUME NEW x \in Call
               PROVE  /\ call'[x].op = "change" =>
                           /\ "change" \in Traffic
                           /\ lease'[call'[x].old].owner = call'[x].owner /\ lease'[call'[x].old].handle
                           /\ call'[x].pc = "freeing" => /\ call'[x].target = lease'[call'[x].old].dev
                                                         /\ call'[x].target \notin told'[call'[x].owner]
                           /\ call'[x].pc \in Busy => call'[x].rec # call'[x].old
                      /\ call'[x].pc \in {"freeing", "restoring"} => call'[x].op = "change"
    BY DEF Changing
  <2>1. CASE x = c
    BY <1>0, <1>a, <2>1
  <2>2. CASE x # c
    <3>1. call'[x] = call[x]
      BY <1>0, <2>2
    <3>2. call[x].pc = "freeing" => call[x].owner \in Agent
      BY DEF IInv, CallShape
    <3> QED BY <3>1, <3>2 DEF ToldInv, Changing
  <2> QED BY <2>1, <2>2
<1>7. Addressed'
  <2> SUFFICES ASSUME "change" \in Traffic, NEW d \in Device, table[d] # NoId,
                      lease[table[d]].owner # NoAgent, ~lease[table[d]].handle
               PROVE  \E x \in Call : call'[x].pc \in Busy /\ call'[x].rec = table[d]
    BY DEF Addressed, Leased, At
  <2>1. PICK x \in Call : call[x].pc \in Busy /\ call[x].rec = table[d]
    BY DEF ToldInv, Addressed, Leased, At
  <2> QED BY <1>0, <1>a, <2>1
<1> QED BY <1>1, <1>2, <1>3, <1>4, <1>5, <1>6, <1>7 DEF ToldInv

LEMMA ArrivalsTold ==
  ASSUME IInv, IInv', ToldInv, Sequential, NEW c \in Call, NEW a \in Agent,
         \/ \E want \in Requirements : RequestArrives(c, a, want)
         \/ \E d \in Device : ClaimArrives(c, a, d)
         \/ "change" \in Traffic /\ \E want \in Requirements, id \in Named(a) : ChangeArrives(c, a, id, want)
  PROVE  ToldInv'
PROOF
<1>1. CASE \/ \E want \in Requirements : RequestArrives(c, a, want)
           \/ \E d \in Device : ClaimArrives(c, a, d)
  <2>1. ASSUME NEW v, Arrive(c, v), v.pc = "queued", v.owner = a, v.op = "request" PROVE ToldInv'
    <3>1. call[c] = Idle /\ call' = [call EXCEPT ![c] = v]
      BY <2>1 DEF Arrive
    <3>2. UNCHANGED <<table, lease, saved, erasing, alive, told>> /\ MayCall(a)
      BY <1>1 DEF RequestArrives, ClaimArrives, loops, world
    <3> QED BY <2>1, <3>1, <3>2, ArriveTold
  <2>2. ASSUME NEW want \in Requirements, RequestArrives(c, a, want) PROVE ToldInv'
    <3> DEFINE v == [Idle EXCEPT !.pc = "queued", !.owner = a, !.want = want]
    <3>1. v.pc = "queued" /\ v.owner = a /\ v.op = "request"
      BY DEF Idle
    <3>2. Arrive(c, v)
      BY <2>2 DEF RequestArrives
    <3> HIDE DEF v
    <3> QED BY <2>1, <3>1, <3>2
  <2>3. ASSUME NEW d \in Device, ClaimArrives(c, a, d) PROVE ToldInv'
    <3> DEFINE v == [Idle EXCEPT !.pc = "queued", !.owner = a, !.target = d]
    <3>1. v.pc = "queued" /\ v.owner = a /\ v.op = "request"
      BY DEF Idle
    <3>2. Arrive(c, v)
      BY <2>3 DEF ClaimArrives
    <3> HIDE DEF v
    <3> QED BY <2>1, <3>1, <3>2
  <2> QED BY <1>1, <2>2, <2>3
<1>2. CASE "change" \in Traffic /\ \E want \in Requirements, id \in Named(a) : ChangeArrives(c, a, id, want)
  <2>a. PICK want \in Requirements, id \in Named(a) : ChangeArrives(c, a, id, want)
    BY <1>2
  <2>1. PICK d \in FindOwned(a, id) :
           /\ Arrive(c, [Idle EXCEPT !.pc = "freeing", !.op = "change", !.owner = a,
                                     !.want = want, !.old = table[d],
                                     !.target = IF At(d).handle THEN d ELSE NoDevice])
           /\ told' = [told EXCEPT ![a] = @ \ {d}]
    BY <2>a DEF ChangeArrives
  <2>2. UNCHANGED <<table, lease, saved, erasing, alive>> /\ MayCall(a)
    BY <1>2 DEF ChangeArrives, loops, world
  <2>3. /\ d \in Device /\ table[d] \in Id /\ lease[table[d]] # NoLease /\ lease[table[d]].owner = a
        /\ lease[table[d]].dev = d
    BY LiveRecord DEF FindOwned, Leased, At, IInv, TypeOK, Records
  <2>4. lease[table[d]].handle
    <3>1. ASSUME ~lease[table[d]].handle
          PROVE  \E x \in Call : call[x].owner = a
      <4>1. PICK x \in Call : call[x].pc \in Busy /\ call[x].rec = table[d]
        BY <1>2, <2>3, <3>1, ConstantsAssumption DEF ToldInv, Addressed, Leased, At, FindOwned
      <4> QED BY <2>3, <4>1 DEF ToldInv, Booting
    <3> QED BY <2>2, <3>1 DEF MayCall
  <2> DEFINE v == [Idle EXCEPT !.pc = "freeing", !.op = "change", !.owner = a,
                               !.want = want, !.old = table[d], !.target = d]
  <2>5. call[c] = Idle /\ call' = [call EXCEPT ![c] = v]
    BY <2>1, <2>4 DEF Arrive, At
  <2>6. v.pc = "freeing" /\ v.op = "change" /\ v.owner = a /\ v.old = table[d] /\ v.target = d
    BY DEF Idle
  <2>7. \A b \in Agent : told'[b] \subseteq told[b] /\ d \notin told'[a]
    BY <2>1 DEF IInv, TypeOK
  <2> HIDE DEF v
  <2> QED BY <1>2, <2>2, <2>3, <2>4, <2>5, <2>6, <2>7, ArriveTold
<1> QED BY <1>1, <1>2

\* A broken device goes from its owner to nobody.
LEMMA BrokenTold ==
  ASSUME IInv, IInv', ToldInv, Sequential, NEW c \in Call, NEW a \in Agent, NEW want \in Requirements,
         NEW id \in Named(a), BrokenArrives(c, a, id, want)
  PROVE  ToldInv'
PROOF
<1> USE ConstantsAssumption
<1>1. PICK d \in FindOwned(a, id) :
       /\ Arrive(c, [Idle EXCEPT !.pc = "queued", !.op = "broken", !.owner = a,
                                 !.want = want, !.old = table[d]])
       /\ erasing' = IF AutoRepair /\ d \notin Vega THEN erasing \cup {table[d]} ELSE erasing
       /\ lease' = [lease EXCEPT ![table[d]].status = "repairing", ![table[d]].owner = NoAgent]
       /\ told' = [told EXCEPT ![a] = @ \ {d}]
  BY DEF BrokenArrives
<1> DEFINE r == table[d]
           v == [Idle EXCEPT !.pc = "queued", !.op = "broken", !.owner = a, !.want = want, !.old = r]
<1>2. /\ d \in Device /\ r \in Id /\ r # NoId /\ r[1] = d /\ lease[r] # NoLease /\ lease[r] \in Lease
      /\ lease[r].owner = a
  <2>1. d \in Device /\ r \in Id /\ r # NoId /\ r[1] = d /\ lease[r] # NoLease /\ lease[r].owner = a
    BY DEF FindOwned, Leased, At, IInv, TypeOK, Records
  <2> QED BY <2>1, LiveRecord
<1>3. v.pc = "queued" /\ v.op = "broken" /\ v.owner = a
  BY DEF Idle
<1>4. Idle.pc = "idle" /\ call[c] = Idle /\ call'[c] = v /\ \A x \in Call \ {c} : call'[x] = call[x]
  BY <1>1 DEF Arrive, Idle, IInv, TypeOK
<1>5. UNCHANGED <<table, alive>> /\ Publish /\ MayCall(a)
  BY DEF BrokenArrives
<1>6. /\ lease'[r].owner = NoAgent /\ lease'[r] # NoLease
      /\ \A q \in Id \ {r} : lease'[q] = lease[q]
  <2> DEFINE y == [lease[r] EXCEPT !.status = "repairing"]
             m == [y EXCEPT !.owner = NoAgent]
  <2>1. y \in Lease
    BY <1>2, SetStatus DEF Status
  <2>2. m \in Lease /\ m.owner = NoAgent
    BY <2>1 DEF Lease
  <2>3. lease' = [lease EXCEPT ![r] = m]
    BY ZenonT(40), <1>1
  <2> HIDE DEF m
  <2> QED BY <1>2, <2>2, <2>3, NoLeaseAssumption DEF IInv, TypeOK
<1>7. told' = [told EXCEPT ![a] = @ \ {d}] /\ told \in [Agent -> SUBSET Device]
  BY <1>1 DEF IInv, TypeOK
<1>8. erasing' \subseteq erasing \cup {r}
  BY <1>1
<1> HIDE DEF r, v
<1>9. \A x \in Call : call[x].owner # a
  BY <1>5 DEF MayCall
<1>10. \A x \in Call : call[x].pc \in Busy => call[x].rec \in Id \ {r}
  BY <1>2, <1>9, CallRefs DEF ToldInv, Booting
<1>11. \A x \in Call : call[x].op = "change" => call[x].old \in Id \ {r}
  BY <1>2, <1>9, CallRefs DEF ToldInv, Changing
<1>12. \A b \in Agent : told'[b] \subseteq told[b] /\ d \notin told'[b]
  <2>1. \A b \in Agent : d \in told[b] => b = a
    BY <1>2, ToldLease DEF r
  <2> QED BY <1>7, <2>1
<1>13. \A e \in Device : table[e] = r => e = d
  BY <1>2 DEF IInv, Records, Leased
<1>14. ToldIsHeld'
  <2> SUFFICES ASSUME NEW b \in Agent, NEW e \in told'[b]
               PROVE  table'[e] # NoId /\ lease'[table'[e]].owner = b
    BY DEF ToldIsHeld, Leased, At
  <2>1. e \in told[b] /\ e # d
    BY <1>12
  <2>2. e \in Device /\ table[e] \in Id /\ table[e] # NoId /\ lease[table[e]].owner = b
    BY <2>1, ToldLease
  <2> QED BY <1>5, <1>6, <1>13, <2>1, <2>2
<1>15. Mourned'
  BY <1>5, <1>12 DEF ToldInv, Mourned
<1>16. Ownerless'
  <2>1. \A q \in Id : lease'[q] # NoLease /\ lease'[q].status = "repairing" => lease'[q].owner = NoAgent
    BY <1>6 DEF ToldInv, Ownerless
  <2>2. \A q \in erasing' : lease'[q] # NoLease /\ lease'[q].owner = NoAgent
    <3>1. \A q \in erasing : q \in Id
      BY DEF IInv, TypeOK
    <3> QED BY <1>6, <1>8, <3>1 DEF ToldInv, Ownerless
  <2>3. ASSUME NEW e \in Device, saved'[e] # NoLease, saved'[e].status = "repairing"
        PROVE  saved'[e].owner = NoAgent
    <3>1. table'[e] # NoId /\ saved'[e] = Rehydrated(lease'[table'[e]])
      BY <1>5, <2>3 DEF Publish
    <3>2. table'[e] \in Id /\ lease'[table'[e]] # NoLease
      BY <3>1 DEF IInv, TypeOK, Records, Leased
    <3>3. lease'[table'[e]] \in Lease
      BY <3>2 DEF IInv, TypeOK
    <3>4. \A x \in Lease : Rehydrated(x).status = "repairing" =>
             x.status = "repairing" /\ Rehydrated(x).owner = x.owner
      BY DEF Rehydrated, Lease
    <3> QED BY <2>1, <2>3, <3>1, <3>2, <3>3, <3>4
  <2> QED BY <2>1, <2>2, <2>3 DEF Ownerless
<1>17. OneCall'
  BY <1>3, <1>4, <1>9 DEF ToldInv, OneCall
<1>18. Booting'
  <2> SUFFICES ASSUME NEW x \in Call, call'[x].pc \in Busy
               PROVE  /\ lease'[call'[x].rec].owner = call'[x].owner
                      /\ \A e \in Device, b \in Agent : table'[e] = call'[x].rec => e \notin told'[b]
    BY DEF Booting
  <2>1. x # c
    BY <1>3, <1>4 DEF Busy
  <2>2. call'[x] = call[x] /\ lease'[call[x].rec] = lease[call[x].rec]
    BY <1>4, <1>6, <1>10, <2>1
  <2> QED BY <1>5, <1>12, <2>2 DEF ToldInv, Booting
<1>19. Changing'
  <2> SUFFICES ASSUME NEW x \in Call
               PROVE  /\ call'[x].op = "change" =>
                           /\ "change" \in Traffic
                           /\ lease'[call'[x].old].owner = call'[x].owner /\ lease'[call'[x].old].handle
                           /\ call'[x].pc = "freeing" => /\ call'[x].target = lease'[call'[x].old].dev
                                                         /\ call'[x].target \notin told'[call'[x].owner]
                           /\ call'[x].pc \in Busy => call'[x].rec # call'[x].old
                      /\ call'[x].pc \in {"freeing", "restoring"} => call'[x].op = "change"
    BY DEF Changing
  <2>1. CASE x = c
    BY <1>3, <1>4, <2>1
  <2>2. CASE x # c
    <3>1. call'[x] = call[x]
      BY <1>4, <2>2
    <3>2. call[x].pc = "freeing" => call[x].owner \in Agent
      BY DEF IInv, CallShape
    <3>3. call[x].op = "change" => lease'[call[x].old] = lease[call[x].old]
      BY <1>6, <1>11
    <3> QED BY <1>12, <3>1, <3>2, <3>3 DEF ToldInv, Changing
  <2> QED BY <2>1, <2>2
<1>20. Addressed'
  <2> SUFFICES ASSUME "change" \in Traffic, NEW e \in Device, table[e] # NoId,
                      lease'[table[e]].owner # NoAgent, ~lease'[table[e]].handle
               PROVE  \E x \in Call : call'[x].pc \in Busy /\ call'[x].rec = table[e]
    BY <1>5 DEF Addressed, Leased, At
  <2>1. table[e] \in Id /\ lease'[table[e]] = lease[table[e]]
    BY <1>6 DEF IInv, TypeOK
  <2>2. PICK x \in Call : call[x].pc \in Busy /\ call[x].rec = table[e]
    BY <2>1 DEF ToldInv, Addressed, Leased, At
  <2>3. x # c
    BY <1>4, <2>2 DEF Busy
  <2> QED BY <1>4, <2>2, <2>3
<1> QED BY <1>14, <1>15, <1>16, <1>17, <1>18, <1>19, <1>20 DEF ToldInv

LEMMA BootAnswersTold ==
  ASSUME IInv, IInv', ToldInv, NEW c \in Call, BootAnswers(c)
  PROVE  ToldInv'
PROOF
<1> USE ConstantsAssumption, NoLeaseAssumption
<1> DEFINE r == call[c].rec
<1>1. PICK ok \in BOOLEAN :
        LET m == Booted(lease[r], ok)
        IN /\ MayAnswer(m.dev, ok)
           /\ ReleasedMidBoot(c, m) \/ BootFailed(c, m) \/ Granted(c, m)
           /\ UNCHANGED <<table, loops>>
           /\ Keep([lease EXCEPT ![r] = m])
  BY DEF BootAnswers
<1> DEFINE m == Booted(lease[r], ok)
           l == [q \in Id |-> IF q = r THEN m ELSE lease[q]]
<1>2. call[c].pc = "waiting" /\ UNCHANGED <<table, erasing, saved, alive>>
  BY <1>1 DEF BootAnswers, loops
<1>3. /\ r \in Id /\ r # NoId /\ lease[r] # NoLease /\ lease[r] \in Lease /\ lease[r].dev = r[1]
      /\ call[c].owner \in Agent /\ lease[r].owner = call[c].owner /\ call[c].pc \in Busy
  BY <1>2, CallRefs, LiveRecord DEF Busy, ToldInv, Booting
<1>4. /\ m \in Lease /\ m # NoLease /\ m.dev = r[1] /\ m.owner = lease[r].owner
  BY SMTT(20), <1>3, BootedTyped
<1>5. m.status = (IF ok THEN "ready" ELSE "error")
  BY <1>3 DEF Booted, Lease
<1>6. m.status = "ready" => m.handle
  <2>1. m.handle <=> lease[r].dev \in Apple \cup Vega \/ power[lease[r].dev] # "off"
    BY <1>3 DEF Booted, Lease
  <2>2. m.status = "ready" => lease[r].dev \in Vega \/ power[lease[r].dev] # "off"
    BY <1>1, <1>3, <1>4, <1>5 DEF MayAnswer
  <2> QED BY <2>1, <2>2
<1>7. Keep(l)
  <2>1. [lease EXCEPT ![r] = m] = l
    BY DEF IInv, TypeOK
  <2> QED BY <1>1, <2>1
<1>8. ReleasedMidBoot(c, m) \/ BootFailed(c, m) \/ Granted(c, m)
  BY <1>1
<1>9. \A q \in Id : l[q] = IF q = r THEN m ELSE lease[q]
  OBVIOUS
<1> HIDE DEF m, l, r
<1>10. \A q \in Id : lease'[q] \in {l[q], NoLease} /\ (q \in Refs' => lease'[q] = l[q])
  BY <1>7 DEF Keep
<1>11. \A q \in erasing' : q \in erasing /\ lease'[q] = l[q] /\ l[q] # NoLease
  <2>1. \A q \in erasing' : q \in Id /\ q \in Refs' /\ q \in erasing
    BY <1>2 DEF IInv, TypeOK, Refs
  <2> QED BY <1>4, <1>9, <1>10, <2>1 DEF ToldInv, Ownerless
<1>12. \A q \in Id : /\ lease'[q] \in {l[q], NoLease}
                     /\ lease[q] = NoLease => l[q] = NoLease
                     /\ lease[q] # NoLease => /\ l[q].owner = lease[q].owner
                                              /\ l[q].status = "repairing" =>
                                                   lease[q].status = "repairing" \/ lease[q].owner = NoAgent
                     /\ lease[q].handle /\ ~l[q].handle => q = r
  BY <1>3, <1>4, <1>5, <1>9, <1>10
<1>13. CASE ReleasedMidBoot(c, m) \/ BootFailed(c, m)
  <2>1. UNCHANGED told /\ \A a \in Agent : told'[a] \subseteq told[a] /\ (~alive'[a] => told'[a] = {})
    BY <1>2, <1>13 DEF ReleasedMidBoot, BootFailed, ToldInv, Mourned
  <2>2. CASE ReleasedMidBoot(c, m)
    <3>1. call' = [call EXCEPT ![c] = Refused(c)] /\ \A d \in Device : table'[d] # call[c].rec
      BY <1>2, <2>2 DEF ReleasedMidBoot, Held
    <3>2. \A x \in Call : Moved(call[x], call'[x])
      BY <3>1, RefusedMoves, MoveOne
    <3>3. \A x \in Call \ {c} : call'[x] = call[x]
      BY <3>1
    <3>4. \A x \in Call : call[x].pc \in Busy /\ call'[x].pc \notin Busy =>
                             \A d \in Device : table'[d] # call[x].rec
      BY <3>1, <3>3
    <3>5. \A q \in Id : lease[q] # NoLease /\ lease[q].handle /\ ~l[q].handle =>
                         \E x \in Call : call[x].pc \in Busy /\ call[x].rec = q
      BY <1>3, <1>12 DEF r
    <3>6. \A d \in Device : table'[d] \in {table[d], NoId} /\ (table[d] # NoId => table'[d] # NoId)
      BY <1>2
    <3> QED BY <1>2, <1>11, <1>12, <2>1, <3>2, <3>4, <3>5, <3>6, ToldStep
  <2>3. CASE BootFailed(c, m)
    <3> DEFINE v == [call[c] EXCEPT !.pc = "failed"]
    <3>1. call' = [call EXCEPT ![c] = v]
      BY <2>3 DEF BootFailed
    <3>2. /\ v.pc = "failed" /\ v.owner = call[c].owner /\ v.op = call[c].op /\ v.old = call[c].old
          /\ v.rec = call[c].rec
      <4>1. call[c] \in CallRecord
        BY DEF IInv, TypeOK
      <4> QED BY <4>1 DEF CallRecord
    <3> HIDE DEF v
    <3>3. Moved(call[c], v) /\ v.pc \in Busy
      BY <1>3, <3>2 DEF Moved, Busy
    <3>4. \A x \in Call : Moved(call[x], call'[x])
      BY <3>1, <3>3, MoveOne
    <3>5. \A x \in Call : call[x].pc \in Busy => call'[x].pc \in Busy
      BY <3>1, <3>3 DEF IInv, TypeOK
    <3>6. \A q \in Id : lease[q] # NoLease /\ lease[q].handle /\ ~l[q].handle =>
                         \E x \in Call : call[x].pc \in Busy /\ call[x].rec = q
      BY <1>3, <1>12 DEF r
    <3>7. \A d \in Device : table'[d] \in {table[d], NoId} /\ (table[d] # NoId => table'[d] # NoId)
      BY <1>2
    <3> QED BY <1>2, <1>11, <1>12, <2>1, <3>4, <3>5, <3>6, <3>7, ToldStep
  <2> QED BY <1>13, <2>2, <2>3
<1>14. CASE Granted(c, m)
  <2> DEFINE a == call[c].owner
             e == r[1]
  <2>1. /\ call' = [call EXCEPT ![c] = Idle] /\ m.status = "ready" /\ m.handle
        /\ told' = IF alive[a] THEN [told EXCEPT ![a] = @ \cup {e}] ELSE told
    BY <1>4, <1>6, <1>14 DEF Granted
  <2>2. e \in Device /\ table[e] = r
    <3>1. PICK d \in Device : table[d] = r
      BY <1>14 DEF Granted, Held, r
    <3>2. r[1] = d
      BY <1>3, <3>1 DEF IInv, Records, Leased
    <3> QED BY <3>1, <3>2
  <2>3. call'[c] = Idle /\ \A x \in Call \ {c} : call'[x] = call[x]
    BY <2>1 DEF IInv, TypeOK
  <2>4. Idle.pc = "idle" /\ Idle.owner = NoAgent /\ Idle.op = "request"
    BY DEF Idle
  <2>5. \A b \in Agent : told'[b] \subseteq told[b] \cup (IF b = a THEN {e} ELSE {})
    BY <2>1 DEF IInv, TypeOK
  <2>6. \A x \in Call \ {c} : /\ call[x].pc \in Busy => call[x].rec # r
                              /\ call[x].op = "change" => call[x].old # r
    BY <1>3, RecsApart DEF r
  <2>7. \A x \in Call \ {c} : call[x].owner # a
    BY <1>3, CallRefs
  <2>8. \A d \in Device : table[d] # NoId => /\ table[d] \in Id /\ lease'[table[d]] = l[table[d]]
                                             /\ l[table[d]].owner = lease[table[d]].owner
    <3>1. \A d \in Device : table[d] # NoId => /\ table[d] \in Id /\ lease[table[d]] # NoLease
                                               /\ lease'[table[d]] # NoLease
      BY <1>2 DEF IInv, TypeOK, Records, Leased
    <3> QED BY <1>12, <3>1
  <2>9. ToldIsHeld'
    <3> SUFFICES ASSUME NEW b \in Agent, NEW d \in told'[b]
                 PROVE  table[d] # NoId /\ lease'[table[d]].owner = b
      BY <1>2 DEF ToldIsHeld, Leased, At
    <3>1. CASE d \in told[b]
      BY <2>8, <3>1, ToldLease
    <3>2. CASE b = a /\ d = e
      BY <1>3, <2>2, <2>8, <3>2
    <3> QED BY <2>5, <3>1, <3>2
  <2>10. Mourned'
    BY <1>2, <1>3, <2>1 DEF ToldInv, Mourned, IInv, TypeOK
  <2>11. Ownerless'
    <3>1. \A q \in Id : lease'[q] # NoLease /\ lease'[q].status = "repairing" => lease'[q].owner = NoAgent
      BY <1>12 DEF ToldInv, Ownerless
    <3>2. \A q \in erasing' : lease'[q] # NoLease /\ lease'[q].owner = NoAgent
      <4>1. \A q \in erasing : q \in Id
        BY DEF IInv, TypeOK
      <4> QED BY <1>11, <1>12, <4>1 DEF ToldInv, Ownerless
    <3> QED BY <1>2, <3>1, <3>2 DEF ToldInv, Ownerless
  <2>12. OneCall'
    BY <2>3, <2>4 DEF ToldInv, OneCall
  <2>13. Booting'
    <3> SUFFICES ASSUME NEW x \in Call, call'[x].pc \in Busy
                 PROVE  /\ lease'[call'[x].rec].owner = call'[x].owner
                        /\ \A d \in Device, b \in Agent : table[d] = call'[x].rec => d \notin told'[b]
      BY <1>2 DEF Booting
    <3>1. x # c
      BY <2>3, <2>4 DEF Busy
    <3>2. call'[x] = call[x] /\ call[x].rec \in Id /\ lease[call[x].rec] # NoLease
          /\ call[x].rec # r /\ call[x].rec # NoId
      BY <2>3, <2>6, <3>1, CallRefs
    <3>3. lease'[call[x].rec] # NoLease
      BY <3>2 DEF IInv, RefsLive
    <3>4. lease'[call[x].rec].owner = lease[call[x].rec].owner
      BY <1>12, <3>2, <3>3
    <3>5. table[e] # call[x].rec
      BY <2>2, <3>2
    <3> QED BY <2>5, <3>2, <3>4, <3>5 DEF ToldInv, Booting
  <2>14. Changing'
    <3> SUFFICES ASSUME NEW x \in Call
                 PROVE  /\ call'[x].op = "change" =>
                             /\ "change" \in Traffic
                             /\ lease'[call'[x].old].owner = call'[x].owner /\ lease'[call'[x].old].handle
                             /\ call'[x].pc = "freeing" => /\ call'[x].target = lease'[call'[x].old].dev
                                                           /\ call'[x].target \notin told'[call'[x].owner]
                             /\ call'[x].pc \in Busy => call'[x].rec # call'[x].old
                        /\ call'[x].pc \in {"freeing", "restoring"} => call'[x].op = "change"
      BY DEF Changing
    <3>1. CASE x = c
      BY <2>3, <2>4, <3>1
    <3>2. CASE x # c
      <4>1. call'[x] = call[x] /\ call[x].owner # a
        BY <2>3, <2>7, <3>2
      <4>2. call[x].op = "change" => lease'[call[x].old] = lease[call[x].old]
        <5>1. ASSUME call[x].op = "change"
              PROVE  call[x].old \in Id /\ call[x].old # NoId /\ call[x].old # r
          BY <2>6, <3>2, <5>1, CallRefs
        <5>2. ASSUME call[x].op = "change" PROVE lease'[call[x].old] # NoLease
          BY <4>1, <5>1, <5>2 DEF IInv, RefsLive
        <5> QED BY <1>9, <1>10, <5>1, <5>2
      <4>3. call[x].pc = "freeing" => call[x].owner \in Agent
        BY DEF IInv, CallShape
      <4>4. call[x].owner \in Agent => told'[call[x].owner] \subseteq told[call[x].owner]
        BY <2>5, <4>1
      <4> QED BY <4>1, <4>2, <4>3, <4>4 DEF ToldInv, Changing
    <3> QED BY <3>1, <3>2
  <2>15. Addressed'
    <3> SUFFICES ASSUME "change" \in Traffic, NEW d \in Device, table[d] # NoId,
                        lease'[table[d]].owner # NoAgent, ~lease'[table[d]].handle
                 PROVE  \E x \in Call : call'[x].pc \in Busy /\ call'[x].rec = table[d]
      BY <1>2 DEF Addressed, Leased, At
    <3>1. table[d] # r /\ lease'[table[d]] = lease[table[d]]
      BY <1>9, <2>1, <2>8
    <3>2. PICK x \in Call : call[x].pc \in Busy /\ call[x].rec = table[d]
      BY <3>1 DEF ToldInv, Addressed, Leased, At
    <3>3. x # c
      BY <3>1, <3>2 DEF r
    <3> QED BY <2>3, <3>2, <3>3
  <2> QED BY <2>9, <2>10, <2>11, <2>12, <2>13, <2>14, <2>15 DEF ToldInv
<1> QED BY <1>8, <1>13, <1>14

\* A device nobody has goes to the call; nobody is told of it yet.
LEMMA ReserveTold ==
  ASSUME IInv, IInv', ToldInv, NEW c \in Call, call[c].pc = "choosing",
         NEW d \in Device, table[d] = NoId, NEW r \in Id, r # NoId, lease[r] = NoLease,
         NEW m \in Lease, m.owner = call[c].owner, m.status = "booting",
         NEW l, \A q \in Id : l[q] = IF q = r THEN m ELSE lease[q], Keep(l), Publish,
         NEW g, g.pc = "booting", g.rec = r, g.old = call[c].old, g.owner = call[c].owner, g.op = call[c].op,
         call' = [call EXCEPT ![c] = g], table' = [table EXCEPT ![d] = r],
         UNCHANGED <<told, alive, erasing>>
  PROVE  ToldInv'
PROOF
<1>0. call'[c] = g /\ \A x \in Call \ {c} : call'[x] = call[x]
  BY DEF IInv, TypeOK
<1>1. table'[d] = r /\ \A e \in Device \ {d} : table'[e] = table[e]
  BY DEF IInv, TypeOK
<1>2. m # NoLease /\ call[c].pc \notin Busy /\ g.pc \in Busy
  BY NoLeaseAssumption DEF Busy
<1>3. \A q \in Id : lease'[q] \in {l[q], NoLease} /\ (q \in Refs' => lease'[q] = l[q])
  BY DEF Keep
<1>4. lease'[r] = m
  BY <1>1, <1>3 DEF Refs
<1>5. \A q \in Id : lease[q] # NoLease /\ lease'[q] # NoLease => lease'[q] = lease[q] /\ q # r
  BY <1>3
<1>6. \A e \in Device \ {d} : table[e] # NoId =>
        table[e] \in Id /\ lease[table[e]] # NoLease /\ lease'[table[e]] = lease[table[e]]
  <2> SUFFICES ASSUME NEW e \in Device \ {d}, table[e] # NoId
               PROVE  table[e] \in Id /\ lease[table[e]] # NoLease /\ lease'[table[e]] = lease[table[e]]
    OBVIOUS
  <2>1. table[e] \in Id /\ lease[table[e]] # NoLease
    BY DEF IInv, TypeOK, Records, Leased
  <2>2. lease'[table[e]] # NoLease
    BY <1>1, <2>1 DEF IInv, Records, Leased
  <2> QED BY <1>5, <2>1, <2>2
<1>7. \A x \in Call \ {c} : call[x].pc \in Busy =>
        call[x].rec \in Id /\ call[x].rec # NoId /\ call[x].rec # r /\ lease'[call[x].rec] = lease[call[x].rec]
  <2> SUFFICES ASSUME NEW x \in Call \ {c}, call[x].pc \in Busy
               PROVE  /\ call[x].rec \in Id /\ call[x].rec # NoId /\ call[x].rec # r
                      /\ lease'[call[x].rec] = lease[call[x].rec]
    OBVIOUS
  <2>1. call[x].rec \in Id /\ call[x].rec # NoId /\ lease[call[x].rec] # NoLease
    BY CallRefs
  <2>2. lease'[call[x].rec] # NoLease
    BY <1>0, <2>1 DEF IInv, RefsLive
  <2> QED BY <1>5, <2>1, <2>2
<1>8. \A x \in Call : call[x].op = "change" =>
        call[x].old \in Id /\ call[x].old # r /\ lease'[call[x].old] = lease[call[x].old]
  <2> SUFFICES ASSUME NEW x \in Call, call[x].op = "change"
               PROVE  call[x].old \in Id /\ call[x].old # r /\ lease'[call[x].old] = lease[call[x].old]
    OBVIOUS
  <2>1. call[x].old \in Id /\ call[x].old # NoId /\ lease[call[x].old] # NoLease
    BY CallRefs
  <2>2. lease'[call[x].old] # NoLease
    BY <1>0, <2>1 DEF IInv, RefsLive
  <2> QED BY <1>5, <2>1, <2>2
<1>9. \A a \in Agent : \A e \in told[a] : e \in Device /\ e # d /\ table[e] # NoId /\ lease[table[e]].owner = a
  BY ToldLease
<1>10. ToldIsHeld'
  <2> SUFFICES ASSUME NEW a \in Agent, NEW e \in told[a]
               PROVE  table'[e] # NoId /\ lease'[table'[e]].owner = a
    BY DEF ToldIsHeld, Leased, At
  <2> QED BY <1>1, <1>6, <1>9
<1>11. Mourned'
  BY DEF ToldInv, Mourned
<1>12. Ownerless'
  <2>1. \A q \in Id : lease'[q] # NoLease /\ lease'[q].status = "repairing" => lease'[q].owner = NoAgent
    <3> SUFFICES ASSUME NEW q \in Id, lease'[q] # NoLease, lease'[q].status = "repairing"
                 PROVE  lease'[q].owner = NoAgent
      OBVIOUS
    <3>1. q # r
      BY <1>4
    <3>2. lease'[q] = lease[q]
      BY <1>3, <3>1
    <3> QED BY <3>2 DEF ToldInv, Ownerless
  <2>2. \A q \in erasing : lease'[q] # NoLease /\ lease'[q].owner = NoAgent
    <3> SUFFICES ASSUME NEW q \in erasing PROVE lease'[q] # NoLease /\ lease'[q].owner = NoAgent
      OBVIOUS
    <3>1. q \in Id /\ q \in Refs' /\ lease[q] # NoLease /\ lease[q].owner = NoAgent
      BY DEF IInv, TypeOK, Refs, ToldInv, Ownerless
    <3>2. q # r /\ lease'[q] = lease[q]
      BY <1>3, <3>1
    <3> QED BY <3>1, <3>2
  <2>3. ASSUME NEW e \in Device, saved'[e] # NoLease, saved'[e].status = "repairing"
        PROVE  saved'[e].owner = NoAgent
    <3>1. table'[e] # NoId /\ saved'[e] = Rehydrated(lease'[table'[e]])
      BY <2>3 DEF Publish
    <3>2. table'[e] \in Id /\ lease'[table'[e]] # NoLease
      BY <3>1 DEF IInv, TypeOK, Records, Leased
    <3>3. lease'[table'[e]] \in Lease
      BY <3>2 DEF IInv, TypeOK
    <3>4. \A x \in Lease : Rehydrated(x).status = "repairing" =>
             x.status = "repairing" /\ Rehydrated(x).owner = x.owner
      BY DEF Rehydrated, Lease
    <3> QED BY <2>1, <2>3, <3>1, <3>2, <3>3, <3>4
  <2> QED BY <2>1, <2>2, <2>3 DEF Ownerless
<1>13. OneCall'
  BY <1>0 DEF ToldInv, OneCall
<1>14. Booting'
  <2> SUFFICES ASSUME NEW x \in Call, call'[x].pc \in Busy
               PROVE  /\ lease'[call'[x].rec].owner = call'[x].owner
                      /\ \A e \in Device, a \in Agent : table'[e] = call'[x].rec => e \notin told[a]
    BY DEF Booting
  <2>1. CASE x = c
    <3>1. \A e \in Device, a \in Agent : e \in told[a] => table'[e] # r
      BY <1>1, <1>6, <1>9
    <3> QED BY <1>0, <1>4, <2>1, <3>1
  <2>2. CASE x # c
    <3>1. call'[x] = call[x] /\ call[x].rec # r /\ lease'[call[x].rec] = lease[call[x].rec] /\ call[x].pc \in Busy
      BY <1>0, <1>7, <2>2
    <3>2. \A e \in Device : table'[e] = call[x].rec => table[e] = call[x].rec
      BY <1>1, <3>1
    <3> QED BY <3>1, <3>2 DEF ToldInv, Booting
  <2> QED BY <2>1, <2>2
<1>15. Changing'
  <2> SUFFICES ASSUME NEW x \in Call
               PROVE  /\ call'[x].op = "change" =>
                           /\ "change" \in Traffic
                           /\ lease'[call'[x].old].owner = call'[x].owner /\ lease'[call'[x].old].handle
                           /\ call'[x].pc = "freeing" => /\ call'[x].target = lease'[call'[x].old].dev
                                                         /\ call'[x].target \notin told[call'[x].owner]
                           /\ call'[x].pc \in Busy => call'[x].rec # call'[x].old
                      /\ call'[x].pc \in {"freeing", "restoring"} => call'[x].op = "change"
    BY DEF Changing
  <2>1. CASE x = c
    <3>1. call'[x].pc = "booting" /\ call'[x].rec = r /\ call'[x].old = call[x].old
          /\ call'[x].owner = call[x].owner /\ call'[x].op = call[x].op
      BY <1>0, <2>1
    <3> QED BY <1>8, <3>1 DEF ToldInv, Changing
  <2>2. CASE x # c
    <3>1. call'[x] = call[x]
      BY <1>0, <2>2
    <3> QED BY <1>8, <3>1 DEF ToldInv, Changing
  <2> QED BY <2>1, <2>2
<1>16. Addressed'
  <2> SUFFICES ASSUME "change" \in Traffic, NEW e \in Device, table'[e] # NoId,
                      lease'[table'[e]].owner # NoAgent, ~lease'[table'[e]].handle
               PROVE  \E x \in Call : call'[x].pc \in Busy /\ call'[x].rec = table'[e]
    BY DEF Addressed, Leased, At
  <2>1. CASE e = d
    BY <1>0, <1>1, <1>2, <2>1
  <2>2. CASE e # d
    <3>1. table'[e] = table[e] /\ lease'[table[e]] = lease[table[e]] /\ table[e] # NoId
      BY <1>1, <1>6, <2>2
    <3>2. PICK x \in Call : call[x].pc \in Busy /\ call[x].rec = table[e]
      BY <3>1 DEF ToldInv, Addressed, Leased, At
    <3>3. x # c
      BY <1>2, <3>2
    <3> QED BY <1>0, <3>1, <3>2, <3>3
  <2> QED BY <2>1, <2>2
<1> QED BY <1>10, <1>11, <1>12, <1>13, <1>14, <1>15, <1>16 DEF ToldInv

LEMMA ChooseTold ==
  ASSUME IInv, IInv', ToldInv, NEW c \in Call, Choose(c)
  PROVE  ToldInv'
PROOF
<1>1. call[c].pc = "choosing" /\ call[c] \in CallRecord /\ UNCHANGED <<told, alive, erasing>>
  BY DEF Choose, loops, world, IInv, TypeOK
<1>2. CASE /\ call' = [call EXCEPT ![c] = Refused(c)]
           /\ UNCHANGED <<table, saved>>
           /\ Keep(lease)
  <2> DEFINE Devs == {}
  <2>1. table' = [d \in Device |-> IF d \in Devs THEN NoId ELSE table[d]]
    BY <1>2 DEF IInv, TypeOK
  <2>2. \A d \in Devs, a \in Agent : d \notin told[a]
    OBVIOUS
  <2>3. call[c].pc \notin Busy
    BY <1>1 DEF Busy
  <2>4. call' = [call EXCEPT ![c] = Refused(c)] /\ Keep(lease) /\ saved' = saved
    BY <1>2
  <2> HIDE DEF Devs
  <2> QED BY <1>1, <2>1, <2>2, <2>3, <2>4, RefusedMoves, OnTold
<1>3. CASE \E d \in Candidates(c) :
             LET r == <<d, CHOOSE s \in Fresh(d) : TRUE>>
             IN /\ Fresh(d) # {}
                /\ table' = [table EXCEPT ![d] = r]
                /\ call' = [call EXCEPT ![c].pc = "booting", ![c].rec = r,
                                        ![c].seen = {}, ![c].want = {}]
                /\ Keep([lease EXCEPT ![r] = Reserved(c, d)])
                /\ Publish
  <2>1. PICK d \in Candidates(c) :
             LET r == <<d, CHOOSE s \in Fresh(d) : TRUE>>
             IN /\ Fresh(d) # {}
                /\ table' = [table EXCEPT ![d] = r]
                /\ call' = [call EXCEPT ![c].pc = "booting", ![c].rec = r,
                                        ![c].seen = {}, ![c].want = {}]
                /\ Keep([lease EXCEPT ![r] = Reserved(c, d)])
                /\ Publish
    BY <1>3
  <2> DEFINE r == <<d, CHOOSE s \in Fresh(d) : TRUE>>
             m == Reserved(c, d)
             g == [call[c] EXCEPT !.pc = "booting", !.rec = r, !.seen = {}, !.want = {}]
             l == [q \in Id |-> IF q = r THEN m ELSE lease[q]]
  <2>2. call[c].owner \in Agent
    BY <1>1 DEF IInv, CallShape
  <2>3. d \in Device /\ table[d] = NoId
    <3>1. call[c].target \in Vega => ~Leased(call[c].target)
      BY <1>1 DEF IInv, LockHeld
    <3> QED BY <1>1, <3>1, ConstantsAssumption DEF Candidates, Preferred, Matches, Claimable, CallRecord, Leased
  <2>4. r \in Id /\ r # NoId /\ lease[r] = NoLease
    <3>1. (CHOOSE s \in Fresh(d) : TRUE) \in Fresh(d)
      BY <2>1, FreshSlot
    <3>2. \A s \in Fresh(d) : s \in Slot /\ lease[<<d, s>>] = NoLease
      BY DEF Fresh
    <3>3. \A s \in Slot : <<d, s>> \in Id /\ <<d, s>> # NoId
      BY <2>3, ConstantsAssumption DEF Id
    <3> HIDE DEF Fresh
    <3> QED BY <3>1, <3>2, <3>3, Zenon
  <2>5. m \in Lease /\ m.owner = call[c].owner /\ m.status = "booting"
    <3>1. /\ (d \notin call[c].seen \cup Vega) \in BOOLEAN
          /\ (d \in Apple \cup Vega \cup call[c].seen) \in BOOLEAN
          /\ "booting" \in Status
      BY DEF Status
    <3>2. m = [dev |-> d, owner |-> call[c].owner, status |-> "booting",
               bootedByUs |-> d \notin call[c].seen \cup Vega,
               handle |-> d \in Apple \cup Vega \cup call[c].seen]
      BY DEF Reserved
    <3>3. m \in Lease
      <4> HIDE DEF m
      <4> QED BY <2>2, <2>3, <3>1, <3>2, Zenon DEF Lease
    <3> QED BY <3>3 DEF Reserved
  <2>6. /\ g.pc = "booting" /\ g.rec = r /\ g.old = call[c].old
        /\ g.owner = call[c].owner /\ g.op = call[c].op
    BY <1>1 DEF CallRecord
  <2>7. call' = [call EXCEPT ![c] = g]
    BY <2>1
  <2>8. Keep(l) /\ Publish
    <3>1. [lease EXCEPT ![r] = m] = l
      BY DEF IInv, TypeOK
    <3> QED BY <2>1, <3>1
  <2>9. table' = [table EXCEPT ![d] = r]
    BY <2>1
  <2>10. \A q \in Id : l[q] = IF q = r THEN m ELSE lease[q]
    OBVIOUS
  <2> HIDE DEF m, r, g, l
  <2> QED BY <1>1, <2>3, <2>4, <2>5, <2>6, <2>7, <2>8, <2>9, <2>10, ReserveTold
<1> QED BY <1>2, <1>3 DEF Choose

LEMMA RestoreOldTold ==
  ASSUME IInv, IInv', ToldInv, NEW c \in Call, RestoreOld(c)
  PROVE  ToldInv'
PROOF
<1> USE ConstantsAssumption, NoLeaseAssumption
<1> DEFINE r == call[c].old
           d == lease[r].dev
           a == call[c].owner
<1>1. /\ call[c].pc = "restoring" /\ call' = [call EXCEPT ![c] = Idle]
      /\ UNCHANGED <<alive, erasing>> /\ Keep(lease) /\ (Publish \/ saved' = saved)
  BY DEF RestoreOld, loops, world
<1>2. /\ table' = [table EXCEPT ![d] = r] /\ table[d] = NoId
         /\ told' = IF alive[a] THEN [told EXCEPT ![a] = @ \cup {d}] ELSE told
      \/ UNCHANGED <<table, told>>
  BY DEF RestoreOld, Restorable, Leased
<1>3. /\ r \in Id /\ r # NoId /\ lease[r] # NoLease /\ lease[r].owner = a /\ lease[r].handle
      /\ a \in Agent /\ call[c].op = "change"
  <2>1. call[c].op = "change"
    BY <1>1 DEF ToldInv, Changing
  <2> QED BY <1>1, <2>1, CallRefs DEF ToldInv, Changing, IInv, CallShape
<1>4. d \in Device
  BY <1>3, LiveRecord
<1>5. \A x \in Call : call[x].pc \in Busy => call[x].rec # r
  BY <1>1, <1>3, RecsApart DEF Busy
<1>6. \A x \in Call \ {c} : call[x].owner # a
  BY <1>3, CallRefs
<1>7. Idle.pc = "idle" /\ Idle.owner = NoAgent /\ Idle.op = "request"
  BY DEF Idle
<1>8. call'[c] = Idle /\ \A x \in Call \ {c} : call'[x] = call[x]
  BY <1>1 DEF IInv, TypeOK
<1> HIDE DEF r, d, a
<1>9. CASE UNCHANGED <<table, told>>
  <2> DEFINE Devs == {}
  <2>1. table' = [e \in Device |-> IF e \in Devs THEN NoId ELSE table[e]]
    BY <1>9 DEF IInv, TypeOK
  <2>2. \A e \in Devs, b \in Agent : e \notin told[b]
    OBVIOUS
  <2>3. call[c].pc \notin Busy /\ Moved(call[c], Idle)
    BY <1>1 DEF Busy, Moved
  <2>4. UNCHANGED <<told, alive, erasing>>
    BY <1>1, <1>9
  <2> HIDE DEF Devs
  <2> QED BY ZenonT(40), <1>1, <2>1, <2>2, <2>3, <2>4, OnTold
<1>10. CASE /\ table' = [table EXCEPT ![d] = r] /\ table[d] = NoId
            /\ told' = IF alive[a] THEN [told EXCEPT ![a] = @ \cup {d}] ELSE told
  <2>1. table'[d] = r /\ \A e \in Device \ {d} : table'[e] = table[e]
    BY <1>4, <1>10 DEF IInv, TypeOK
  <2>2. \A b \in Agent : told'[b] \subseteq told[b] \cup (IF b = a /\ alive[a] THEN {d} ELSE {})
    BY <1>10 DEF IInv, TypeOK
  <2>3. \A q \in Id : lease'[q] \in {lease[q], NoLease} /\ (q \in Refs' => lease'[q] = lease[q])
    BY <1>1 DEF Keep
  <2>4. \A e \in Device : table'[e] # NoId =>
          table'[e] \in Id /\ lease[table'[e]] # NoLease /\ lease'[table'[e]] = lease[table'[e]]
    <3> SUFFICES ASSUME NEW e \in Device, table'[e] # NoId
                 PROVE  table'[e] \in Id /\ lease[table'[e]] # NoLease /\ lease'[table'[e]] = lease[table'[e]]
      OBVIOUS
    <3>1. table'[e] \in Id /\ lease'[table'[e]] # NoLease
      BY DEF IInv, TypeOK, Records, Leased
    <3> QED BY <2>3, <3>1
  <2>5. \A x \in Call \ {c} : call[x].pc \in Busy => lease'[call[x].rec] = lease[call[x].rec]
    <3> SUFFICES ASSUME NEW x \in Call \ {c}, call[x].pc \in Busy
                 PROVE  lease'[call[x].rec] = lease[call[x].rec]
      OBVIOUS
    <3>1. call[x].rec \in Id /\ call[x].rec # NoId
      BY CallRefs
    <3>2. lease'[call[x].rec] # NoLease
      BY <1>8, <3>1 DEF IInv, RefsLive
    <3> QED BY <2>3, <3>1, <3>2
  <2>6. \A x \in Call \ {c} : call[x].op = "change" => lease'[call[x].old] = lease[call[x].old]
    <3> SUFFICES ASSUME NEW x \in Call \ {c}, call[x].op = "change"
                 PROVE  lease'[call[x].old] = lease[call[x].old]
      OBVIOUS
    <3>1. call[x].old \in Id /\ call[x].old # NoId
      BY CallRefs
    <3>2. lease'[call[x].old] # NoLease
      BY <1>8, <3>1 DEF IInv, RefsLive
    <3> QED BY <2>3, <3>1, <3>2
  <2>7. \A b \in Agent : \A e \in told[b] : e \in Device /\ e # d /\ table[e] # NoId /\ lease[table[e]].owner = b
    BY <1>10, ToldLease
  <2>8. ToldIsHeld'
    <3> SUFFICES ASSUME NEW b \in Agent, NEW e \in told'[b]
                 PROVE  table'[e] # NoId /\ lease'[table'[e]].owner = b
      BY DEF ToldIsHeld, Leased, At
    <3>1. CASE e \in told[b]
      BY <2>1, <2>4, <2>7, <3>1
    <3>2. CASE b = a /\ e = d
      BY <1>3, <1>4, <2>1, <2>4, <3>2
    <3> QED BY <2>2, <3>1, <3>2
  <2>9. Mourned'
    BY <1>1, <2>2 DEF ToldInv, Mourned
  <2>10. Ownerless'
    <3>1. \A q \in Id : lease'[q] # NoLease /\ lease'[q].status = "repairing" => lease'[q].owner = NoAgent
      BY <2>3 DEF ToldInv, Ownerless
    <3>2. \A q \in erasing' : lease'[q] # NoLease /\ lease'[q].owner = NoAgent
      <4>1. \A q \in erasing' : q \in erasing /\ q \in Id /\ q \in Refs'
        BY <1>1 DEF IInv, TypeOK, Refs
      <4> QED BY <2>3, <4>1 DEF ToldInv, Ownerless
    <3>3. ASSUME NEW e \in Device, saved'[e] # NoLease, saved'[e].status = "repairing"
          PROVE  saved'[e].owner = NoAgent
      <4>1. CASE saved' = saved
        BY <3>3, <4>1 DEF ToldInv, Ownerless
      <4>2. CASE Publish
        <5>1. table'[e] # NoId /\ saved'[e] = Rehydrated(lease'[table'[e]])
          BY <3>3, <4>2 DEF Publish
        <5>2. table'[e] \in Id /\ lease'[table'[e]] # NoLease
          BY <2>4, <5>1
        <5>3. lease'[table'[e]] \in Lease
          BY <5>2 DEF IInv, TypeOK
        <5>4. \A x \in Lease : Rehydrated(x).status = "repairing" =>
                 x.status = "repairing" /\ Rehydrated(x).owner = x.owner
          BY DEF Rehydrated, Lease
        <5> QED BY <3>1, <3>3, <5>1, <5>2, <5>3, <5>4
      <4> QED BY <1>1, <4>1, <4>2
    <3> QED BY <3>1, <3>2, <3>3 DEF Ownerless
  <2>11. OneCall'
    BY <1>7, <1>8 DEF ToldInv, OneCall
  <2>12. Booting'
    <3> SUFFICES ASSUME NEW x \in Call, call'[x].pc \in Busy
                 PROVE  /\ lease'[call'[x].rec].owner = call'[x].owner
                        /\ \A e \in Device, b \in Agent : table'[e] = call'[x].rec => e \notin told'[b]
      BY DEF Booting
    <3>1. x # c /\ call'[x] = call[x]
      BY <1>7, <1>8 DEF Busy
    <3>2. call[x].rec # r /\ lease'[call[x].rec] = lease[call[x].rec]
      BY <1>5, <2>5, <3>1
    <3>3. \A e \in Device : table'[e] = call[x].rec => table[e] = call[x].rec /\ e # d
      BY <2>1, <3>2
    <3> QED BY <2>2, <3>1, <3>2, <3>3 DEF ToldInv, Booting
  <2>13. Changing'
    <3> SUFFICES ASSUME NEW x \in Call
                 PROVE  /\ call'[x].op = "change" =>
                             /\ "change" \in Traffic
                             /\ lease'[call'[x].old].owner = call'[x].owner /\ lease'[call'[x].old].handle
                             /\ call'[x].pc = "freeing" => /\ call'[x].target = lease'[call'[x].old].dev
                                                           /\ call'[x].target \notin told'[call'[x].owner]
                             /\ call'[x].pc \in Busy => call'[x].rec # call'[x].old
                        /\ call'[x].pc \in {"freeing", "restoring"} => call'[x].op = "change"
      BY DEF Changing
    <3>1. CASE x = c
      BY <1>7, <1>8, <3>1
    <3>2. CASE x # c
      <4>1. call'[x] = call[x] /\ call[x].owner # a
        BY <1>6, <1>8, <3>2
      <4>2. call[x].pc = "freeing" => call[x].owner \in Agent
        BY DEF IInv, CallShape
      <4>3. call[x].owner \in Agent => told'[call[x].owner] \subseteq told[call[x].owner]
        BY <2>2, <4>1
      <4> QED BY <2>6, <3>2, <4>1, <4>2, <4>3 DEF ToldInv, Changing
    <3> QED BY <3>1, <3>2
  <2>14. Addressed'
    <3> SUFFICES ASSUME "change" \in Traffic, NEW e \in Device, table'[e] # NoId,
                        lease'[table'[e]].owner # NoAgent, ~lease'[table'[e]].handle
                 PROVE  \E x \in Call : call'[x].pc \in Busy /\ call'[x].rec = table'[e]
      BY DEF Addressed, Leased, At
    <3>1. lease'[table'[e]] = lease[table'[e]]
      BY <2>4
    <3>2. e # d
      BY <1>3, <2>1, <3>1
    <3>3. table'[e] = table[e]
      BY <2>1, <3>2
    <3>4. PICK x \in Call : call[x].pc \in Busy /\ call[x].rec = table[e]
      BY <3>1, <3>3 DEF ToldInv, Addressed, Leased, At
    <3>5. x # c
      BY <1>1, <3>4 DEF Busy
    <3> QED BY <1>8, <3>3, <3>4, <3>5
  <2> QED BY <2>8, <2>9, <2>10, <2>11, <2>12, <2>13, <2>14 DEF ToldInv
<1> QED BY <1>2, <1>9, <1>10

LEMMA HandlerTold ==
  ASSUME IInv, IInv', ToldInv, Sequential, NEW c \in Call, Handler(c)
  PROVE  ToldInv'
PROOF
<1>1. CASE \E a \in Agent, want \in Requirements : RequestArrives(c, a, want)
  BY <1>1, ArrivalsTold
<1>2. CASE \E a \in Agent, d \in Device : ClaimArrives(c, a, d)
  BY <1>2, ArrivalsTold
<1>3. ASSUME NEW a \in Agent, NEW want \in Requirements, NEW id \in Named(a),
             "change" \in Traffic, ChangeArrives(c, a, id, want)
      PROVE  ToldInv'
  BY <1>3, ArrivalsTold
<1>4. ASSUME NEW a \in Agent, NEW want \in Requirements, NEW id \in Named(a), BrokenArrives(c, a, id, want)
      PROVE  ToldInv'
  BY <1>4, BrokenTold
<1>5. CASE Gate(c)
  BY <1>5, GateTold
<1>6. CASE Enumerate(c) \/ Boot(c) \/ DropFailed(c) \/ FreeOld(c)
  BY <1>6, QuietTold
<1>7. CASE Choose(c)
  BY <1>7, ChooseTold
<1>8. CASE BootAnswers(c)
  BY <1>8, BootAnswersTold
<1>9. CASE RestoreOld(c)
  BY <1>9, RestoreOldTold
<1> QED BY <1>1, <1>2, <1>3, <1>4, <1>5, <1>6, <1>7, <1>8, <1>9 DEF Handler

LEMMA NextTold == Orderly /\ IInv /\ IInv' /\ ToldInv /\ [Next]_vars => ToldInv'
PROOF
<1> SUFFICES ASSUME Orderly, IInv, IInv', ToldInv, [Next]_vars PROVE ToldInv'
  OBVIOUS
<1>1. CASE \E c \in Call : Handler(c)
  BY <1>1, HandlerTold DEF Orderly
<1>2. CASE OneStep
  BY <1>2, OneStepTold
<1>3. CASE Timer
  BY <1>3, TimerTold
<1>4. CASE World
  <2>1. CASE (\E d \in Device : StopLands(d)) \/ (\E a \in Agent : AgentDies(a))
    BY <2>1, WorldTold
  <2>2. CASE ("crash" \in Traffic /\ Restart(FALSE)) \/ ("sigterm" \in Traffic /\ Restart(TRUE))
    <3>1. "change" \notin Traffic
      BY <2>2 DEF Orderly
    <3> QED BY <2>2, <3>1, RestartTold
  <2> QED BY <1>4, <2>1, <2>2 DEF World
<1>5. CASE UNCHANGED vars
  BY <1>5 DEF vars, ToldInv, ToldIsHeld, Mourned, Ownerless, OneCall, Booting, Changing,
              Addressed, Leased, At
<1> QED BY <1>1, <1>2, <1>3, <1>4, <1>5 DEF Next

LEMMA InitTold == Init => ToldInv
  BY ConstantsAssumption, NoLeaseAssumption
  DEF Init, Idle, ToldInv, ToldIsHeld, Mourned, Ownerless, OneCall, Booting, Changing, Addressed,
      Leased, At, Busy

\* What an agent was told is its own stays leased to it, through its own and
\* the others' calls, failed boots, deaths, repairs, timers and restarts of
\* the daemon (daemon.js:3-6, :196-201).
THEOREM ToldKept ==
  ASSUME Orderly
  PROVE  Spec => []ToldIsHeld
PROOF
<1>1. Spec => []IInv
  BY InitInv, NextInv, PTL DEF Spec
<1>2. IInv /\ IInv' /\ ToldInv /\ [Next]_vars => ToldInv'
  BY NextTold
<1>3. ToldInv => ToldIsHeld
  BY DEF ToldInv
<1> QED BY <1>1, <1>2, <1>3, InitTold, PTL DEF Spec
----------------------------------------------------------------------------
(* Shutdowns *)

\* Leases that are stopped are stopped at their own devices.
LEMMA ShutdownOwn ==
  ASSUME IInv, NEW Devs, \A d \in Devs : d \in Device /\ Leased(d)
  PROVE  ShutdownBooted(Devs) \subseteq Devs
PROOF
<1> SUFFICES ASSUME NEW d \in Devs PROVE ShutdownOf(At(d)) \subseteq {d}
  BY DEF ShutdownBooted
<1>1. table[d] \in Id /\ table[d][1] = d /\ lease[table[d]] # NoLease
  BY DEF IInv, TypeOK, Records, Leased
<1>2. At(d).dev = d
  BY <1>1, LiveRecord DEF At
<1> QED BY <1>2 DEF ShutdownOf

\* A step that frees what it stops.
LEMMA FreedStops ==
  ASSUME IInv, NEW Devs, NEW E, \A d \in Devs : d \in Device /\ Leased(d), E \subseteq Devs,
         table' = Without(Devs), stops' = stops \cup ShutdownBooted(E)
  PROVE  StopsFree
PROOF
<1>1. ShutdownBooted(E) \subseteq E
  BY ShutdownOwn
<1>2. \A d \in Devs : table'[d] = NoId
  BY DEF Without
<1> QED BY <1>1, <1>2 DEF StopsFree

\* The answer of a boot stops its own device, if it failed or nobody else was
\* given it, and a change stops its old one, if nobody was given it.
LEMMA BootStops ==
  ASSUME IInv, NEW c \in Call, BootAnswers(c)
  PROVE  StopsFree
PROOF
<1> USE ConstantsAssumption, NoLeaseAssumption
<1> DEFINE r == call[c].rec
<1>1. PICK ok \in BOOLEAN :
        LET m == Booted(lease[r], ok)
        IN /\ ReleasedMidBoot(c, m) \/ BootFailed(c, m) \/ Granted(c, m)
           /\ UNCHANGED <<table, loops>>
           /\ Keep([lease EXCEPT ![r] = m])
  BY DEF BootAnswers
<1> DEFINE m == Booted(lease[r], ok)
<1>2. call[c].pc = "waiting"
  BY DEF BootAnswers
<1>3. r \in Id /\ r # NoId /\ lease[r] # NoLease
  BY <1>2 DEF IInv, TypeOK, CallShape, RefsLive, CallRecord
<1>4. lease[r] \in Lease /\ lease[r].dev = r[1] /\ r[1] \in Device
  BY <1>3, LiveRecord
<1>5. m.dev = r[1]
  <2>1. \A x \in Lease : Booted(x, ok).dev = x.dev
    BY BootedTyped
  <2> QED BY ONLY <1>4, <2>1
<1>6. /\ table' = table /\ Keep([lease EXCEPT ![r] = m])
      /\ ReleasedMidBoot(c, m) \/ BootFailed(c, m) \/ Granted(c, m)
  BY <1>1
<1> HIDE DEF m
<1>7. \A x : ShutdownOf(x) \subseteq {x.dev}
  BY DEF ShutdownOf
<1>8. CASE ReleasedMidBoot(c, m)
  <2>1. \A d \in stops' \ stops : d = r[1] /\ table[d] = NoId
    BY <1>5, <1>7, <1>8 DEF ReleasedMidBoot, Leased
  <2> QED BY <1>6, <2>1 DEF StopsFree
<1>9. CASE BootFailed(c, m)
  <2>1. \A d \in stops' \ stops : d = r[1]
    BY <1>5, <1>7, <1>9 DEF BootFailed
  <2>2. PICK e \in Device : table[e] = r
    BY <1>9 DEF BootFailed, Held
  <2>3. e = r[1]
    BY <1>3, <2>2 DEF IInv, Records, Leased
  <2>4. r \in Refs'
    BY <1>6, <2>2 DEF Refs
  <2>5. lease'[r] = m /\ m.status = "error"
    BY <1>3, <1>6, <1>9, <2>4 DEF Keep, BootFailed, IInv, TypeOK
  <2> QED BY <1>6, <2>1, <2>2, <2>3, <2>5 DEF StopsFree
<1>10. CASE Granted(c, m)
  <2> DEFINE o == lease[call[c].old]
  <2>1. \A d \in stops' \ stops : d = o.dev /\ table[d] = NoId
    BY <1>7, <1>10 DEF Granted, Leased
  <2> QED BY <1>6, <2>1 DEF StopsFree
<1> QED BY <1>6, <1>8, <1>9, <1>10

LEMMA StepStops ==
  ASSUME AutoRepair = FALSE, IInv, erasing = {}, [Next]_vars
  PROVE  StopsFree /\ erasing' = {}
PROOF
<1>0. ASSUME stops' \subseteq stops PROVE StopsFree
  BY <1>0 DEF StopsFree
<1>1. ASSUME NEW c \in Call, Handler(c) PROVE StopsFree /\ erasing' = {}
  <2>1. CASE Gate(c)
    <3>1. PICK gone \in SUBSET Reapable : table' = Without(gone) /\ stops' = stops \cup ReapStops(gone)
      BY <2>1 DEF Gate
    <3> DEFINE E == {d \in gone : At(d).status # "repairing"}
    <3>2. stops' = stops \cup ShutdownBooted(E)
      BY <3>1 DEF ReapStops
    <3>3. E \subseteq gone /\ \A d \in gone : d \in Device /\ Leased(d)
      BY DEF Reapable
    <3> HIDE DEF E
    <3>4. erasing' = {}
      BY <2>1 DEF Gate, loops
    <3> QED BY <3>1, <3>2, <3>3, <3>4, FreedStops
  <2>2. CASE BootAnswers(c)
    BY <2>2, BootStops DEF BootAnswers, loops
  <2>3. CASE \E a \in Agent, want \in Requirements : \E id \in Named(a) : BrokenArrives(c, a, id, want)
    BY <1>0, <2>3 DEF BrokenArrives
  <2>4. CASE ~Gate(c) /\ ~BootAnswers(c)
             /\ ~(\E a \in Agent, want \in Requirements : \E id \in Named(a) : BrokenArrives(c, a, id, want))
    <3>1. UNCHANGED <<stops, erasing>>
      BY <1>1, <2>4 DEF Handler, RequestArrives, ClaimArrives, ChangeArrives, Enumerate, Choose, Boot,
            DropFailed, FreeOld, RestoreOld, loops, world
    <3> QED BY <1>0, <3>1
  <2> QED BY <2>1, <2>2, <2>3, <2>4
<1>2. CASE OneStep
  <2>1. ASSUME NEW a \in Agent, NEW id, Releases(a, FindOwned(a, id)) PROVE StopsFree /\ erasing' = {}
    <3> DEFINE Devs == FindOwned(a, id)
    <3>1. table' = Without(Devs) /\ stops' = stops \cup ShutdownBooted(Devs) /\ erasing' = {}
      BY <2>1 DEF Releases, loops
    <3>2. \A d \in Devs : d \in Device /\ Leased(d)
      BY FindOwnedLeased
    <3> HIDE DEF Devs
    <3> QED BY <3>1, <3>2, FreedStops
  <2>2. ASSUME NEW d \in Device, Kill(d) PROVE StopsFree /\ erasing' = {}
    <3>1. table'[d] = NoId /\ erasing' = {}
      BY <2>2 DEF Kill, Without, loops
    <3>2. Leased(d) => ShutdownOf(At(d)) \subseteq {d}
      <4>1. ASSUME Leased(d) PROVE At(d).dev = d
        <5>1. table[d] \in Id /\ table[d][1] = d /\ lease[table[d]] # NoLease
          BY <4>1 DEF IInv, TypeOK, Records, Leased
        <5> QED BY <5>1, LiveRecord DEF At
      <4> QED BY <4>1 DEF ShutdownOf
    <3>3. \A e \in stops' \ stops : e = d
      BY <2>2, <3>2 DEF Kill
    <3> QED BY <3>1, <3>3 DEF StopsFree
  <2>3. ASSUME NEW d \in Device, Repaired(d) PROVE StopsFree /\ erasing' = {}
    BY <1>0, <2>3 DEF Repaired, loops, world
  <2> QED BY <1>2, <2>1, <2>2, <2>3 DEF OneStep, Release, Exit
<1>3. CASE Timer
  <2>1. ASSUME NEW gone \in SUBSET Device, Reap(gone) PROVE StopsFree /\ erasing' = {}
    <3> DEFINE E == {d \in gone : At(d).status # "repairing"}
    <3>1. table' = Without(gone) /\ stops' = stops \cup ShutdownBooted(E) /\ erasing' = {}
      BY <2>1 DEF Reap, ReapStops, loops
    <3>2. E \subseteq gone /\ \A d \in gone : d \in Device /\ Leased(d)
      BY <2>1 DEF Reap, Reapable
    <3> HIDE DEF E
    <3> QED BY <3>1, <3>2, FreedStops
  <2>2. ASSUME NEW r \in Id, SweepJudge(r) PROVE StopsFree /\ erasing' = {}
    <3>1. erasing' = {}
      BY <2>2 DEF SweepJudge
    <3>2. CASE UNCHANGED stops
      BY <1>0, <3>1, <3>2
    <3>3. CASE Idles(r) /\ table' = Without({lease[r].dev})
               /\ stops' = stops \cup ShutdownBooted({lease[r].dev})
      <4>1. PICK e \in Device : table[e] = r
        BY <3>3 DEF Idles, Held
      <4>2. table[e][1] = e /\ lease[r] # NoLease
        BY <4>1, <3>3, ConstantsAssumption DEF IInv, Records, Leased
      <4>3. lease[r].dev = e /\ Leased(e)
        BY <4>1, <4>2, LiveRecord, ConstantsAssumption DEF Leased
      <4> QED BY <3>1, <3>3, <4>3, FreedStops
    <3> QED BY <2>2, <3>2, <3>3 DEF SweepJudge
  <2>3. CASE SweepBegin \/ PoolRefresh
    BY <1>0, <2>3 DEF SweepBegin, PoolRefresh, loops, world
  <2> QED BY <1>3, <2>1, <2>2, <2>3 DEF Timer, WipeBoots, EraseAnswers
<1>4. CASE World
  BY <1>0, <1>4 DEF World, StopLands, AgentDies, Restart, loops
<1>5. CASE UNCHANGED vars
  BY <1>0, <1>5 DEF vars, loops, world
<1> QED BY <1>1, <1>2, <1>3, <1>4, <1>5 DEF Next

\* No erase is under way.
NoErase == erasing = {}

\* No shutdown is issued for a device that somebody else has been given since
\* its lease was looked at (daemon.js:251-258, :308-311).
THEOREM OnlyFreeAreStopped ==
  ASSUME AutoRepair = FALSE
  PROVE  Spec => StopsOnlyFree
PROOF
<1>1. Init => IInv /\ NoErase
  BY InitInv DEF Init, NoErase
<1>2. IInv /\ NoErase /\ [Next]_vars => IInv' /\ NoErase'
  BY NextInv, StepStops DEF NoErase
<1>3. IInv /\ NoErase /\ [Next]_vars => [StopsFree]_vars
  BY StepStops DEF NoErase
<1> QED BY <1>1, <1>2, <1>3, PTL DEF Spec, StopsOnlyFree
----------------------------------------------------------------------------
(* Quarantines *)

\* What has no owner is quarantined, in memory and on disk.
Unowned ==
  /\ \A r \in Id : lease[r] # NoLease /\ lease[r].owner = NoAgent => lease[r].status = "repairing"
  /\ \A d \in Device : saved[d] # NoLease /\ saved[d].owner = NoAgent
                         => saved[d].status = "repairing"

\* l is what the step wrote.
LEMMA UnownedWrite ==
  ASSUME IInv', Unowned, NEW l,
         \A r \in Id : lease'[r] # NoLease => lease'[r] = l[r],
         \A r \in Id : l[r] # NoLease /\ l[r].owner = NoAgent => l[r].status = "repairing",
         Publish \/ saved' = saved
  PROVE  Unowned'
PROOF
<1>1. \A r \in Id : lease'[r] # NoLease /\ lease'[r].owner = NoAgent
                      => lease'[r].status = "repairing"
  OBVIOUS
<1>2. CASE saved' = saved
  BY <1>1, <1>2 DEF Unowned
<1>3. CASE Publish
  <2> SUFFICES ASSUME NEW d \in Device, saved'[d] # NoLease, saved'[d].owner = NoAgent
               PROVE  saved'[d].status = "repairing"
    BY <1>1 DEF Unowned
  <2> DEFINE r == table'[d]
  <2>1. r # NoId /\ saved'[d] = Rehydrated(lease'[r])
    BY <1>3 DEF Publish
  <2>2. r \in Id /\ lease'[r] # NoLease /\ lease'[r] \in Lease
    BY <2>1 DEF IInv, TypeOK, Records, Leased
  <2> HIDE DEF r
  <2>3. saved'[d].owner = lease'[r].owner
    BY <2>1, <2>2, RehydratedKeeps
  <2>4. lease'[r].status = "repairing"
    BY <1>1, <2>2, <2>3
  <2> QED BY <2>1, <2>2, <2>4 DEF Rehydrated, Lease
<1> QED BY <1>2, <1>3

LEMMA UnownedKept ==
  ASSUME IInv', Unowned, Keep(lease) \/ lease' = lease, Publish \/ saved' = saved
  PROVE  Unowned'
PROOF
<1>1. \A r \in Id : lease'[r] # NoLease => lease'[r] = lease[r]
  BY DEF Keep
<1> QED BY <1>1, UnownedWrite DEF Unowned

\* One record is written: it has an owner, or is quarantined.
LEMMA UnownedOne ==
  ASSUME IInv, IInv', Unowned, NEW r \in Id, NEW m,
         m.owner = NoAgent => m.status = "repairing",
         Keep([lease EXCEPT ![r] = m]) \/ lease' = [lease EXCEPT ![r] = m],
         Publish \/ saved' = saved
  PROVE  Unowned'
PROOF
<1> DEFINE l == [q \in Id |-> IF q = r THEN m ELSE lease[q]]
<1>1. [lease EXCEPT ![r] = m] = l
  BY DEF IInv, TypeOK
<1>2. \A q \in Id : lease'[q] # NoLease => lease'[q] = l[q]
  BY <1>1 DEF Keep
<1>3. \A q \in Id : l[q] # NoLease /\ l[q].owner = NoAgent => l[q].status = "repairing"
  BY DEF Unowned
<1> HIDE DEF l
<1> QED BY <1>2, <1>3, UnownedWrite

LEMMA UnownedBroken ==
  ASSUME IInv, IInv', Unowned, NEW c \in Call, NEW a \in Agent, NEW want \in Requirements,
         NEW id \in Named(a), BrokenArrives(c, a, id, want)
  PROVE  Unowned'
PROOF
<1>1. PICK d \in FindOwned(a, id) :
       lease' = [lease EXCEPT ![table[d]].status = "repairing", ![table[d]].owner = NoAgent]
  BY DEF BrokenArrives
<1>2. table[d] \in Id /\ lease[table[d]] \in Lease /\ Publish
  BY ConstantsAssumption DEF FindOwned, Leased, IInv, TypeOK, Records, BrokenArrives
<1> DEFINE x == [lease[table[d]] EXCEPT !.status = "repairing"]
           m == [x EXCEPT !.owner = NoAgent]
<1>3. lease' = [lease EXCEPT ![table[d]] = m]
  BY <1>1, <1>2 DEF IInv, TypeOK
<1>4. m.status = "repairing"
  <2>1. x \in Lease /\ x.status = "repairing"
    BY <1>2, SetStatus DEF Status
  <2> HIDE DEF x
  <2> QED BY <2>1, SetOwner
<1> HIDE DEF m
<1> QED BY <1>2, <1>3, <1>4, UnownedOne

\* A lease that boots has the owner that its call has.
LEMMA UnownedBoot ==
  ASSUME IInv, IInv', ToldInv, Unowned, NEW c \in Call, BootAnswers(c)
  PROVE  Unowned'
PROOF
<1> DEFINE r == call[c].rec
<1>1. PICK ok \in BOOLEAN : Keep([lease EXCEPT ![r] = Booted(lease[r], ok)])
  BY DEF BootAnswers
<1>2. call[c].pc = "waiting" /\ saved' = saved
  BY DEF BootAnswers
<1>3. r \in Id /\ lease[r] # NoLease /\ lease[r].owner = call[c].owner /\ call[c].owner \in Agent
  BY <1>2, CallRefs DEF Busy, ToldInv, Booting
<1>4. lease[r] \in Lease
  BY <1>3, LiveRecord
<1> DEFINE m == Booted(lease[r], ok)
<1>5. m.owner = lease[r].owner
  BY <1>4, BootedTyped
<1>6. m.owner # NoAgent
  BY <1>3, <1>5, ConstantsAssumption
<1> HIDE DEF m, r
<1>7. Keep([lease EXCEPT ![r] = m])
  BY <1>1 DEF m
<1> QED BY <1>2, <1>3, <1>6, <1>7, UnownedOne

LEMMA UnownedChoose ==
  ASSUME IInv, IInv', Unowned, NEW c \in Call, Choose(c)
  PROVE  Unowned'
PROOF
<1>1. CASE Keep(lease) /\ saved' = saved
  BY <1>1, UnownedKept
<1>2. CASE \E d \in Candidates(c) :
             LET r == <<d, CHOOSE s \in Fresh(d) : TRUE>>
             IN /\ table' = [table EXCEPT ![d] = r]
                /\ Keep([lease EXCEPT ![r] = Reserved(c, d)])
                /\ Fresh(d) # {} /\ Publish
  <2>1. PICK d \in Candidates(c) :
             LET r == <<d, CHOOSE s \in Fresh(d) : TRUE>>
             IN /\ Keep([lease EXCEPT ![r] = Reserved(c, d)])
                /\ Fresh(d) # {} /\ Publish
    BY <1>2
  <2> DEFINE r == <<d, CHOOSE s \in Fresh(d) : TRUE>>
             l == [lease EXCEPT ![r] = Reserved(c, d)]
  <2>2. call[c].owner \in Agent
    BY DEF Choose, IInv, CallShape
  <2>3. Reserved(c, d).owner # NoAgent
    BY <2>2, ConstantsAssumption DEF Reserved
  <2>4. Keep(l) /\ Publish
    BY <2>1
  <2>5. \A q \in Id : l[q] \in {lease[q], Reserved(c, d)}
    BY DEF IInv, TypeOK
  <2>6. \A q \in Id : lease'[q] # NoLease => lease'[q] = l[q]
    BY <2>4 DEF Keep
  <2> HIDE DEF l
  <2>7. \A q \in Id : l[q] # NoLease /\ l[q].owner = NoAgent => l[q].status = "repairing"
    BY <2>3, <2>5 DEF Unowned
  <2> QED BY <2>4, <2>6, <2>7, UnownedWrite
<1> QED BY <1>1, <1>2 DEF Choose

LEMMA UnownedErase ==
  ASSUME IInv, IInv', Unowned, NEW r \in Id, EraseAnswers(r)
  PROVE  Unowned'
PROOF
<1>1. PICK ok \in BOOLEAN :
        Keep(IF Held(r) /\ ~ok THEN [lease EXCEPT ![r].status = "repairing"] ELSE lease)
  BY DEF EraseAnswers
<1>2. Publish \/ saved' = saved
  BY DEF EraseAnswers
<1>3. CASE ~(Held(r) /\ ~ok)
  BY <1>1, <1>2, <1>3, UnownedKept
<1>4. CASE Held(r) /\ ~ok
  <2>1. lease[r] \in Lease
    BY <1>4, ConstantsAssumption DEF Held, IInv, TypeOK, Records, Leased
  <2> DEFINE m == [lease[r] EXCEPT !.status = "repairing"]
  <2>2. m.status = "repairing"
    BY <2>1, SetStatus DEF Status
  <2>3. Keep([lease EXCEPT ![r] = m])
    BY <1>1, <1>4
  <2> HIDE DEF m
  <2> QED BY <1>2, <2>2, <2>3, UnownedOne
<1> QED BY <1>3, <1>4

LEMMA UnownedRestart ==
  ASSUME IInv, Unowned, NEW sigterm \in BOOLEAN, Restart(sigterm)
  PROVE  Unowned'
PROOF
<1>1. saved' = saved /\ \A r \in Id : lease'[r] # NoLease => lease'[r] = saved[r[1]]
  BY DEF Restart
<1> QED BY <1>1 DEF Unowned, Id

LEMMA UnownedNext == IInv /\ IInv' /\ ToldInv /\ Unowned /\ [Next]_vars => Unowned'
PROOF
<1> SUFFICES ASSUME IInv, IInv', ToldInv, Unowned, [Next]_vars PROVE Unowned'
  OBVIOUS
<1>0. ASSUME Keep(lease) \/ lease' = lease, Publish \/ saved' = saved PROVE Unowned'
  BY <1>0, UnownedKept
<1>1. ASSUME NEW c \in Call, Handler(c) PROVE Unowned'
  <2>1. CASE \/ \E a \in Agent, want \in Requirements : RequestArrives(c, a, want)
             \/ \E a \in Agent, d \in Device : ClaimArrives(c, a, d)
             \/ \E a \in Agent, want \in Requirements : \E id \in Named(a) : ChangeArrives(c, a, id, want)
    BY <1>0, <2>1 DEF RequestArrives, ClaimArrives, ChangeArrives
  <2>2. CASE \E a \in Agent, want \in Requirements : \E id \in Named(a) : BrokenArrives(c, a, id, want)
    BY <2>2, UnownedBroken
  <2>3. CASE Gate(c)
    BY <1>0, <2>3 DEF Gate
  <2>4. CASE Enumerate(c) \/ Boot(c)
    BY <1>0, <2>4 DEF Enumerate, Boot
  <2>5. CASE Choose(c) \/ BootAnswers(c)
    BY <2>5, UnownedChoose, UnownedBoot
  <2>6. CASE DropFailed(c) \/ FreeOld(c) \/ RestoreOld(c)
    BY <1>0, <2>6 DEF DropFailed, FreeOld, RestoreOld
  <2> QED BY <1>1, <2>1, <2>2, <2>3, <2>4, <2>5, <2>6 DEF Handler
<1>2. CASE OneStep
  <2>1. Keep(lease) /\ Publish
    BY <1>2 DEF OneStep, Release, Exit, Releases, Kill, Repaired
  <2> QED BY <1>0, <2>1
<1>3. CASE Timer
  <2>1. CASE \E r \in Id : EraseAnswers(r)
    BY <2>1, UnownedErase
  <2>2. CASE \E gone \in SUBSET Device : Reap(gone)
    BY <1>0, <2>2 DEF Reap
  <2>3. CASE \E r \in Id : SweepJudge(r)
    BY <1>0, <2>3 DEF SweepJudge
  <2>4. CASE SweepBegin \/ PoolRefresh \/ \E r \in Id : WipeBoots(r)
    BY <1>0, <2>4 DEF SweepBegin, PoolRefresh, WipeBoots
  <2> QED BY <1>3, <2>1, <2>2, <2>3, <2>4 DEF Timer
<1>4. CASE World
  <2>1. CASE (\E d \in Device : StopLands(d)) \/ (\E a \in Agent : AgentDies(a))
    BY <1>0, <2>1 DEF StopLands, AgentDies
  <2>2. CASE Restart(FALSE) \/ Restart(TRUE)
    BY <2>2, UnownedRestart
  <2> QED BY <1>4, <2>1, <2>2 DEF World
<1>5. CASE UNCHANGED vars
  BY <1>0, <1>5 DEF vars
<1> QED BY <1>1, <1>2, <1>3, <1>4, <1>5 DEF Next

\* A quarantine that ends ends by one of these.
Ends(d) ==
  \/ Repaired(d) \/ Kill(d)
  \/ \E r \in Id : EraseAnswers(r)
  \/ \E gone \in SUBSET Device : d \in gone /\ Reap(gone)
  \/ \E c \in Call : Gate(c)

\* A reservation takes a device nobody has.
LEMMA ChoiceFree ==
  ASSUME IInv, NEW c \in Call, Choose(c), NEW d \in Device, Leased(d)
  PROVE  table'[d] = table[d]
PROOF
<1>1. CASE table' = table
  BY <1>1
<1>2. CASE \E e \in Candidates(c) : \E r : table' = [table EXCEPT ![e] = r]
  <2>1. PICK e \in Candidates(c) : \E r : table' = [table EXCEPT ![e] = r]
    BY <1>2
  <2>2. ~Leased(e)
    <3>1. CASE call[c].target = NoDevice
      BY <3>1 DEF Candidates, Preferred, Matches
    <3>2. CASE call[c].target # NoDevice
      BY <3>2 DEF Candidates, Claimable, IInv, LockHeld, Choose
    <3> QED BY <3>1, <3>2
  <2>3. e # d
    BY <2>2
  <2> QED BY <2>1, <2>3
<1> QED BY <1>1, <1>2 DEF Choose

\* What calls do leaves a quarantine in the table.
LEMMA CallStays ==
  ASSUME IInv, ToldInv, NEW c \in Call, Handler(c), NEW d \in Device,
         Leased(d), At(d).owner = NoAgent
  PROVE  table'[d] = table[d] \/ Gate(c)
PROOF
<1>0. ASSUME table' = table PROVE table'[d] = table[d]
  BY <1>0
<1>1. CASE \/ \E a \in Agent, want \in Requirements : RequestArrives(c, a, want)
           \/ \E a \in Agent, e \in Device : ClaimArrives(c, a, e)
           \/ \E a \in Agent, want \in Requirements : \E id \in Named(a) : ChangeArrives(c, a, id, want)
           \/ \E a \in Agent, want \in Requirements : \E id \in Named(a) : BrokenArrives(c, a, id, want)
  BY <1>0, <1>1 DEF RequestArrives, ClaimArrives, ChangeArrives, BrokenArrives
<1>2. CASE Enumerate(c) \/ Boot(c) \/ BootAnswers(c)
  BY <1>0, <1>2 DEF Enumerate, Boot, BootAnswers
<1>3. CASE Choose(c)
  BY <1>3, ChoiceFree
<1>4. CASE DropFailed(c)
  <2>1. call[c].pc = "failed"
    BY <1>4 DEF DropFailed
  <2>2. lease[call[c].rec].owner = call[c].owner /\ call[c].owner \in Agent
    BY <2>1, CallRefs DEF Busy, ToldInv, Booting
  <2>3. table[d] # call[c].rec
    BY <2>2, ConstantsAssumption DEF At
  <2> QED BY <1>4, <2>3 DEF DropFailed
<1>5. CASE FreeOld(c)
  <2>1. call[c].owner \in Agent
    BY <1>5 DEF FreeOld, IInv, CallShape
  <2>2. d \notin FindOwned(call[c].owner, call[c].target)
    BY <2>1, ConstantsAssumption DEF FindOwned
  <2> QED BY <1>5, <2>2 DEF FreeOld, Without
<1>6. CASE RestoreOld(c)
  <2>1. \/ table' = table
        \/ \E e, r : ~Leased(e) /\ table' = [table EXCEPT ![e] = r]
    BY <1>6 DEF RestoreOld, Restorable
  <2>2. ASSUME NEW e, NEW r, ~Leased(e), table' = [table EXCEPT ![e] = r]
        PROVE  table'[d] = table[d]
    <3>1. e # d
      BY <2>2
    <3> QED BY <2>2, <3>1 DEF IInv, TypeOK
  <2> QED BY <1>0, <2>1, <2>2
<1> QED BY <1>1, <1>2, <1>3, <1>4, <1>5, <1>6 DEF Handler

\* A quarantine stays in the table, or ends, or comes back after a restart.
LEMMA StaysOrEnds ==
  ASSUME IInv, ToldInv, Unowned, [Next]_vars, NEW d \in Device,
         Leased(d), At(d).owner = NoAgent
  PROVE  \/ table'[d] = table[d]
         \/ Ends(d)
         \/ \E s \in BOOLEAN : Restart(s) /\ table'[d] # NoId
PROOF
<1>0. ASSUME table' = table PROVE table'[d] = table[d]
  BY <1>0
<1>1. CASE \E c \in Call : Handler(c)
  BY <1>1, CallStays DEF Ends
<1>2. CASE OneStep
  <2>1. ASSUME NEW a \in Agent, NEW id, Releases(a, FindOwned(a, id))
        PROVE  table'[d] = table[d]
    <3>1. d \notin FindOwned(a, id)
      BY ConstantsAssumption DEF FindOwned
    <3> QED BY <2>1, <3>1 DEF Releases, Without
  <2>2. ASSUME NEW e \in Device, Kill(e) \/ Repaired(e)
        PROVE  table'[d] = table[d] \/ Ends(d)
    <3>1. CASE e = d
      BY <2>2, <3>1 DEF Ends
    <3>2. CASE e # d
      <4>1. table' = Without({e})
        BY <2>2 DEF Kill, Repaired
      <4> QED BY <3>2, <4>1 DEF Without
    <3> QED BY <3>1, <3>2
  <2> QED BY <1>2, <2>1, <2>2 DEF OneStep, Release, Exit
<1>3. CASE Timer
  <2>1. ASSUME NEW gone \in SUBSET Device, Reap(gone)
        PROVE  table'[d] = table[d] \/ Ends(d)
    BY <2>1 DEF Ends, Reap, Without
  <2>2. ASSUME NEW r \in Id, SweepJudge(r) PROVE table'[d] = table[d]
    <3>1. CASE table' = table
      BY <3>1
    <3>2. CASE Idles(r) /\ table' = Without({lease[r].dev})
      <4>1. lease[r].status = "ready"
        BY <3>2 DEF Idles
      <4>2. PICK e \in Device : table[e] = r
        BY <3>2 DEF Idles, Held
      <4>3. e = r[1] /\ lease[r] # NoLease
        BY <4>2, ConstantsAssumption DEF IInv, Records, Leased
      <4>4. lease[r].dev = r[1]
        BY <4>3, LiveRecord
      <4>5. At(d).status = "repairing"
        BY DEF IInv, TypeOK, Records, Leased, At, Unowned
      <4>6. d # r[1]
        BY <4>1, <4>2, <4>3, <4>5 DEF At
      <4> QED BY <3>2, <4>4, <4>6 DEF Without
    <3> QED BY <2>2, <3>1, <3>2 DEF SweepJudge
  <2>3. CASE \E r \in Id : EraseAnswers(r)
    BY <2>3 DEF Ends
  <2>4. CASE SweepBegin \/ PoolRefresh \/ \E r \in Id : WipeBoots(r)
    BY <1>0, <2>4 DEF SweepBegin, PoolRefresh, WipeBoots
  <2> QED BY <1>3, <2>1, <2>2, <2>3, <2>4 DEF Timer
<1>4. CASE World
  <2>1. CASE (\E e \in Device : StopLands(e)) \/ (\E a \in Agent : AgentDies(a))
    BY <1>0, <2>1 DEF StopLands, AgentDies
  <2>2. ASSUME NEW s \in BOOLEAN, Restart(s) PROVE table'[d] # NoId
    <3>1. saved[d] # NoLease /\ saved[d].owner = NoAgent
      BY DEF IInv, SavedCoversTable
    <3>2. Rehydratable(d)
      BY <3>1 DEF Rehydratable, Unowned
    <3>3. table'[d] = <<d, CHOOSE x \in Slot : TRUE>>
      BY <2>2, <3>2 DEF Restart
    <3>4. (CHOOSE x \in Slot : TRUE) \in Slot
      BY FreshSlot, ConstantsAssumption
    <3>5. <<d, CHOOSE x \in Slot : TRUE>> \in Id
      BY <3>4 DEF Id
    <3> QED BY <3>3, <3>5, ConstantsAssumption
  <2> QED BY <1>4, <2>1, <2>2 DEF World
<1>5. CASE UNCHANGED vars
  BY <1>0, <1>5 DEF vars
<1> QED BY <1>1, <1>2, <1>3, <1>4, <1>5 DEF Next

LEMMA StepQuarantine ==
  IInv /\ IInv' /\ ToldInv /\ Unowned /\ Unowned' /\ [Next]_vars => QuarantineKept
PROOF
<1> SUFFICES ASSUME IInv, IInv', ToldInv, Unowned, Unowned', [Next]_vars,
                    NEW d \in Device, Leased(d), At(d).status = "repairing",
                    ~(table'[d] = table[d] /\ lease'[table[d]].status = "repairing"),
                    ~Ends(d)
             PROVE  \E s \in BOOLEAN : Restart(s) /\ lease'[table'[d]].status = "repairing"
  BY DEF QuarantineKept, Ends
<1>1. table[d] \in Id /\ table[d] # NoId /\ lease[table[d]] # NoLease
  BY DEF IInv, TypeOK, Records, Leased
<1>2. At(d).owner = NoAgent
  BY <1>1 DEF ToldInv, Ownerless, At
<1>3. ASSUME table'[d] # NoId PROVE lease'[table'[d]].status = "repairing"
  <2>1. lease'[table'[d]].owner = NoAgent
    BY <1>1, <1>2, <1>3, StepOwner DEF OwnerStep, At
  <2>2. table'[d] \in Id /\ lease'[table'[d]] # NoLease
    BY <1>3 DEF IInv, TypeOK, Records, Leased
  <2> QED BY <2>1, <2>2 DEF Unowned
<1>4. \/ table'[d] = table[d]
      \/ \E s \in BOOLEAN : Restart(s) /\ table'[d] # NoId
  BY <1>2, StaysOrEnds
<1> QED BY <1>1, <1>3, <1>4

\* A quarantine ends by a repair, its time limit, a kill, or not at all: no
\* call that goes on after an await and no idle sweep ends it, and a restart
\* brings it back (daemon.js:373-379, :505-511).
THEOREM QuarantineStays ==
  ASSUME Orderly
  PROVE  Spec => [][QuarantineKept]_vars
PROOF
<1>1. Spec => []IInv
  BY InitInv, NextInv, PTL DEF Spec
<1>2. Init => Unowned
  BY DEF Init, Unowned
<1>3. IInv /\ IInv' /\ ToldInv /\ [Next]_vars => ToldInv'
  BY NextTold
<1>4. IInv /\ IInv' /\ ToldInv /\ Unowned /\ [Next]_vars => Unowned'
  BY UnownedNext
<1>5. IInv /\ IInv' /\ ToldInv /\ Unowned /\ Unowned' /\ [Next]_vars => [QuarantineKept]_vars
  BY StepQuarantine
<1> QED BY <1>1, <1>2, <1>3, <1>4, <1>5, InitTold, PTL DEF Spec
----------------------------------------------------------------------------
(***************************************************************************)
(* The processes around it: daemons that are started together settle on    *)
(* one, and a ban that an agent was killed for is not lost; the settings   *)
(* of Claude Code survive the installers, and what the user took away      *)
(* stays away.                                                             *)
(***************************************************************************)
Places == {"off", "probe", "listen", "taken", "unlink", "again", "serve", "leaving", "ended", "deferred"}

ClientRecord == [pc : {"idle", "send", "spawn", "poll", "wait", "told", "killed"}, login : Login]
Report == [stage : {"none", "evidence", "lock", "write", "done"}, at : Daemon \cup {0}, list : SUBSET Login]

Typed ==
  /\ daemon \in [Daemon -> Places] /\ socket \in Daemon \cup {0}
  /\ client \in [Client -> ClientRecord]
  /\ report \in [Client -> Report]

\* Nobody has ended, or is about to, other than by deferring to another.
Quiet == \A p \in Daemon : daemon[p] \notin {"leaving", "ended"}

\* Then the path names a daemon that serves, whoever serves is the one it names,
\* and nobody takes the path for stale.
Settled ==
  /\ socket # 0 => D!Is(socket, {"serve"})
  /\ \A p \in Daemon : /\ D!Is(p, {"serve"}) => socket = p
                       /\ D!Is(p, {"taken"}) => socket # 0
                       /\ ~D!Is(p, {"unlink", "again"})

SocketInv == Typed /\ (Quiet => Settled)

----------------------------------------------------------------------------
LEMMA InitSocket ==
  ASSUME Login # {}, D!Init
  PROVE  SocketInv
<1>1. (CHOOSE l \in Login : TRUE) \in Login
  OBVIOUS
<1> QED BY <1>1 DEF D!Init, SocketInv, Typed, Places, ClientRecord, Report, D!Off, Settled, D!Is

\* Where a daemon goes; the others stay.
LEMMA GotoTyped ==
  ASSUME Typed, NEW p \in Daemon, NEW pc \in Places, D!Goto(p, pc)
  PROVE  /\ daemon' \in [Daemon -> Places] /\ daemon'[p] = pc
         /\ \A q \in Daemon \ {p} : daemon'[q] = daemon[q]
BY DEF Typed, D!Goto

\* A client record changes in one field.
LEMMA StepTyped ==
  ASSUME Typed, NEW c \in Client,
         NEW pc \in {"idle", "send", "spawn", "poll", "wait", "told", "killed"}, D!Step(c, pc)
  PROVE  /\ client' \in [Client -> ClientRecord]
         /\ client'[c].pc = pc /\ client'[c].login = client[c].login
         /\ \A b \in Client \ {c} : client'[b] = client[b]
<1>1. \A r \in ClientRecord : LET s == [r EXCEPT !.pc = pc]
                              IN s \in ClientRecord /\ s.pc = pc /\ s.login = r.login
  BY DEF ClientRecord
<1> QED BY <1>1 DEF Typed, D!Step

LEMMA LostTyped ==
  ASSUME Typed, NEW p, D!Lost(p)
  PROVE  report' \in [Client -> Report] /\ \A c \in Client : report'[c] \in {report[c], D!Off}
<1>1. D!Off \in Report
  BY DEF D!Off, Report
<1> QED BY <1>1 DEF D!Lost, Typed

\* A report goes on to its next stage.
LEMMA StageTyped ==
  ASSUME Typed, NEW c \in Client, NEW s \in Report, report' = [report EXCEPT ![c] = s]
  PROVE  report' \in [Client -> Report] /\ report'[c] = s
         /\ \A b \in Client \ {c} : report'[b] = report[b]
BY DEF Typed

\* The stages of a report around the lock.
LEMMA EvidenceTyped ==
  ASSUME Typed, NEW c \in Client, D!Evidence(c)
  PROVE  report' \in [Client -> Report] /\ report'[c].stage = "lock"
         /\ \A b \in Client \ {c} : report'[b] = report[b]
<1>1. \A r \in Report : [r EXCEPT !.stage = "lock"] \in Report /\ [r EXCEPT !.stage = "lock"].stage = "lock"
  BY DEF Report
<1>2. [report[c] EXCEPT !.stage = "lock"] \in Report /\ [report[c] EXCEPT !.stage = "lock"].stage = "lock"
  BY <1>1 DEF Typed
<1>3. report' = [report EXCEPT ![c] = [report[c] EXCEPT !.stage = "lock"]]
  BY DEF D!Evidence, Typed
<1> QED BY <1>2, <1>3, StageTyped

LEMMA ReadsTyped ==
  ASSUME Typed, NEW c \in Client, D!ReadsBans(c)
  PROVE  /\ report' \in [Client -> Report]
         /\ \A b \in Client \ {c} : report'[b] = report[b]
         /\ report'[c].stage = "write" /\ report'[c].at = report[c].at
         /\ D!ReadBanned(report'[c].list)
<1>1. PICK list \in SUBSET Login :
        /\ D!ReadBanned(list)
        /\ report' = [report EXCEPT ![c].stage = "write", ![c].list = list]
  BY DEF D!ReadsBans
<1> DEFINE next == [report[c] EXCEPT !.stage = "write", !.list = list]
<1>2. \A r \in Report : LET t == [r EXCEPT !.stage = "write", !.list = list]
                        IN t \in Report /\ t.stage = "write" /\ t.at = r.at /\ t.list = list
  BY DEF Report
<1>3. next \in Report /\ next.stage = "write" /\ next.at = report[c].at /\ next.list = list
  BY <1>2 DEF Typed
<1>4. report' = [report EXCEPT ![c] = next]
  BY <1>1 DEF Typed
<1> HIDE DEF next
<1>5. report'[c] = next /\ report' \in [Client -> Report] /\ \A b \in Client \ {c} : report'[b] = report[b]
  BY <1>3, <1>4, StageTyped
<1> QED BY <1>1, <1>3, <1>5

LEMMA BanTyped ==
  ASSUME Typed, NEW c \in Client, D!Ban(c)
  PROVE  /\ report' \in [Client -> Report]
         /\ report'[c].stage = (IF client[c].pc = "wait" THEN "done" ELSE "none")
         /\ \A b \in Client \ {c} : report'[b] = report[b]
<1> DEFINE next == IF client[c].pc = "wait"
                   THEN [D!Off EXCEPT !.stage = "done", !.at = report[c].at] ELSE D!Off
<1>1. report[c].at \in Daemon \cup {0}
  BY DEF Typed, Report
<1>2. next \in Report /\ next.stage = IF client[c].pc = "wait" THEN "done" ELSE "none"
  BY <1>1 DEF Report, D!Off
<1>3. report' = [report EXCEPT ![c] = next]
  BY DEF D!Ban
<1> HIDE DEF next
<1> QED BY <1>2, <1>3, StageTyped

----------------------------------------------------------------------------
(* The socket *)

\* A daemon that is not the last to bind the path leaves it alone.
LEMMA TakesSocket ==
  ASSUME SocketInv, NEW p \in Daemon, D!Takes(p)
  PROVE  SocketInv'
<1>1. UNCHANGED <<client, report>> /\ Typed
  BY DEF D!Takes, D!Probe, D!Listen, D!Taken, D!Unlink, D!Again, D!bans, SocketInv
<1>2. ASSUME NEW q, D!Is(q, {"serve"})
      PROVE  q # 0 /\ daemon[q] = "serve"
  BY <1>2 DEF D!Is
<1>3. CASE D!Probe(p)
  <2>1. PICK pc \in {"deferred", "listen"} : D!Goto(p, pc)
    BY <1>3 DEF D!Probe
  <2>2. daemon[p] = "probe" /\ socket' = socket
    BY <1>3 DEF D!Probe, D!Is
  <2>3. /\ daemon' \in [Daemon -> Places] /\ daemon'[p] = pc
        /\ \A q \in Daemon \ {p} : daemon'[q] = daemon[q]
    BY <1>1, <2>1, GotoTyped DEF Places
  <2> QED BY <1>1, <2>2, <2>3 DEF SocketInv, Typed, Quiet, Settled, D!Is
<1>4. CASE D!Listen(p) \/ D!Again(p)
  <2>1. daemon[p] \in {"listen", "again"} /\ p # 0
    BY <1>4 DEF D!Listen, D!Again, D!Is
  <2>2. CASE socket = 0 /\ D!Bound(p)
    <3>1. /\ daemon' \in [Daemon -> Places] /\ daemon'[p] = "serve" /\ socket' = p
          /\ \A q \in Daemon \ {p} : daemon'[q] = daemon[q]
      BY <1>1, <2>2, GotoTyped DEF D!Bound, Places
    <3> QED BY <1>1, <2>1, <2>2, <3>1 DEF SocketInv, Typed, Quiet, Settled, D!Is
  <2>3. CASE socket # 0 /\ socket' = socket /\ \E pc \in {"taken", "deferred"} : D!Goto(p, pc)
    <3>1. PICK pc \in {"taken", "deferred"} : D!Goto(p, pc)
      BY <2>3
    <3>2. /\ daemon' \in [Daemon -> Places] /\ daemon'[p] = pc
          /\ \A q \in Daemon \ {p} : daemon'[q] = daemon[q]
      BY <1>1, <3>1, GotoTyped DEF Places
    <3> QED BY <1>1, <2>1, <2>3, <3>2 DEF SocketInv, Typed, Quiet, Settled, D!Is
  <2> QED BY <1>4, <2>2, <2>3 DEF D!Listen, D!Again
<1>5. CASE D!Taken(p)
  <2>1. PICK pc \in {"deferred", "unlink"} : D!Goto(p, pc) /\ (pc = "unlink" => ~D!Healthy)
    BY <1>5 DEF D!Taken
  <2>2. daemon[p] = "taken" /\ socket' = socket /\ p # 0
    BY <1>5 DEF D!Taken, D!Is
  <2>3. /\ daemon' \in [Daemon -> Places] /\ daemon'[p] = pc
        /\ \A q \in Daemon \ {p} : daemon'[q] = daemon[q]
    BY <1>1, <2>1, GotoTyped DEF Places
  <2>4. Quiet' => Quiet /\ D!Healthy
    BY <2>2, <2>3 DEF SocketInv, Quiet, Settled, D!Healthy, D!Is
  <2> QED BY <1>1, <2>1, <2>2, <2>3, <2>4 DEF SocketInv, Typed, Quiet, Settled, D!Is
<1>6. CASE D!Unlink(p)
  <2>1. daemon[p] = "unlink" /\ socket' = 0 /\ p # 0 /\ D!Goto(p, "again")
    BY <1>6 DEF D!Unlink, D!Is
  <2>2. /\ daemon' \in [Daemon -> Places] /\ daemon'[p] = "again"
        /\ \A q \in Daemon \ {p} : daemon'[q] = daemon[q]
    BY <1>1, <2>1, GotoTyped DEF Places
  <2>3. ~Quiet'
    BY <2>1, <2>2 DEF SocketInv, Quiet, Settled, D!Is
  <2> QED BY <1>1, <2>1, <2>2, <2>3 DEF SocketInv, Typed
<1> QED BY <1>3, <1>4, <1>5, <1>6 DEF D!Takes

\* After a daemon has begun to leave, or died, there is nothing to show.
LEMMA LeavesSocket ==
  ASSUME SocketInv, NEW p \in Daemon, D!Leave(p) \/ D!Bye(p) \/ D!Crash(p)
  PROVE  SocketInv'
<1>1. PICK pc \in {"leaving", "ended"} : D!Goto(p, pc)
  BY DEF D!Leave, D!Bye, D!Crash
<1>2. daemon' \in [Daemon -> Places] /\ daemon'[p] = pc
  BY <1>1, GotoTyped DEF SocketInv, Places
<1>3. report' \in [Client -> Report] /\ client' = client /\ socket' \in {socket, 0}
  BY LostTyped DEF D!Leave, D!Bye, D!Crash, SocketInv, Typed
<1> QED BY <1>2, <1>3 DEF SocketInv, Typed, Quiet

LEMMA ClientsSocket ==
  ASSUME SocketInv, UNCHANGED <<daemon, socket>>, client' \in [Client -> ClientRecord],
         report' \in [Client -> Report]
  PROVE  SocketInv'
BY DEF SocketInv, Typed, Quiet, Settled, D!Is

LEMMA SpawnSocket ==
  ASSUME SocketInv, NEW c \in Client, NEW p \in Daemon, D!SpawnDaemon(c, p)
  PROVE  SocketInv'
<1>1. D!Goto(p, "probe") /\ D!Step(c, "poll") /\ daemon[p] = "off" /\ UNCHANGED <<socket, report>> /\ Typed
  BY DEF D!SpawnDaemon, D!Is, SocketInv
<1>2. /\ daemon' \in [Daemon -> Places] /\ daemon'[p] = "probe"
      /\ \A q \in Daemon \ {p} : daemon'[q] = daemon[q]
  BY <1>1, GotoTyped DEF Places
<1>3. client' \in [Client -> ClientRecord]
  BY <1>1, StepTyped
<1> QED BY <1>1, <1>2, <1>3 DEF SocketInv, Typed, Quiet, Settled, D!Is

----------------------------------------------------------------------------
(* What a client does *)

\* One client's step: its own record and its own report.
Serving(c) ==
  \/ D!Polls(c) \/ D!Sends(c) \/ D!Answered(c) \/ D!CallFails(c) \/ D!Killed(c)
  \/ D!Evidence(c) \/ D!ReadsBans(c) \/ D!Ban(c)
  \/ \E l \in Login : D!Calls(c, l)

LEMMA ServingTyped ==
  ASSUME Typed, NEW c \in Client, Serving(c)
  PROVE  /\ UNCHANGED <<daemon, socket>>
         /\ client' \in [Client -> ClientRecord] /\ report' \in [Client -> Report]
         /\ \A b \in Client \ {c} : client'[b] = client[b] /\ report'[b] = report[b]
<1>1. CASE D!Polls(c)
  <2>1. \E pc \in {"send", "idle"} : D!Step(c, pc)
    BY <1>1 DEF D!Polls
  <2> QED BY <1>1, <2>1, StepTyped DEF D!Polls, D!processes, D!bans, Typed
<1>2. CASE D!Sends(c)
  <2>1. CASE D!Healthy
    <3>1. [D!Off EXCEPT !.stage = "evidence", !.at = socket] \in Report
      BY DEF Typed, Report, D!Off
    <3>2. D!Step(c, "wait") /\ report' = [report EXCEPT ![c] = [D!Off EXCEPT !.stage = "evidence", !.at = socket]]
      BY <1>2, <2>1 DEF D!Sends
    <3>3. report' \in [Client -> Report] /\ \A b \in Client \ {c} : report'[b] = report[b]
      BY <3>1, <3>2, StageTyped
    <3> QED BY <1>2, <3>2, <3>3, StepTyped DEF D!Sends, D!processes
  <2>2. CASE ~D!Healthy
    BY <1>2, <2>2, StepTyped DEF D!Sends, D!processes, Typed
  <2> QED BY <2>1, <2>2
<1>3. CASE D!Answered(c)
  <2>1. D!Off \in Report
    BY DEF D!Off, Report
  <2>2. report' \in [Client -> Report] /\ \A b \in Client \ {c} : report'[b] = report[b]
    BY <1>3, <2>1, StageTyped DEF D!Answered
  <2> QED BY <1>3, <2>2, StepTyped DEF D!Answered, D!processes
<1>4. CASE D!CallFails(c)
  BY <1>4, StepTyped DEF D!CallFails, D!processes, Typed
<1>5. CASE D!Killed(c)
  BY <1>5, StepTyped DEF D!Killed, D!processes, Typed
<1>6. CASE D!Evidence(c)
  BY <1>6, EvidenceTyped DEF D!Evidence, D!processes, Typed
<1>9. CASE D!ReadsBans(c)
  BY <1>9, ReadsTyped DEF D!ReadsBans, D!processes, Typed
<1>7. CASE D!Ban(c)
  BY <1>7, BanTyped DEF D!Ban, D!processes, Typed
<1>8. CASE \E l \in Login : D!Calls(c, l)
  <2>1. PICK l \in Login : D!Calls(c, l)
    BY <1>8
  <2>2. [pc |-> IF D!DaemonAlive /\ D!Healthy THEN "send" ELSE "spawn", login |-> l] \in ClientRecord
    BY DEF ClientRecord
  <2> QED BY <2>1, <2>2 DEF D!Calls, D!processes, Typed
<1> QED BY <1>1, <1>2, <1>3, <1>4, <1>5, <1>6, <1>7, <1>8, <1>9 DEF Serving

\* The disjuncts of Next, by who acts.
LEMMA NextSplit ==
  ASSUME D!Next
  PROVE  \/ \E p \in Daemon : D!Takes(p) \/ D!Leave(p) \/ D!Bye(p) \/ D!Crash(p)
         \/ \E c \in Client : Serving(c)
         \/ \E c \in Client, p \in Daemon : D!SpawnDaemon(c, p)
         \/ \E l \in Login : D!UnbanReads(l)
         \/ D!UnbanWrites \/ D!Tear
BY DEF D!Next, Serving

LEMMA NextSocket ==
  ASSUME SocketInv, [D!Next]_(D!vars)
  PROVE  SocketInv'
<1>1. CASE \E c \in Client : Serving(c)
  BY <1>1, ServingTyped, ClientsSocket DEF SocketInv
<1>2. CASE (\E l \in Login : D!UnbanReads(l)) \/ D!UnbanWrites \/ D!Tear \/ UNCHANGED D!vars
  <2>1. UNCHANGED <<daemon, socket, client, report>>
    BY <1>2 DEF D!UnbanReads, D!UnbanWrites, D!Tear, D!vars, D!processes
  <2> QED BY <2>1, ClientsSocket DEF SocketInv, Typed
<1> QED BY <1>1, <1>2, NextSplit, TakesSocket, LeavesSocket, SpawnSocket

\* Daemons started together settle on one, whatever the order of their probes,
\* binds and retries: the path is never taken for stale while its daemon is up
\* (daemon.js start, onListening and the EADDRINUSE handler).
THEOREM DaemonsSettle ==
  ASSUME Login # {}
  PROVE  D!Spec => []SoleDaemon
<1>1. SocketInv => SoleDaemon
  BY DEF SocketInv, SoleDaemon, D!SoleDaemon, Quiet, Settled, D!Sole, D!Is
<1> QED BY <1>1, InitSocket, NextSocket, PTL DEF D!Spec

----------------------------------------------------------------------------
(* The bans *)

\* Every author who was ever listed.
Everbanned == banned.logins \cup aside \cup lifted

\* A daemon bound the socket while another served, or a list was taken for empty.
Given == split \/ unread

Serves(p) == p # 0 /\ daemon[p] = "serve"
Writes(c) == report[c].stage = "write"

\* Who writes the list serves, and writes alone in its daemon; without a split
\* one daemon serves.
Writers ==
  /\ panel.at # 0 => Serves(panel.at)
  /\ \A c \in Client : Writes(c) => Serves(report[c].at)
  /\ \A c, b \in Client : (Writes(c) /\ Writes(b) /\ report[c].at = report[b].at) => c = b
  /\ \A c \in Client : Writes(c) => report[c].at # panel.at
  /\ ~split => \A p, q \in Daemon : (Serves(p) /\ Serves(q)) => p = q

\* Nobody was listed since it read the list.
Current ==
  /\ panel.at # 0 => banned.logins \subseteq panel.list
  /\ \A c \in Client : Writes(c) => banned.logins \subseteq report[c].list

\* A report that is done waits to be read, and its author is listed.
Reported ==
  \A c \in Client : (report[c].stage = "done" \/ client[c].pc \in {"told", "killed"})
                       => client[c].login \in Everbanned

BanInv ==
  /\ Typed /\ panel.at \in Daemon \cup {0}
  /\ \A c \in Client : report[c].stage = "done" => client[c].pc = "wait"
  /\ Writers
  /\ ~Given => (Current /\ Reported)

\* What is read is the list, or what was put aside.
LEMMA ReadKeeps ==
  ASSUME NEW list, D!ReadBanned(list), lifted' = lifted
  PROVE  \/ unread' = TRUE
         \/ /\ banned'.logins \subseteq list /\ banned'.logins \subseteq banned.logins
            /\ Everbanned \subseteq Everbanned'
<1>1. CASE banned.text = "list" /\ list = banned.logins /\ UNCHANGED <<banned, aside>>
  BY <1>1 DEF Everbanned
<1>2. CASE list = {} /\ aside' = aside \cup banned.logins /\ banned' = D!Absent
  BY <1>2 DEF Everbanned, D!Absent
<1> QED BY <1>1, <1>2 DEF D!ReadBanned

LEMMA FewerWriters ==
  ASSUME Writers, daemon' = daemon, split' = split, panel' = panel \/ panel'.at = 0,
         \A c \in Client : report'[c] = report[c] \/ report'[c].stage # "write"
  PROVE  Writers'
BY DEF Writers, Writes, Serves

LEMMA StillCurrent ==
  ASSUME Current, banned'.logins \subseteq banned.logins, panel' = panel \/ panel'.at = 0,
         \A c \in Client : report'[c] = report[c] \/ report'[c].stage # "write"
  PROVE  Current'
BY DEF Current, Writes

LEMMA ReportsAt ==
  ASSUME Typed
  PROVE  \A c \in Client : report[c].at \in Daemon \cup {0}
BY DEF Typed, Report

\* Without a split whoever writes the list is alone.
LEMMA OneWriter ==
  ASSUME BanInv, ~split
  PROVE  /\ \A c, b \in Client : (Writes(c) /\ Writes(b)) => c = b
         /\ \A c \in Client : Writes(c) => panel.at = 0
<1>1. \A c \in Client : Writes(c) => report[c].at \in Daemon /\ Serves(report[c].at)
  BY ReportsAt DEF BanInv, Writers, Serves
<1>2. panel.at # 0 => panel.at \in Daemon /\ Serves(panel.at)
  BY DEF BanInv, Writers
<1>3. \A p, q \in Daemon : (Serves(p) /\ Serves(q)) => p = q
  BY DEF BanInv, Writers
<1>4. ASSUME NEW c \in Client, NEW b \in Client, Writes(c), Writes(b) PROVE c = b
  <2>1. report[c].at = report[b].at
    BY <1>1, <1>3, <1>4
  <2> QED BY <1>4, <2>1 DEF BanInv, Writers
<1>5. ASSUME NEW c \in Client, Writes(c), panel.at # 0 PROVE FALSE
  <2>1. report[c].at = panel.at
    BY <1>1, <1>2, <1>3, <1>5
  <2> QED BY <1>5, <2>1 DEF BanInv, Writers
<1> QED BY <1>4, <1>5

\* A daemon comes, goes or dies: nobody who writes is left without it.
LEMMA DaemonsBans ==
  ASSUME BanInv, Typed', NEW p \in Daemon, D!Takes(p) \/ D!Leave(p) \/ D!Bye(p) \/ D!Crash(p)
  PROVE  BanInv'
<1>1. /\ client' = client /\ UNCHANGED <<banned, aside, lifted, unread>>
      /\ \A q \in Daemon \ {p} : daemon'[q] = daemon[q]
  BY DEF D!Takes, D!Probe, D!Listen, D!Taken, D!Unlink, D!Again, D!Bound, D!Goto, D!Leave, D!Bye, D!Crash,
         D!bans, BanInv, Typed
<1>2. CASE D!Takes(p)
  <2>1. UNCHANGED <<report, panel>> /\ daemon[p] # "serve"
    BY <1>2 DEF D!Takes, D!Probe, D!Listen, D!Taken, D!Unlink, D!Again, D!bans, D!Is
  <2>2. \/ split' = split /\ \E pc \in Places \ {"serve"} : D!Goto(p, pc)
        \/ D!Bound(p)
    BY <1>2 DEF D!Takes, D!Probe, D!Listen, D!Taken, D!Unlink, D!Again, Places
  <2>3. \/ split' = split /\ daemon'[p] # "serve"
        \/ split' = (split \/ \E q \in Daemon : Serves(q))
    BY <2>2, GotoTyped DEF BanInv, D!Bound, D!Is, Serves
  <2>4. Writers'
    <3>1. \A q \in Daemon \cup {0} : Serves(q) => q # p /\ Serves(q)'
      BY <1>1, <2>1 DEF Serves
    <3>2. ASSUME ~split', NEW q \in Daemon, NEW o \in Daemon, Serves(q)', Serves(o)' PROVE q = o
      <4>1. CASE daemon'[p] # "serve"
        BY <1>1, <2>3, <3>2, <4>1 DEF BanInv, Writers, Serves
      <4>2. CASE split' = (split \/ \E i \in Daemon : Serves(i))
        BY <1>1, <3>2, <4>2 DEF Serves
      <4> QED BY <2>3, <4>1, <4>2
    <3>3. \A c \in Client : Writes(c) => Serves(report[c].at)'
      BY <2>1, <3>1, ReportsAt DEF BanInv, Writers, Writes
    <3>4. panel.at # 0 => Serves(panel.at)'
      BY <2>1, <3>1 DEF BanInv, Writers
    <3> QED BY <2>1, <3>2, <3>3, <3>4 DEF BanInv, Writers, Writes
  <2> QED BY <1>1, <2>1, <2>3, <2>4 DEF BanInv, Given, Current, Reported, Writes, Everbanned
<1>3. CASE D!Leave(p)
  <2>1. UNCHANGED <<report, panel, split>> /\ daemon'[p] = "leaving" /\ ~D!Busy(p)
    BY <1>3, GotoTyped DEF D!Leave, D!bans, Places, BanInv
  <2>2. panel.at # p /\ \A c \in Client : Writes(c) => report[c].at # p
    BY <2>1 DEF D!Busy, Writes
  <2>3. Writers'
    BY <1>1, <2>1, <2>2 DEF BanInv, Writers, Writes, Serves, Typed, Report
  <2> QED BY <1>1, <2>1, <2>3 DEF BanInv, Given, Current, Reported, Writes, Everbanned
<1>4. CASE D!Bye(p) \/ D!Crash(p)
  <2>1. split' = split /\ D!Lost(p) /\ daemon'[p] = "ended"
    BY <1>4, GotoTyped DEF D!Bye, D!Crash, Places, BanInv
  <2>2. \A c \in Client : \/ report'[c] = report[c] /\ report[c].at # p
                          \/ report'[c].stage = "none"
    BY <2>1 DEF D!Lost, D!Off, BanInv, Typed
  <2>3. \/ panel' = panel /\ panel.at # p
        \/ panel'.at = 0
    BY <2>1 DEF D!Lost, D!NoEdit
  <2>4. Writers'
    BY <1>1, <2>1, <2>2, <2>3 DEF BanInv, Writers, Writes, Serves, Typed, Report
  <2>5. ~Given' => (Current' /\ Reported')
    BY <1>1, <2>1, <2>2, <2>3, StillCurrent DEF BanInv, Given, Reported, Everbanned
  <2>6. panel'.at \in Daemon \cup {0}
    BY <2>3 DEF BanInv
  <2> QED BY <1>1, <2>2, <2>4, <2>5, <2>6 DEF BanInv
<1> QED BY <1>2, <1>3, <1>4

\* A client goes on, or the daemon for it, short of the list.
Onward(c) == Serving(c) /\ ~D!ReadsBans(c) /\ ~D!Ban(c)

Told(c) == report[c].stage = "done" \/ client[c].pc \in {"told", "killed"}

LEMMA OnwardTold ==
  ASSUME BanInv, NEW c \in Client, Onward(c)
  PROVE  /\ UNCHANGED <<split, panel, banned, aside, lifted, unread>>
         /\ report'[c] = report[c] \/ report'[c].stage # "write"
         /\ report'[c].stage = "done" => client'[c].pc = "wait"
         /\ Told(c)' => Told(c) /\ client'[c].login = client[c].login
<1>1. /\ Typed /\ Typed'
      /\ \A b \in Client \ {c} : client'[b] = client[b] /\ report'[b] = report[b]
  BY ServingTyped DEF BanInv, Typed, Onward
<1>2. UNCHANGED <<split, panel, banned, aside, lifted, unread>>
  BY DEF Onward, Serving, D!Polls, D!Sends, D!Answered, D!CallFails, D!Killed, D!Evidence, D!Calls, D!bans
<1>3. /\ report'[c] = report[c] \/ report'[c].stage # "write"
      /\ report'[c].stage = "done" => client'[c].pc = "wait"
      /\ Told(c)' => Told(c) /\ client'[c].login = client[c].login
  <2>1. CASE D!Polls(c)
    <3>1. \E pc \in {"send", "idle"} : D!Step(c, pc)
      BY <2>1 DEF D!Polls
    <3> QED BY <1>1, <2>1, <3>1, StepTyped DEF D!Polls, BanInv, Told
  <2>2. CASE D!Sends(c)
    <3>1. \E pc \in {"wait", "idle"} : D!Step(c, pc)
      BY <2>2 DEF D!Sends
    <3>2. report'[c] = report[c] \/ report'[c].stage = "evidence"
      BY <1>1, <2>2 DEF D!Sends, Typed, D!Off
    <3> QED BY <1>1, <2>2, <3>1, <3>2, StepTyped DEF D!Sends, BanInv, Told
  <2>3. CASE D!Answered(c)
    <3>1. report'[c].stage = "none"
      BY <1>1, <2>3 DEF D!Answered, Typed, D!Off
    <3>2. client'[c].login = client[c].login
      BY <1>1, <2>3, StepTyped DEF D!Answered
    <3> QED BY <2>3, <3>1, <3>2 DEF D!Answered, BanInv, Told
  <2>4. CASE D!CallFails(c)
    <3>1. report'[c] = report[c] /\ report'[c].stage # "done"
      BY <2>4 DEF D!CallFails, D!Off
    <3> QED BY <1>1, <2>4, <3>1, StepTyped DEF D!CallFails, Told
  <2>5. CASE D!Killed(c)
    BY <1>1, <2>5, StepTyped DEF D!Killed, BanInv, Told
  <2>6. CASE D!Evidence(c)
    BY <1>1, <2>6, EvidenceTyped DEF D!Evidence, BanInv, Told
  <2>7. CASE \E l \in Login : D!Calls(c, l)
    <3>1. client'[c].pc \in {"send", "spawn"} /\ report'[c].stage = "none"
      BY <1>1, <2>7 DEF D!Calls, Typed, D!Off
    <3> QED BY <3>1 DEF Told
  <2> QED BY <2>1, <2>2, <2>3, <2>4, <2>5, <2>6, <2>7 DEF Onward, Serving
<1> QED BY <1>2, <1>3

LEMMA OnwardBans ==
  ASSUME BanInv, NEW c \in Client, Onward(c)
  PROVE  BanInv'
<1>1. /\ Typed' /\ daemon' = daemon
      /\ \A b \in Client \ {c} : client'[b] = client[b] /\ report'[b] = report[b]
  BY ServingTyped DEF BanInv, Typed, Onward
<1>2. \A b \in Client : report'[b] = report[b] \/ report'[b].stage # "write"
  BY <1>1, OnwardTold
<1>3. Writers'
  BY <1>1, <1>2, OnwardTold, FewerWriters DEF BanInv
<1>4. ~Given' => Current'
  BY <1>2, OnwardTold, StillCurrent DEF BanInv, Given
<1>5. ~Given' => Reported'
  BY <1>1, OnwardTold DEF BanInv, Given, Reported, Everbanned, Told
<1> QED BY <1>1, <1>3, <1>4, <1>5, OnwardTold DEF BanInv

LEMMA ReadsBansKeeps ==
  ASSUME BanInv, NEW c \in Client, D!ReadsBans(c)
  PROVE  BanInv'
<1>1. /\ UNCHANGED <<daemon, split, client, panel, lifted>>
      /\ Serves(report[c].at) /\ ~D!Busy(report[c].at)
  BY DEF D!ReadsBans, D!processes, D!Is, Serves
<1>2. /\ report' \in [Client -> Report]
      /\ \A b \in Client \ {c} : report'[b] = report[b]
      /\ report'[c].stage = "write" /\ report'[c].at = report[c].at
      /\ D!ReadBanned(report'[c].list)
  BY ReadsTyped DEF BanInv
<1>3. Writers'
  BY <1>1, <1>2 DEF BanInv, Writers, Writes, Serves, D!Busy
<1>4. ASSUME ~Given' PROVE Current' /\ Reported'
  <2>1. /\ banned'.logins \subseteq report'[c].list /\ banned'.logins \subseteq banned.logins
        /\ Everbanned \subseteq Everbanned'
    BY <1>1, <1>2, <1>4, ReadKeeps DEF Given
  <2>2. Current /\ Reported
    BY <1>1, <1>2, <1>4 DEF BanInv, Given, D!ReadBanned
  <2> QED BY <1>1, <1>2, <2>1, <2>2 DEF Current, Reported, Writes
<1>5. panel'.at \in Daemon \cup {0} /\ \A b \in Client : report'[b].stage = "done" => client'[b].pc = "wait"
  BY <1>1, <1>2 DEF BanInv
<1>6. Typed'
  BY <1>1, <1>2 DEF BanInv, Typed, D!ReadsBans, D!processes
<1> QED BY <1>3, <1>4, <1>5, <1>6 DEF BanInv

LEMMA BanKeeps ==
  ASSUME BanInv, NEW c \in Client, D!Ban(c)
  PROVE  BanInv'
<1>1. /\ UNCHANGED <<daemon, socket, split, client, panel, aside, lifted, unread>>
      /\ Serves(report[c].at) /\ Writes(c)
      /\ banned'.logins = report[c].list \cup {client[c].login}
  BY DEF D!Ban, D!processes, D!Is, Serves, Writes
<1>2. /\ report' \in [Client -> Report]
      /\ report'[c].stage = (IF client[c].pc = "wait" THEN "done" ELSE "none")
      /\ \A b \in Client \ {c} : report'[b] = report[b]
  BY BanTyped DEF BanInv
<1>3. Writers'
  BY <1>1, <1>2, FewerWriters DEF BanInv
<1>4. ASSUME ~Given' PROVE Current' /\ Reported'
  <2>1. Current /\ Reported
    BY <1>1, <1>4 DEF BanInv, Given
  <2>2. panel.at = 0 /\ \A b \in Client \ {c} : ~Writes(b)
    BY <1>1, <1>4, OneWriter DEF Given
  <2>3. Current'
    BY <1>1, <1>2, <2>2 DEF Current, Writes
  <2>4. banned.logins \subseteq banned'.logins
    BY <1>1, <2>1 DEF Current
  <2> QED BY <1>1, <1>2, <2>1, <2>3, <2>4 DEF Reported, Everbanned
<1> QED BY <1>1, <1>2, <1>3, <1>4 DEF BanInv, Typed

LEMMA UnbanBans ==
  ASSUME BanInv, (\E l \in Login : D!UnbanReads(l)) \/ D!UnbanWrites
  PROVE  BanInv'
<1>1. UNCHANGED <<daemon, socket, split, client, report>>
  BY DEF D!UnbanReads, D!UnbanWrites, D!processes
<1>2. CASE \E l \in Login : D!UnbanReads(l)
  <2>1. PICK l \in Login : D!UnbanReads(l)
    BY <1>2
  <2>2. PICK list \in SUBSET Login :
          /\ D!ReadBanned(list)
          /\ panel' = IF l \in list THEN [at |-> socket, login |-> l, list |-> list] ELSE D!NoEdit
    BY <2>1 DEF D!UnbanReads
  <2>3. \/ panel'.at = 0
        \/ panel'.at = socket /\ panel'.list = list
    BY <2>2 DEF D!NoEdit
  <2>4. Serves(socket) /\ socket \in Daemon \cup {0} /\ ~D!Busy(socket) /\ lifted' = lifted
    BY <2>1 DEF D!UnbanReads, D!Healthy, D!Is, Serves, BanInv, Typed
  <2>5. Writers' /\ panel'.at \in Daemon \cup {0}
    BY <1>1, <2>3, <2>4 DEF BanInv, Writers, Writes, Serves, D!Busy
  <2>6. ASSUME ~Given' PROVE Current' /\ Reported'
    <3>1. /\ banned'.logins \subseteq list /\ banned'.logins \subseteq banned.logins
          /\ Everbanned \subseteq Everbanned'
      BY <2>2, <2>4, <2>6, ReadKeeps DEF Given
    <3>2. Current /\ Reported
      BY <1>1, <2>2, <2>6 DEF BanInv, Given, D!ReadBanned
    <3> QED BY <1>1, <2>3, <3>1, <3>2 DEF Current, Reported, Writes
  <2> QED BY <1>1, <2>5, <2>6 DEF BanInv, Typed
<1>3. CASE D!UnbanWrites
  <2>1. /\ UNCHANGED <<aside, unread>> /\ panel'.at = 0 /\ Serves(panel.at)
        /\ banned'.logins = panel.list \ {panel.login} /\ lifted' = lifted \cup {panel.login}
    BY <1>3 DEF D!UnbanWrites, D!NoEdit, D!Is, Serves
  <2>2. Writers'
    BY <1>1, <2>1, FewerWriters DEF BanInv
  <2>3. ASSUME ~Given' PROVE Current' /\ Reported'
    <3>1. Current /\ Reported
      BY <1>1, <2>1, <2>3 DEF BanInv, Given
    <3>2. \A c \in Client : ~Writes(c)
      BY <1>1, <2>1, <2>3, OneWriter DEF Given, Serves
    <3>3. Current'
      BY <1>1, <2>1, <3>2 DEF Current, Writes
    <3>4. panel.at # 0
      BY <2>1 DEF Serves
    <3>5. banned.logins \subseteq banned'.logins \cup lifted'
      BY <2>1, <3>1, <3>4 DEF Current
    <3> QED BY <1>1, <2>1, <3>1, <3>3, <3>5 DEF Reported, Everbanned
  <2> QED BY <1>1, <2>1, <2>2, <2>3 DEF BanInv, Typed
<1> QED BY <1>2, <1>3

LEMMA NextBans ==
  ASSUME SocketInv', BanInv, [D!Next]_(D!vars)
  PROVE  BanInv'
<1>1. ASSUME NEW c \in Client, Serving(c) PROVE BanInv'
  BY <1>1, OnwardBans, ReadsBansKeeps, BanKeeps DEF Onward
<1>2. ASSUME NEW p \in Daemon, D!Takes(p) \/ D!Leave(p) \/ D!Bye(p) \/ D!Crash(p) PROVE BanInv'
  BY <1>2, DaemonsBans DEF SocketInv
<1>3. ASSUME NEW c \in Client, NEW p \in Daemon, D!SpawnDaemon(c, p) PROVE BanInv'
  <2>1. /\ D!Step(c, "poll") /\ D!Goto(p, "probe") /\ report' = report /\ client[c].pc = "spawn"
        /\ UNCHANGED <<split, panel, banned, aside, lifted, unread>> /\ daemon[p] = "off" /\ Typed
    BY <1>3 DEF D!SpawnDaemon, D!bans, D!Is, BanInv
  <2>2. /\ daemon' \in [Daemon -> Places] /\ daemon'[p] = "probe"
        /\ \A q \in Daemon \ {p} : daemon'[q] = daemon[q]
    BY <2>1, GotoTyped DEF Places
  <2>3. Writers'
    BY <2>1, <2>2 DEF BanInv, Writers, Writes, Serves, Typed, Report
  <2>4. /\ client'[c].pc = "poll" /\ client'[c].login = client[c].login
        /\ \A b \in Client \ {c} : client'[b] = client[b]
    BY <2>1, StepTyped
  <2>5. ~Given' => Current' /\ Reported'
    BY <2>1, <2>4 DEF BanInv, Given, Current, Reported, Writes, Everbanned
  <2>6. \A b \in Client : report'[b].stage = "done" => client'[b].pc = "wait"
    BY <2>1, <2>4 DEF BanInv
  <2> QED BY <2>1, <2>3, <2>5, <2>6 DEF BanInv, SocketInv
<1>4. CASE D!Tear
  <2>1. UNCHANGED <<daemon, socket, split, client, report, panel, aside, lifted, unread>> /\ banned'.logins = banned.logins
    BY <1>4 DEF D!Tear, D!processes
  <2> QED BY <2>1 DEF BanInv, Typed, Writers, Writes, Serves, Given, Current, Reported, Everbanned
<1>5. CASE UNCHANGED D!vars
  BY <1>5 DEF D!vars, D!processes, D!bans, BanInv, Typed, Writers, Writes, Serves, Given, Current, Reported, Everbanned
<1> QED BY <1>1, <1>2, <1>3, <1>4, <1>5, NextSplit, UnbanBans

\* A ban that an agent is killed for is not lost over torn files, un-bans and
\* daemons that come, go and die: who was reported is listed, in a copy that was
\* put aside, or was un-banned, as long as no daemon bound the socket while
\* another served and no list was taken for empty without a copy
\* (daemon.js handleReportInjection, readBanned, handleUnban).
THEOREM BansLast ==
  ASSUME Login # {}
  PROVE  D!Spec => []BansKept
<1>1. D!Init => BanInv
  <2> SUFFICES ASSUME D!Init PROVE BanInv
    OBVIOUS
  <2>1. panel.at = 0 /\ banned.logins = {} /\ \A c \in Client : report[c].stage = "none" /\ client[c].pc = "idle"
    BY DEF D!Init, D!NoEdit, D!Off, D!Absent
  <2>2. \A p \in Daemon : ~Serves(p)
    BY DEF D!Init, Serves
  <2>3. Typed
    BY InitSocket DEF SocketInv
  <2> QED BY <2>1, <2>2, <2>3 DEF BanInv, Writers, Writes, Current, Reported
<1>2. BanInv => BansKept
  BY DEF BanInv, BansKept, D!BansKept, D!TellsTruth, Reported, Given, Everbanned
<1> QED BY <1>1, <1>2, InitSocket, NextSocket, NextBans, PTL DEF D!Spec

----------------------------------------------------------------------------
(* The installers (AllocatorSetup) *)

Configs == [text : {"whole", "partial", "empty"}, ours : BOOLEAN, legacy : BOOLEAN, own : Nat]
JobKinds == {"none", "auto", "install", "uninstall"}
Stages == {"off", "check", "deps", "legacy", "migrate", "strip", "read", "write", "files", "md",
           "status", "stop", "remove"}
Jobs == [kind : JobKinds, pc : Stages, seen : Configs, mine : BOOLEAN, alone : BOOLEAN]
Reads == [pc : {"idle", "read", "write", "flush"}, seen : Configs]

\* A configuration that is not started over, unless an installer found it empty.
Kept(c) == c.own = 0 => gap

SetupTyped == claude \in Configs /\ code \in Reads /\ job \in [Thread -> Jobs]

\* Nobody has read more than is kept; a job that runs alone runs alone; an
\* uninstallation that runs alone leaves nothing; and from its end on only
\* uninstallations run, for the setup is done.
Keeps == Kept(claude) /\ Kept(code.seen) /\ \A j \in Thread : Kept(job[j].seen)
Alone == \A j \in Thread : (job[j].kind # "none" /\ job[j].alone) => \A i \in Thread \ {j} : job[i].kind = "none"
Gone == \A j \in Thread : (job[j].kind = "uninstall" /\ job[j].alone /\ job[j].pc = "status") => files = {}
Stands == settled => (files = {} /\ done /\ \A j \in Thread : job[j].kind \notin S!Installs)

SetupInv == SetupTyped /\ Keeps /\ Alone /\ Gone /\ Stands

LEMMA Plain ==
  /\ S!Fresh \in Configs /\ S!Nothing \in Configs /\ S!Fresh.own = 1 /\ S!Nothing.own = 0
  /\ S!NoJob \in Jobs /\ S!NoJob.kind = "none" /\ S!NoJob.pc = "off" /\ S!NoJob.seen = S!Fresh
<1>1. S!Fresh \in Configs /\ S!Nothing \in Configs /\ S!Fresh.own = 1 /\ S!Nothing.own = 0
  BY DEF S!Fresh, S!Nothing, Configs
<1>2. /\ S!NoJob = [kind |-> "none", pc |-> "off", seen |-> S!Fresh, mine |-> FALSE, alone |-> FALSE]
      /\ "none" \in JobKinds /\ "off" \in Stages
  BY DEF S!NoJob, JobKinds, Stages
<1> QED BY <1>1, <1>2 DEF Jobs

\* A job goes on, and no other is touched.
LEMMA JobGoes ==
  ASSUME NEW t \in Jobs, NEW pc \in Stages, NEW u, u = [t EXCEPT !.pc = pc]
  PROVE  u \in Jobs /\ u.pc = pc /\ u.kind = t.kind /\ u.alone = t.alone /\ u.mine = t.mine /\ u.seen = t.seen
BY DEF Jobs

LEMMA Proceeds ==
  ASSUME SetupInv, NEW j \in Thread, NEW t \in Jobs, job' = [job EXCEPT ![j] = t],
         t.kind = job[j].kind, t.alone = job[j].alone, t.seen.own = 0 => gap',
         claude' \in Configs, claude'.own = 0 => gap', code' = code, gap => gap',
         files' = files \/ files' = {} \/ t.kind \in S!Installs,
         (t.kind = "uninstall" /\ t.pc = "status") => files' = {},
         done' = done, settled' = settled
  PROVE  SetupInv'
<1>1. /\ job' \in [Thread -> Jobs] /\ job'[j] = t
      /\ \A i \in Thread \ {j} : job'[i] = job[i]
  BY DEF SetupInv, SetupTyped
<1>2. SetupTyped'
  BY <1>1 DEF SetupInv, SetupTyped
<1>3. Keeps'
  BY <1>1 DEF SetupInv, Keeps, Kept
<1>4. Alone'
  BY <1>1 DEF SetupInv, Alone
<1>5. Gone'
  <2>1. SUFFICES ASSUME NEW i \in Thread \ {j}, job[i].kind = "uninstall", job[i].alone, job[i].pc = "status"
                 PROVE  files' = {}
    BY <1>1 DEF Gone
  <2>2. files = {} /\ job[j].kind = "none"
    BY <2>1 DEF SetupInv, Gone, Alone
  <2> QED BY <2>2 DEF S!Installs
<1>6. Stands'
  <2>1. SUFFICES ASSUME settled PROVE files' = {} /\ done' /\ \A i \in Thread : job'[i].kind \notin S!Installs
    BY DEF Stands
  <2>2. files = {} /\ done /\ \A i \in Thread : job[i].kind \notin S!Installs
    BY <2>1 DEF SetupInv, Stands
  <2> QED BY <1>1, <2>2
<1> QED BY <1>2, <1>3, <1>4, <1>5, <1>6 DEF SetupInv

LEMMA EndsSetup ==
  ASSUME SetupInv, NEW j \in Thread, NEW ok \in BOOLEAN, S!Ends(j, ok), ok => job[j].pc = "status",
         claude' = claude, code' = code, gap' = gap, files' = files
  PROVE  SetupInv'
<1>1. /\ job' \in [Thread -> Jobs] /\ job'[j] = S!NoJob
      /\ \A i \in Thread \ {j} : job'[i] = job[i]
  BY Plain DEF SetupInv, SetupTyped, S!Ends
<1>2. SetupTyped'
  BY <1>1 DEF SetupInv, SetupTyped
<1>3. Keeps'
  BY <1>1, Plain DEF SetupInv, Keeps, Kept
<1>4. Alone'
  BY <1>1, Plain DEF SetupInv, Alone
<1>5. Gone'
  BY <1>1, Plain DEF SetupInv, Gone
<1>6. Stands'
  <2>1. SUFFICES ASSUME settled' PROVE files = {} /\ done' /\ \A i \in Thread : job'[i].kind \notin S!Installs
    BY DEF Stands
  <2>2. CASE settled
    <3>1. files = {} /\ done /\ \A i \in Thread : job[i].kind \notin S!Installs
      BY <2>2 DEF SetupInv, Stands
    <3>2. done'
      BY <3>1 DEF S!Ends
    <3> QED BY <1>1, <3>1, <3>2, Plain DEF S!Installs
  <2>3. CASE ~settled
    <3>1. ok /\ job[j].kind = "uninstall" /\ job[j].mine /\ job[j].alone
      BY <2>1, <2>3 DEF S!Ends
    <3>2. done'
      BY <3>1 DEF S!Ends, S!Settled
    <3>3. files = {} /\ \A i \in Thread \ {j} : job[i].kind = "none"
      BY <3>1 DEF SetupInv, Alone, Gone
    <3> QED BY <1>1, <3>2, <3>3, Plain DEF S!Installs
  <2> QED BY <2>2, <2>3
<1> QED BY <1>2, <1>3, <1>4, <1>5, <1>6 DEF SetupInv

\* A step of a job that goes from stage to stage, as all of them do.
LEMMA GoesSetup ==
  ASSUME SetupInv, NEW j \in Thread, NEW pc \in Stages, S!Goto(j, pc),
         claude' \in Configs, Kept(claude'), code' = code, gap' = gap,
         files' = files \/ files' = {} \/ job[j].kind \in S!Installs,
         (job[j].kind = "uninstall" /\ pc = "status") => files' = {},
         done' = done, settled' = settled
  PROVE  SetupInv'
<1>1. PICK t : t = [job[j] EXCEPT !.pc = pc]
  OBVIOUS
<1>2. job[j] \in Jobs
  BY DEF SetupInv, SetupTyped
<1>3. t \in Jobs /\ t.pc = pc /\ t.kind = job[j].kind /\ t.alone = job[j].alone /\ t.seen = job[j].seen
  BY <1>1, <1>2, JobGoes
<1>4. job' = [job EXCEPT ![j] = t]
  BY <1>1 DEF S!Goto
<1>5. t.seen.own = 0 => gap
  BY <1>3 DEF SetupInv, Keeps, Kept
<1> QED BY <1>3, <1>4, <1>5, Proceeds DEF Kept

\* The same of one that reads the configuration on its way.
LEMMA ReadsSetup ==
  ASSUME SetupInv, NEW j \in Thread, NEW pc \in Stages, NEW c \in Configs,
         job' = [job EXCEPT ![j].seen = c, ![j].pc = pc], c.own = 0 => gap', gap => gap',
         UNCHANGED <<claude, code, files, done, settled>>, pc # "status"
  PROVE  SetupInv'
<1>1. PICK t : t = [job[j] EXCEPT !.seen = c, !.pc = pc]
  OBVIOUS
<1>2. job[j] \in Jobs
  BY DEF SetupInv, SetupTyped
<1>3. t \in Jobs /\ t.pc = pc /\ t.kind = job[j].kind /\ t.alone = job[j].alone /\ t.seen = c
  BY <1>1, <1>2 DEF Jobs
<1>4. job' = [job EXCEPT ![j] = t]
  BY <1>1 DEF SetupInv, SetupTyped
<1>5. claude' \in Configs /\ (claude'.own = 0 => gap')
  BY DEF SetupInv, SetupTyped, Keeps, Kept
<1> QED BY <1>3, <1>4, <1>5, Proceeds

LEMMA ConfigEdited ==
  ASSUME NEW c \in Configs, NEW b \in BOOLEAN
  PROVE  /\ [c EXCEPT !.ours = b] \in Configs /\ [c EXCEPT !.ours = b].own = c.own
         /\ [c EXCEPT !.legacy = b] \in Configs /\ [c EXCEPT !.legacy = b].own = c.own
BY DEF Configs

LEMMA CodeEdited ==
  ASSUME NEW c \in Configs, NEW t \in {"whole", "partial", "empty"}
  PROVE  /\ [c EXCEPT !.text = t] \in Configs /\ [c EXCEPT !.text = t].own = c.own
         /\ [c EXCEPT !.own = IF @ = 0 THEN 0 ELSE @ + 1] \in Configs
         /\ [c EXCEPT !.own = IF @ = 0 THEN 0 ELSE @ + 1].own = 0 => c.own = 0
BY DEF Configs

LEMMA InstallerSetup ==
  ASSUME SetupInv, NEW j \in Thread, S!Installer(j)
  PROVE  SetupInv'
<1> USE DEF S!At, S!Elsewhere
<1>1. /\ job[j] \in Jobs /\ job[j].seen \in Configs /\ claude \in Configs
      /\ Kept(claude) /\ Kept(job[j].seen)
  BY DEF SetupInv, SetupTyped, Jobs, Keeps
<1>2. /\ {"migrate", "strip", "read", "write", "files", "md", "status", "remove"} \subseteq Stages
      /\ "uninstall" \notin S!Installs
  BY DEF Stages, S!Installs
<1>4. CASE S!MigrateReads(j)
  <2>1. PICK pc \in {"migrate", "strip"} : job' = [job EXCEPT ![j].seen = claude, ![j].pc = pc]
    BY <1>4 DEF S!MigrateReads
  <2>2. UNCHANGED <<claude, code, files, done, settled>> /\ gap' = gap /\ (claude.own = 0 => gap')
    BY <1>1, <1>4 DEF S!MigrateReads, Kept
  <2>3. pc \in Stages /\ pc # "status"
    BY <1>2
  <2> QED BY <1>1, <2>1, <2>2, <2>3, ReadsSetup
<1>5. CASE S!UnregisterReads(j)
  <2>1. PICK pc \in {"write", "remove"} : job' = [job EXCEPT ![j].seen = claude, ![j].pc = pc]
    BY <1>5 DEF S!UnregisterReads
  <2>2. UNCHANGED <<claude, code, files, done, settled>> /\ gap' = gap /\ (claude.own = 0 => gap')
    BY <1>1, <1>5 DEF S!UnregisterReads, Kept
  <2>3. pc \in Stages /\ pc # "status"
    BY <1>2
  <2> QED BY <1>1, <2>1, <2>2, <2>3, ReadsSetup
<1>6. CASE S!RegisterReads(j)
  <2>1. CASE S!Ends(j, FALSE) /\ gap' = gap
    BY <1>6, <2>1, EndsSetup DEF S!RegisterReads, S!machine
  <2>2. CASE /\ S!Readable(claude) /\ job' = [job EXCEPT ![j].seen = S!Content(claude), ![j].pc = "write"]
             /\ gap' = (gap \/ claude.text = "empty") /\ UNCHANGED <<done, settled>>
    <3>1. /\ S!Content(claude) \in Configs
          /\ S!Content(claude).own = 0 => gap'
          /\ gap => gap'
      BY <1>1, <2>2, Plain DEF S!Content, S!Readable, Kept, Configs
    <3> QED BY <1>2, <1>6, <2>2, <3>1, ReadsSetup DEF S!RegisterReads, S!machine
  <2> QED BY <1>6, <2>1, <2>2 DEF S!RegisterReads
<1>7. CASE S!Migrate(j)
  <2>1. claude' \in Configs /\ Kept(claude')
    BY <1>1, <1>7, ConfigEdited DEF S!Migrate, Kept
  <2> QED BY <1>2, <1>7, <2>1, GoesSetup DEF S!Migrate
<1>8. CASE S!Strip(j)
  BY <1>1, <1>2, <1>8, GoesSetup DEF S!Strip
<1>9. CASE S!Register(j)
  <2>1. claude' \in Configs /\ Kept(claude')
    BY <1>1, <1>9, ConfigEdited DEF S!Register, Kept
  <2> QED BY <1>2, <1>9, <2>1, GoesSetup DEF S!Register
<1>10. CASE S!InstallSkillAndRule(j) \/ S!InjectClaudeMd(j)
  BY <1>1, <1>2, <1>10, GoesSetup DEF S!InstallSkillAndRule, S!InjectClaudeMd
<1>11. CASE S!StopDaemon(j)
  BY <1>1, <1>2, <1>11, GoesSetup DEF S!StopDaemon
<1>12. CASE S!Unregister(j)
  <2>1. claude' \in Configs /\ Kept(claude')
    BY <1>1, <1>12, ConfigEdited DEF S!Unregister, Kept
  <2> QED BY <1>2, <1>12, <2>1, GoesSetup DEF S!Unregister
<1>13. CASE S!Remove(j)
  BY <1>1, <1>2, <1>13, GoesSetup DEF S!Remove
<1>14. CASE S!Status(j)
  <2>1. PICK ok \in BOOLEAN : S!Ends(j, ok)
    BY <1>14 DEF S!Status
  <2> QED BY <1>14, <2>1, EndsSetup DEF S!Status, S!machine
<1> QED BY <1>4, <1>5, <1>6, <1>7, <1>8, <1>9, <1>10, <1>11, <1>12, <1>13, <1>14 DEF S!Installer

LEMMA BeginSetup ==
  ASSUME SetupInv, NEW j \in Thread, NEW kind \in {"auto", "install", "uninstall"}, S!Begin(j, kind)
  PROVE  SetupInv'
<1> DEFINE pc == CASE kind = "auto" -> "check" [] kind = "install" -> "deps" [] OTHER -> "stop"
           new == [S!NoJob EXCEPT !.kind = kind, !.mine = TRUE, !.alone = (S!Running = {}), !.pc = pc]
<1>1. /\ UNCHANGED <<claude, files, done, code, gap>> /\ (kind = "auto" => ~done)
      /\ settled' <=> (settled /\ kind # "install")
      /\ job' = [i \in Thread |-> IF i # j THEN [job[i] EXCEPT !.alone = FALSE] ELSE new]
  BY DEF S!Begin, S!machine
<1>2. pc \in {"check", "deps", "stop"}
  OBVIOUS
<1>3. /\ new.kind = kind /\ new.pc = pc /\ new.seen = S!Fresh /\ (new.alone <=> S!Running = {})
      /\ new \in Jobs
  <2>1. PICK b \in BOOLEAN : b = (S!Running = {})
    OBVIOUS
  <2>2. PICK q \in Stages : q = pc
    BY <1>2 DEF Stages
  <2>3. new = [S!NoJob EXCEPT !.kind = kind, !.mine = TRUE, !.alone = b, !.pc = q] /\ kind \in JobKinds
    BY <2>1, <2>2 DEF JobKinds
  <2>4. new \in Jobs /\ new.kind = kind /\ new.pc = q /\ new.alone = b /\ new.seen = S!Fresh
    BY <2>3, Plain DEF Jobs
  <2> QED BY <2>1, <2>2, <2>4
<1> HIDE DEF new, pc
<1>4. ASSUME NEW i \in Thread \ {j}
      PROVE  /\ job'[i] \in Jobs /\ job'[i].kind = job[i].kind /\ job'[i].pc = job[i].pc /\ ~job'[i].alone
             /\ job'[i].seen = job[i].seen
  <2>1. job[i] \in Jobs /\ job'[i] = [job[i] EXCEPT !.alone = FALSE]
    BY <1>1 DEF SetupInv, SetupTyped
  <2> QED BY <2>1 DEF Jobs
<1>5. job'[j] = new
  BY <1>1
<1>6. SetupTyped'
  <2>1. job' \in [Thread -> Jobs]
    BY <1>1, <1>3, <1>4, <1>5
  <2> QED BY <1>1, <2>1 DEF SetupInv, SetupTyped
<1>7. Keeps'
  BY <1>1, <1>3, <1>4, <1>5, Plain DEF SetupInv, Keeps, Kept
<1>8. Alone'
  <2>1. new.alone => \A i \in Thread \ {j} : job[i].kind = "none"
    BY <1>3 DEF S!Running
  <2> QED BY <1>4, <1>5, <2>1 DEF Alone
<1>9. Gone'
  BY <1>2, <1>3, <1>4, <1>5 DEF Gone
<1>10. Stands'
  BY <1>1, <1>3, <1>4, <1>5 DEF SetupInv, Stands, S!Installs
<1> QED BY <1>6, <1>7, <1>8, <1>9, <1>10 DEF SetupInv

LEMMA RestartSetup ==
  ASSUME SetupInv, S!Restart
  PROVE  SetupInv'
<1>1. /\ UNCHANGED <<claude, files, done, code, gap, settled>>
      /\ job' = [j \in Thread |-> IF job[j].pc \in {"check", "deps"} THEN S!NoJob ELSE [job[j] EXCEPT !.mine = FALSE]]
  BY DEF S!Restart
<1>2. ASSUME NEW j \in Thread
      PROVE  /\ job'[j] \in Jobs
             /\ \/ job'[j] = S!NoJob
                \/ /\ job'[j].kind = job[j].kind /\ job'[j].pc = job[j].pc /\ job'[j].alone = job[j].alone
                   /\ job'[j].seen = job[j].seen
  <2>1. job[j] \in Jobs /\ job'[j] \in {S!NoJob, [job[j] EXCEPT !.mine = FALSE]}
    BY <1>1 DEF SetupInv, SetupTyped
  <2> QED BY <2>1, Plain DEF Jobs
<1>3. SetupTyped'
  <2>1. job' \in [Thread -> Jobs]
    BY <1>1, <1>2
  <2> QED BY <1>1, <2>1 DEF SetupInv, SetupTyped
<1>4. Keeps' /\ Gone'
  BY <1>1, <1>2, Plain DEF SetupInv, Keeps, Kept, Gone
<1>5. Alone'
  BY <1>1, <1>2, Plain DEF SetupInv, Alone
<1>6. Stands'
  BY <1>1, <1>2, Plain DEF SetupInv, Stands, S!Installs
<1> QED BY <1>3, <1>4, <1>5, <1>6 DEF SetupInv

LEMMA CheckSetup ==
  ASSUME SetupInv, NEW j \in Thread, S!Check(j)
  PROVE  SetupInv'
<1>1. UNCHANGED <<claude, files, code, gap, settled>> /\ job[j].kind = "auto"
  BY DEF S!Check, S!At, S!machine
<1>2. CASE done' = (done \/ job[j].mine) /\ job' = [job EXCEPT ![j] = S!NoJob]
  <2>1. job' \in [Thread -> Jobs] /\ job'[j] = S!NoJob /\ \A i \in Thread \ {j} : job'[i] = job[i]
    BY <1>2, Plain DEF SetupInv, SetupTyped
  <2>2. SetupTyped' /\ Keeps' /\ Gone'
    BY <1>1, <2>1, Plain DEF SetupInv, SetupTyped, Keeps, Kept, Gone
  <2>3. Alone'
    BY <2>1, Plain DEF SetupInv, Alone
  <2>4. ~settled
    BY <1>1 DEF SetupInv, Stands, S!Installs
  <2> QED BY <1>1, <2>2, <2>3, <2>4 DEF SetupInv, Stands
<1>3. CASE S!Goto(j, "deps") /\ done' = done
  <2>1. "deps" \in Stages /\ claude' \in Configs /\ Kept(claude')
    BY <1>1 DEF Stages, SetupInv, SetupTyped, Keeps, Kept
  <2> QED BY <1>1, <1>3, <2>1, GoesSetup
<1> QED BY <1>2, <1>3 DEF S!Check

LEMMA NextSetup ==
  ASSUME SetupInv, [S!Next]_(S!vars)
  PROVE  SetupInv'
<1>1. ASSUME UNCHANGED <<files, done, job, gap, settled>>,
             claude' \in Configs, code' \in Reads, Kept(claude'), Kept(code'.seen)
      PROVE  SetupInv'
  BY <1>1 DEF SetupInv, SetupTyped, Keeps, Kept, Alone, Gone, Stands
<1>2. claude \in Configs /\ code \in Reads /\ code.seen \in Configs /\ Kept(claude) /\ Kept(code.seen)
  BY DEF SetupInv, SetupTyped, Reads, Keeps
<1>3. CASE S!CodeReads \/ S!CodeWrites \/ S!CodeFlushes \/ S!CodeWritten \/ S!AgentStarts \/ UNCHANGED S!vars
  <2> USE DEF S!CodeReads, S!CodeWrites, S!CodeFlushes, S!CodeWritten, S!AgentStarts, S!vars, S!machine
  <2>1. claude' \in Configs /\ Kept(claude')
    BY <1>2, <1>3, CodeEdited DEF Kept
  <2>2. code' \in Reads /\ Kept(code'.seen)
    BY <1>2, <1>3 DEF Reads, Kept
  <2>3. UNCHANGED <<files, done, job, gap, settled>>
    BY <1>3
  <2> QED BY <1>1, <2>1, <2>2, <2>3
<1>4. ASSUME NEW j \in Thread, S!EnsureDeps(j)
      PROVE  SetupInv'
  <2>1. "legacy" \in Stages
    BY DEF Stages
  <2> QED BY <1>2, <1>4, <2>1, GoesSetup DEF S!EnsureDeps, Kept
<1>5. ASSUME NEW j \in Thread, S!Fails(j)
      PROVE  SetupInv'
  BY <1>5, EndsSetup DEF S!Fails, S!machine
<1> QED BY <1>3, <1>4, <1>5, BeginSetup, CheckSetup, RestartSetup, InstallerSetup DEF S!Next

LEMMA InitSetup ==
  ASSUME S!Init
  PROVE  SetupInv
<1>1. [S!Fresh EXCEPT !.legacy = TRUE] \in Configs /\ [S!Fresh EXCEPT !.legacy = TRUE].own = 1
  BY Plain, ConfigEdited
<1>2. claude \in Configs /\ claude.own = 1 /\ code = [pc |-> "idle", seen |-> S!Fresh] /\ ~settled
      /\ job = [j \in Thread |-> S!NoJob]
  BY <1>1, Plain DEF S!Init
<1>3. SetupTyped
  BY <1>2, Plain DEF SetupTyped, Reads
<1> QED BY <1>2, <1>3, Plain DEF SetupInv, Keeps, Kept, Alone, Gone, Stands, S!Installs

\* Whatever the installers and Claude Code read of the configuration while the
\* other writes it, the user's settings are started over only by an installer
\* that found the file empty (install.js registerMcp).
THEOREM SettingsSurvive ==
  S!Spec => []ConfigKept
<1>1. SetupInv => ConfigKept
  BY DEF SetupInv, Keeps, Kept, ConfigKept, S!ConfigKept
<1> QED BY <1>1, InitSetup, NextSetup, PTL DEF S!Spec

\* What the user took away, with no other installer about, is not put back unless
\* the user asks for it, whatever ends the applet in between
\* (store.py uninstall_allocator_async, ensure_allocator_installed_async).
THEOREM UninstallStands ==
  S!Spec => []ChoiceStands
<1>1. SetupInv => ChoiceStands
  <2>1. SUFFICES ASSUME SetupInv, settled
                 PROVE  files = {} /\ \A j \in S!Running : job[j].kind = "uninstall"
    BY DEF ChoiceStands, S!ChoiceStands
  <2>2. \A j \in Thread : job[j].kind \in JobKinds
    BY <2>1 DEF SetupInv, SetupTyped, Jobs
  <2> QED BY <2>1, <2>2 DEF SetupInv, Stands, S!Running, S!Installs, JobKinds
<1> QED BY <1>1, InitSetup, NextSetup, PTL DEF S!Spec
=============================================================================
