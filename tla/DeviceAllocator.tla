-------------------------- MODULE DeviceAllocator --------------------------
(***************************************************************************)
(* The device allocator daemon (device-allocator/src/daemon.js): one       *)
(* single-threaded event loop that leases simulators and emulators to the  *)
(* agents of this machine.  A handler is a chain of actions cut at its     *)
(* awaits; `lock' is the withLock mutex; everything between two awaits is  *)
(* one atomic step.  A lease record is a JavaScript object: handlers keep  *)
(* references to it after it left the table, so records are named by an    *)
(* Id and the code's `allocations.get(key) === record' is `Held'.          *)
(*                                                                         *)
(* Abstracted: clocks (an expiry may happen or not), the pool order (any   *)
(* best device may be picked), screen hashes, names and versions (a        *)
(* requirement is the set of devices that match it), wording of replies.   *)
(***************************************************************************)
EXTENDS Naturals, FiniteSets

CONSTANTS
  Device,        \* every device of the machine, by its table key
  Apple,         \* those simctl drives: their UDID is always known
  Vega,          \* unmanaged ones: claimed by name, never booted or stopped
  Agent,         \* owner pids
  Call,          \* slots for /request, /change and /broken calls in flight
  Slot,          \* how many records of one device may be referenced at once
  Quota,         \* DA_QUOTA
  Requirements,  \* the sets of devices a requirement can match
  AutoRepair,    \* DA_AUTO_REPAIR=1
  Sequential,    \* TRUE: an agent has at most one tool call in flight
  UserRunning,   \* devices that run when the daemon first starts
  Traffic,       \* what clients and the world do besides /request (a bound)
  NoDevice, NoAgent, NoCall, NoId, NoLease

Kinds == {"claim", "change", "broken", "release", "exit", "death", "kill",
          "idle", "repaired", "crash", "sigterm"}

VARIABLES
  table,    \* the `allocations' Map: device -> record id
  lease,    \* record id -> lease record
  saved,    \* leases.json: device -> its record as last published, and as
            \* a restarted daemon will read it
  call,     \* call slot -> continuation of its handler
  lock,     \* the call inside withLock across an await
  sweep,    \* records the running idleSweep has still to judge
  erasing,  \* records whose automated erase/wipe is running
  alive,    \* agent -> its MCP server process is running
  told,     \* agent -> the devices it was answered are its own, until it
            \* gives them up or /kill or the idle limit takes them
  power,    \* device -> "off", "on" (booted by a lease) or "user" (was running)
  stops     \* devices with a shutdown subprocess under way

vars == <<table, lease, saved, call, lock, sweep, erasing, alive, told,
          power, stops>>
loops == <<sweep, erasing>>
world == <<alive, power, stops>>

\* Names for lease records: a record is about one device for all its life.
Id == Device \X Slot

ASSUME ConstantsAssumption ==
  /\ Apple \subseteq Device /\ Vega \subseteq Device /\ UserRunning \subseteq Device /\ Apple \cap Vega = {}
  /\ Quota \in Nat
  /\ Requirements \subseteq SUBSET Device
  /\ Traffic \subseteq Kinds
  /\ AutoRepair \in BOOLEAN /\ Sequential \in BOOLEAN
  /\ NoDevice \notin Device /\ NoAgent \notin Agent
  /\ NoCall \notin Call /\ NoId \notin Id
  /\ Slot # {}

Status == {"booting", "ready", "error", "repairing"}

\* bootedByUs: we started it, so we stop it.  handle: the address a shutdown
\* or a deviceId lookup needs is known (an Android serial is not, mid-boot).
Lease == [dev : Device, owner : Agent \cup {NoAgent}, status : Status,
          bootedByUs : BOOLEAN, handle : BOOLEAN]

ASSUME NoLeaseAssumption == NoLease \notin Lease

\* The CLIs list a machine's devices.
ASSUME DevicesFinite == IsFiniteSet(Device)

\* "freeing"   handleChange waits for the lock to release the old device
\* "queued"    handleRequest waits for the lock
\* "listing"   it holds the lock and enumerates devices
\* "choosing"  enumeration has answered
\* "booting"   reserved, boot command not yet run;  "waiting" it has run
\* "failed"    the boot failed; waits for the lock to drop the lease
\* "restoring" handleChange waits for the lock to put the old lease back
Pc == {"idle", "freeing", "queued", "listing", "choosing", "booting",
       "waiting", "failed", "restoring"}

CallRecord == [pc : Pc, op : {"request", "change", "broken"},
               owner : Agent \cup {NoAgent}, want : SUBSET Device,
               target : Device \cup {NoDevice}, \* the deviceId it names
               rec : Id \cup {NoId},            \* the lease it reserved
               old : Id \cup {NoId},            \* the lease it gives up
               seen : SUBSET Device]            \* enumerated as booted

Idle == [pc |-> "idle", op |-> "request", owner |-> NoAgent, want |-> {},
         target |-> NoDevice, rec |-> NoId, old |-> NoId, seen |-> {}]

----------------------------------------------------------------------------
(* Reading the table *)

Leased(d) == table[d] # NoId
At(d) == lease[table[d]]
Held(r) == \E d \in Device : table[d] = r

\* Records of the table that count towards the quota.
Active == {d \in Device : Leased(d) /\ At(d).owner # NoAgent}

\* findOwned: the owner's leases, all of them or those the deviceId names.
FindOwned(a, id) ==
  {d \in Device : /\ Leased(d)
                  /\ At(d).owner = a
                  /\ id = NoDevice \/ (id = d /\ At(d).handle)}

\* Where shutdownAlloc reaches: no address, or vega, and it does nothing.
ShutdownOf(l) == IF l.handle /\ l.dev \notin Vega THEN {l.dev} ELSE {}

\* "shut down if we booted it", for a set of table entries.
ShutdownBooted(D) == UNION {IF At(d).bootedByUs THEN ShutdownOf(At(d)) ELSE {} : d \in D}

----------------------------------------------------------------------------
(* Writing it *)

\* Records somebody can still reach; the others are garbage collected.
Refs == {table[d] : d \in Device} \cup {call[c].rec : c \in Call}
          \cup {call[c].old : c \in Call} \cup sweep \cup erasing

Keep(l) == lease' = [r \in Id |-> IF r \in Refs' THEN l[r] ELSE NoLease]

\* A lease caught mid-boot is taken up as ready by the next daemon.
Rehydrated(l) ==
  [l EXCEPT !.status = IF l.status = "booting" THEN "ready" ELSE l.status]

\* Variant: persist only what is up (rehydrateLeases says why booting ones count).
PublishReady == saved' = [d \in Device |->
  IF table'[d] = NoId THEN NoLease
  ELSE IF lease'[table'[d]].status = "booting" THEN NoLease ELSE lease'[table'[d]]]

\* publish(): the lease table, as it now is, goes to leases.json.
Publish == saved' = [d \in Device |-> IF table'[d] = NoId THEN NoLease
                                          ELSE Rehydrated(lease'[table'[d]])]

Without(D) == [d \in Device |-> IF d \in D THEN NoId ELSE table[d]]

----------------------------------------------------------------------------
Init ==
  /\ table = [d \in Device |-> NoId]
  /\ lease = [r \in Id |-> NoLease]
  /\ saved = [d \in Device |-> NoLease]
  /\ call = [c \in Call |-> Idle]
  /\ lock = NoCall
  /\ sweep = {}
  /\ erasing = {}
  /\ alive = [a \in Agent |-> TRUE]
  /\ told = [a \in Agent |-> {}]
  /\ power = [d \in Device |-> IF d \in UserRunning THEN "user" ELSE "off"]
  /\ stops = {}

----------------------------------------------------------------------------
(* Calls arrive.  mcp.js sends its own pid; a session that runs one tool   *)
(* call at a time has no second call in flight.                            *)

\* The deviceIds an agent can name: those it was answered, or none.
Named(a) == told[a] \cup {NoDevice}

MayCall(a) == alive[a] /\ (Sequential => \A c \in Call : call[c].owner # a)

Arrive(c, rec) ==
  /\ call[c] = Idle
  /\ call' = [call EXCEPT ![c] = rec]

RequestArrives(c, a, want) ==
  /\ MayCall(a)
  /\ Arrive(c, [Idle EXCEPT !.pc = "queued", !.owner = a, !.want = want])
  /\ UNCHANGED <<table, lease, saved, lock, loops, told, world>>

\* /request with a deviceId: claim one device by name.
ClaimArrives(c, a, d) ==
  /\ MayCall(a)
  /\ Arrive(c, [Idle EXCEPT !.pc = "queued", !.owner = a, !.target = d])
  /\ UNCHANGED <<table, lease, saved, lock, loops, told, world>>

\* handleChange up to its first await: find the old lease, then ask
\* handleRelease to free old.handle, which is null on an unbooted Android.
ChangeArrives(c, a, id, want) ==
  /\ MayCall(a)
  /\ \E d \in FindOwned(a, id) :
       /\ Arrive(c, [Idle EXCEPT !.pc = "freeing", !.op = "change", !.owner = a,
                                 !.want = want, !.old = table[d],
                                 !.target = IF At(d).handle THEN d ELSE NoDevice])
       /\ told' = [told EXCEPT ![a] = @ \ {d}]
  /\ UNCHANGED <<table, lease, saved, lock, loops, world>>

\* handleBroken up to its first await, outside the lock: quarantine the old
\* lease in place, start a repair, then join the queue for another device.
BrokenArrives(c, a, id, want) ==
  /\ MayCall(a)
  /\ \E d \in FindOwned(a, id) :
       /\ Arrive(c, [Idle EXCEPT !.pc = "queued", !.op = "broken", !.owner = a,
                                 !.want = want, !.old = table[d]])
       /\ erasing' = IF AutoRepair /\ d \notin Vega THEN erasing \cup {table[d]}
                                                    ELSE erasing
       /\ stops' = IF AutoRepair /\ d \notin Vega THEN stops \cup {d} ELSE stops
       /\ lease' = [lease EXCEPT ![table[d]].status = "repairing",
                                 ![table[d]].owner = NoAgent]
       /\ told' = [told EXCEPT ![a] = @ \ {d}]
  /\ UNCHANGED <<table, lock, sweep, alive, power>>
  /\ Publish

----------------------------------------------------------------------------
(* handleRequest *)

\* Variants: age alone is enough; no quarantine TTL; no dead-owner branch.
ReapableByAge ==
  {d \in Device : Leased(d) /\ At(d).status \in {"repairing", "ready", "error"}}
ReapableQuarantine == {d \in Device : Leased(d) /\ At(d).status = "repairing"}

\* Leases the reaper may free now: a quarantine past its TTL, or a booted
\* lease past its grace whose owner is known dead.  The clocks are a choice.
Reapable ==
  {d \in Device : /\ Leased(d)
                  /\ \/ At(d).status = "repairing"
                     \/ /\ At(d).status \in {"ready", "error"}
                        /\ At(d).owner # NoAgent
                        /\ ~alive[At(d).owner]}

\* reapDeadOwners: a quarantine ends without a shutdown.
ReapStops(D) == ShutdownBooted({d \in D : At(d).status # "repairing"})

\* Variant: a refused change starts over.
RefusedRetries(c) ==
  IF call[c].op = "change" THEN [call[c] EXCEPT !.pc = "freeing", !.rec = NoId, !.seen = {}]
                           ELSE Idle

\* The call ends without a device; a change first puts the old lease back.
Refused(c) == IF call[c].op = "change"
                THEN [call[c] EXCEPT !.pc = "restoring", !.rec = NoId, !.seen = {}]
                ELSE Idle

\* Variant: off by one.
FullWithOneOver(gone) == Cardinality(Active \ gone) > Quota

\* The quota gate, once the reaper has freed `gone'.
Full(gone) == Cardinality(Active \ gone) >= Quota

\* Under the lock, up to the enumeration: reap, then the quota, then (for a
\* claim) the leases whose stored address the deviceId matches.
Gate(c) ==
  /\ call[c].pc = "queued" /\ lock = NoCall
  /\ \E gone \in SUBSET Reapable :
       LET d == call[c].target
           taken == d # NoDevice /\ Leased(d) /\ d \notin gone /\ At(d).handle
       IN /\ table' = Without(gone)
          /\ stops' = stops \cup ReapStops(gone)
          /\ IF Full(gone) \/ taken
               THEN lock' = lock /\ call' = [call EXCEPT ![c] = Refused(c)]
               ELSE lock' = c /\ call' = [call EXCEPT ![c].pc = "listing"]
          /\ UNCHANGED <<loops, told, alive, power>>
          /\ Keep(lease)
          /\ IF gone = {} THEN UNCHANGED saved ELSE Publish

\* The device CLIs answer; what they say is already old when it is used.
Enumerate(c) ==
  /\ call[c].pc = "listing"
  /\ call' = [call EXCEPT ![c].pc = "choosing",
                          ![c].seen = {d \in Device \ Vega : power[d] # "off"}]
  /\ UNCHANGED <<table, lease, saved, lock, loops, told, world>>

Excluded(c) == IF call[c].old = NoId THEN {} ELSE {lease[call[c].old].dev}

\* selectDevice: free, matching, not excluded; a booted one if there is one.
Matches(c) == {d \in call[c].want \ Vega : ~Leased(d)} \ Excluded(c)
Preferred(c) == IF Matches(c) \cap call[c].seen # {}
                  THEN Matches(c) \cap call[c].seen ELSE Matches(c)

\* Variant: the claim is not checked again after the enumeration.
ClaimableUnchecked(d) == {d}

\* A claimed device must be free under its key; vega, which no CLI lists, is
\* trusted: its only check was made before the await.
Claimable(d) == IF d \in Vega \/ ~Leased(d) THEN {d} ELSE {}

Candidates(c) == IF call[c].target = NoDevice THEN Preferred(c)
                                              ELSE Claimable(call[c].target)

\* reserve(): bootedByUs is what the enumeration said, not what is true now.
Reserved(c, d) ==
  [dev |-> d, owner |-> call[c].owner, status |-> "booting",
   bootedByUs |-> d \notin call[c].seen \cup Vega,
   handle |-> d \in Apple \cup Vega \cup call[c].seen]

Fresh(d) == {s \in Slot : lease[<<d, s>>] = NoLease}

Choose(c) ==
  /\ call[c].pc = "choosing"
  /\ lock' = NoCall
  /\ UNCHANGED <<loops, told, world>>
  /\ \/ /\ Candidates(c) = {}
        /\ call' = [call EXCEPT ![c] = Refused(c)]
        /\ UNCHANGED <<table, saved>>
        /\ Keep(lease)
     \/ \E d \in Candidates(c) :
             LET r == <<d, CHOOSE s \in Fresh(d) : TRUE>>
             IN /\ Fresh(d) # {}
                /\ table' = [table EXCEPT ![d] = r]
                /\ call' = [call EXCEPT ![c].pc = "booting", ![c].rec = r,
                                        ![c].seen = {}, ![c].want = {}]
                /\ Keep([lease EXCEPT ![r] = Reserved(c, d)])
                /\ Publish

\* bootAlloc runs the boot command: the device comes up, or it does not.
Boot(c) ==
  /\ call[c].pc = "booting"
  /\ call' = [call EXCEPT ![c].pc = "waiting"]
  /\ LET d == lease[call[c].rec].dev
     IN \/ UNCHANGED power
        \/ d \notin Vega /\ power[d] = "off" /\ power' = [power EXCEPT ![d] = "on"]
  /\ UNCHANGED <<table, lease, saved, lock, loops, told, alive, stops>>

\* bootIOS / bootAndroid answer.  ok means booted; an Android serial is known
\* only if the emulator is visible.  The status is written whatever it was.
Booted(l, ok) ==
  [l EXCEPT !.status = IF ok THEN "ready" ELSE "error",
            !.handle = l.dev \in Apple \cup Vega \/ power[l.dev] # "off"]

MayAnswer(d, ok) ==
  IF d \in Vega THEN ok ELSE ok => power[d] # "off"

\* Variant: stop it whoever has the device now.
ReleasedMidBootBlindly(c, l) ==
  /\ ~Held(call[c].rec)
  /\ stops' = stops \cup IF l.bootedByUs THEN ShutdownOf(l) ELSE {}
  /\ call' = [call EXCEPT ![c] = Refused(c)]
  /\ UNCHANGED told

\* The record left the table while it booted: stop the device, but only if
\* nobody else was given it.  handleRequest then answers 409.
ReleasedMidBoot(c, l) ==
  /\ ~Held(call[c].rec)
  /\ stops' = stops \cup IF l.bootedByUs /\ ~Leased(l.dev) THEN ShutdownOf(l) ELSE {}
  /\ call' = [call EXCEPT ![c] = Refused(c)]
  /\ UNCHANGED told

\* 503: stop what we started, then wait for the lock to drop the lease.
BootFailed(c, l) ==
  /\ Held(call[c].rec) /\ l.status = "error"
  /\ stops' = stops \cup IF l.bootedByUs THEN ShutdownOf(l) ELSE {}
  /\ call' = [call EXCEPT ![c].pc = "failed"]
  /\ UNCHANGED told

\* 'allocated'.  A change now stops its old device, if it is still free.
Granted(c, l) ==
  /\ Held(call[c].rec) /\ l.status = "ready"
  /\ LET o == lease[call[c].old]
     IN stops' = stops \cup IF /\ call[c].op = "change"
                               /\ o.bootedByUs /\ ~Leased(o.dev)
                            THEN ShutdownOf(o) ELSE {}
  /\ call' = [call EXCEPT ![c] = Idle]
  /\ told' = IF alive[call[c].owner]
               THEN [told EXCEPT ![call[c].owner] = @ \cup {l.dev}] ELSE told

BootAnswers(c) ==
  /\ call[c].pc = "waiting"
  /\ \E ok \in BOOLEAN :
       LET r == call[c].rec
           l == Booted(lease[r], ok)
       IN /\ MayAnswer(l.dev, ok)
          /\ ReleasedMidBoot(c, l) \/ BootFailed(c, l) \/ Granted(c, l)
          /\ UNCHANGED <<table, loops>>
          /\ Keep([lease EXCEPT ![r] = l])
  /\ UNCHANGED <<saved, lock, alive, power>>

DropFailed(c) ==
  /\ call[c].pc = "failed" /\ lock = NoCall
  /\ table' = [d \in Device |-> IF table[d] = call[c].rec THEN NoId ELSE table[d]]
  /\ call' = [call EXCEPT ![c] = Refused(c)]
  /\ UNCHANGED <<lock, loops, told, world>>
  /\ Keep(lease)
  /\ IF Held(call[c].rec) THEN Publish ELSE UNCHANGED saved

----------------------------------------------------------------------------
(* handleChange's own locked steps *)

FreeOld(c) ==
  /\ call[c].pc = "freeing" /\ lock = NoCall
  /\ table' = Without(FindOwned(call[c].owner, call[c].target))
  /\ call' = [call EXCEPT ![c].pc = "queued", ![c].target = NoDevice]
  /\ UNCHANGED <<lock, loops, told, world>>
  /\ Keep(lease)
  /\ Publish

Restorable(d) == ~Leased(d)

\* restoreOld: the old record goes back if its key is still free.
RestoreOld(c) ==
  /\ call[c].pc = "restoring" /\ lock = NoCall
  /\ LET r == call[c].old
         d == lease[r].dev
     IN \/ /\ Restorable(d)
           /\ table' = [table EXCEPT ![d] = r]
           /\ told' = IF alive[call[c].owner]
                        THEN [told EXCEPT ![call[c].owner] = @ \cup {d}] ELSE told
        \/ ~Restorable(d) /\ UNCHANGED <<table, told>>
  /\ call' = [call EXCEPT ![c] = Idle]
  /\ UNCHANGED <<lock, loops, world>>
  /\ Keep(lease)
  /\ IF table' = table THEN UNCHANGED saved ELSE Publish

----------------------------------------------------------------------------
(* Handlers that are one locked step *)

\* handleRelease: free what the owner holds or names, stop what we booted.
Releases(a, D) ==
  /\ lock = NoCall
  /\ table' = Without(D)
  /\ stops' = stops \cup ShutdownBooted(D)
  /\ told' = [told EXCEPT ![a] = @ \ D]
  /\ UNCHANGED <<call, lock, loops, power>>
  /\ Keep(lease)
  /\ Publish

\* /release, with or without a deviceId.
Release(a, id) ==
  /\ MayCall(a)
  /\ FindOwned(a, id) # {}
  /\ Releases(a, FindOwned(a, id))
  /\ UNCHANGED alive

\* The session closes: mcp.js releases all it holds, even with a call still
\* in flight, and exits.
Exit(a) ==
  /\ alive[a]
  /\ Releases(a, FindOwned(a, NoDevice))
  /\ alive' = [alive EXCEPT ![a] = FALSE]

\* /kill by key, the panel's X: free it and stop it, whoever booted it.
Kill(d) ==
  /\ lock = NoCall
  /\ Leased(d) \/ (d \notin Vega /\ power[d] # "off")
  /\ table' = Without({d})
  /\ stops' = stops \cup IF Leased(d) THEN ShutdownOf(At(d)) ELSE {d}
  /\ told' = [a \in Agent |-> told[a] \ {d}]
  /\ UNCHANGED <<call, lock, loops, alive, power>>
  /\ Keep(lease)
  /\ Publish

\* /repaired: only a quarantined device may come back this way.
Repaired(d) ==
  /\ lock = NoCall
  /\ Leased(d) /\ At(d).status = "repairing"
  /\ table' = Without({d})
  /\ UNCHANGED <<call, lock, loops, told, world>>
  /\ Keep(lease)
  /\ Publish

----------------------------------------------------------------------------
(* Timers: they never take the lock *)

\* reapDeadOwners, every REAP_INTERVAL_MS and at the head of /await.
Reap(gone) ==
  /\ gone # {} /\ gone \subseteq Reapable
  /\ table' = Without(gone)
  /\ stops' = stops \cup ReapStops(gone)
  /\ UNCHANGED <<call, lock, loops, told, alive, power>>
  /\ Keep(lease)
  /\ Publish

\* idleSweep lists the table, then takes one screenshot after another; with
\* at most QUOTA screenshots of 20 s a sweep ends before the next one starts.
SweepBegin ==
  /\ sweep = {}
  /\ \E d \in Device : Leased(d)
  /\ sweep' = {table[d] : d \in {e \in Device : Leased(e)}}
  /\ UNCHANGED <<table, lease, saved, call, lock, erasing, told, world>>

\* Variant: the status is not read again after the screenshot.
IdlesUnchecked(r) == Held(r) /\ ShutdownOf(lease[r]) # {}

\* A screenshot has come back (its publish waits for the end of the sweep, and
\* one with nothing new to say is refreshPool's); what is idle must still be leased and ready.
Idles(r) == Held(r) /\ lease[r].status = "ready" /\ ShutdownOf(lease[r]) # {}

SweepJudge(r) ==
  /\ r \in sweep
  /\ sweep' = sweep \ {r}
  /\ \/ UNCHANGED <<table, stops, told>>
     \/ /\ Idles(r)
        /\ LET d == lease[r].dev
           IN /\ table' = Without({d})
              /\ stops' = stops \cup ShutdownBooted({d})
              /\ told' = [a \in Agent |-> told[a] \ {d}]
  /\ UNCHANGED <<call, lock, erasing, alive, power>>
  /\ Keep(lease)
  /\ IF sweep' = {} THEN Publish ELSE UNCHANGED saved

\* refreshPool, every POOL_INTERVAL_MS and after a boot, publishes.
PoolRefresh ==
  /\ UNCHANGED <<table, lease, call, lock, loops, told, world>>
  /\ Publish
  /\ saved' # saved

\* A wipe cold-boots the emulator and, when done, shuts it down again, by then
\* whoever may have it.
WipeBoots(r) ==
  /\ r \in erasing /\ r[1] \notin Apple
  /\ power[r[1]] = "off"
  /\ power' = [power EXCEPT ![r[1]] = "on"]
  /\ stops' = stops \cup {r[1]}
  /\ UNCHANGED <<table, lease, saved, call, lock, loops, alive, told>>

\* The automated erase answers: only if the quarantine record is still the
\* one in the table does it end it, or hand over to a repair agent.
EraseAnswers(r) ==
  /\ r \in erasing
  /\ erasing' = erasing \ {r}
  /\ \E ok \in BOOLEAN :
       LET done == {d \in Device : table[d] = r /\ ok}
           escalated == Held(r) /\ ~ok
       IN /\ table' = Without(done)
          /\ UNCHANGED <<call, lock, sweep, told, world>>
          /\ Keep(IF escalated THEN [lease EXCEPT ![r].status = "repairing"] ELSE lease)
          /\ IF Held(r) THEN Publish ELSE UNCHANGED saved

----------------------------------------------------------------------------
(* The world outside the daemon *)

\* A shutdown subprocess takes effect.
StopLands(d) ==
  /\ d \in stops
  /\ stops' = stops \ {d}
  /\ power' = [power EXCEPT ![d] = "off"]
  /\ UNCHANGED <<table, lease, saved, call, lock, loops, told, alive>>

AgentDies(a) ==
  /\ alive[a]
  /\ alive' = [alive EXCEPT ![a] = FALSE]
  /\ told' = [told EXCEPT ![a] = {}]
  /\ UNCHANGED <<table, lease, saved, call, lock, loops, power, stops>>

\* The daemon goes away and the next client starts another, which rehydrates
\* from leases.json.  On SIGTERM the old one first stops what it booted.
Rehydratable(d) ==
  /\ saved[d] # NoLease
  /\ \/ saved[d].status = "repairing"
     \/ saved[d].owner # NoAgent /\ alive[saved[d].owner]

ExitStops == {d \in Device : Leased(d) /\ At(d).bootedByUs /\ ShutdownOf(At(d)) # {}}

Restart(sigterm) ==
  /\ LET name(d) == <<d, CHOOSE s \in Slot : TRUE>>
     IN /\ table' = [d \in Device |-> IF Rehydratable(d) THEN name(d) ELSE NoId]
        /\ lease' = [r \in Id |-> IF r = name(r[1]) /\ Rehydratable(r[1])
                                    THEN saved[r[1]] ELSE NoLease]
  /\ power' = [d \in Device |-> IF sigterm /\ d \in ExitStops THEN "off" ELSE power[d]]
  /\ call' = [c \in Call |-> Idle]
  /\ lock' = NoCall
  /\ sweep' = {}
  /\ erasing' = {}
  /\ UNCHANGED <<saved, alive, told, stops>>

----------------------------------------------------------------------------
Handler(c) ==
  \/ \E a \in Agent, want \in Requirements : RequestArrives(c, a, want)
  \/ \E a \in Agent, d \in Device :
       "claim" \in Traffic /\ ClaimArrives(c, a, d)
  \/ \E a \in Agent, want \in Requirements : \E id \in Named(a) :
       "change" \in Traffic /\ ChangeArrives(c, a, id, want)
  \/ \E a \in Agent, want \in Requirements : \E id \in Named(a) :
       "broken" \in Traffic /\ BrokenArrives(c, a, id, want)
  \/ Gate(c)
  \/ Enumerate(c)
  \/ Choose(c)
  \/ Boot(c)
  \/ BootAnswers(c)
  \/ DropFailed(c)
  \/ FreeOld(c)
  \/ RestoreOld(c)

OneStep ==
  \/ \E a \in Agent : \E id \in Named(a) : "release" \in Traffic /\ Release(a, id)
  \/ \E a \in Agent : "exit" \in Traffic /\ Exit(a)
  \/ \E d \in Device : "kill" \in Traffic /\ Kill(d)
  \/ \E d \in Device : "repaired" \in Traffic /\ Repaired(d)

Timer ==
  \/ \E gone \in SUBSET Device : Reap(gone)
  \/ "idle" \in Traffic /\ SweepBegin
  \/ \E r \in Id : SweepJudge(r)
  \/ PoolRefresh
  \/ \E r \in Id : WipeBoots(r)
  \/ \E r \in Id : EraseAnswers(r)

World ==
  \/ \E d \in Device : StopLands(d)
  \/ \E a \in Agent : "death" \in Traffic /\ AgentDies(a)
  \/ "crash" \in Traffic /\ Restart(FALSE)
  \/ "sigterm" \in Traffic /\ Restart(TRUE)

Next == (\E c \in Call : Handler(c)) \/ OneStep \/ Timer \/ World

Spec == Init /\ [][Next]_vars

\* withLock is a FIFO promise chain and its holder always lets go, so a call
\* that waits for it gets it (strong fairness); subprocess calls have timeouts
\* (weak fairness); the reaper is a setInterval.  Nobody has to make a call,
\* die, or restart the daemon.
TakesLock(c) == Gate(c) \/ DropFailed(c) \/ FreeOld(c) \/ RestoreOld(c)
Resumes(c) == Enumerate(c) \/ Choose(c) \/ Boot(c) \/ BootAnswers(c)
Reaps(d) == \E gone \in SUBSET Device : d \in gone /\ Reap(gone)

Fairness ==
  /\ \A c \in Call : SF_vars(TakesLock(c)) /\ WF_vars(Resumes(c))
  /\ \A d \in Device : WF_vars(Reaps(d))

FairSpec == Spec /\ Fairness

----------------------------------------------------------------------------
TypeOK ==
  /\ table \in [Device -> Id \cup {NoId}]
  /\ lease \in [Id -> Lease \cup {NoLease}]
  /\ saved \in [Device -> Lease \cup {NoLease}]
  /\ call \in [Call -> CallRecord]
  /\ lock \in Call \cup {NoCall}
  /\ sweep \subseteq Id /\ erasing \subseteq Id
  /\ alive \in [Agent -> BOOLEAN]
  /\ told \in [Agent -> SUBSET Device]
  /\ power \in [Device -> {"off", "on", "user"}]
  /\ stops \subseteq Device

----------------------------------------------------------------------------
(* Properties *)

\* Who holds a device, for the abstract service.
Holder == [d \in Device |-> IF ~Leased(d) THEN "free"
                            ELSE IF At(d).owner = NoAgent THEN "quarantine"
                            ELSE At(d).owner]

Service == INSTANCE LeaseService WITH holder <- Holder,
                                      Free <- "free", Quarantine <- "quarantine"

\* The daemon implements the abstract lease service: no step of it, a restart
\* included, takes a device from one holder and gives it to another, and a
\* quarantined device is never handed out (daemon.js:3-6, :317-319).
ImplementsLeaseService == Service!Spec

\* A device an agent was answered stays leased to that agent until the agent
\* gives it up, a kill or the idle limit takes it: through its own changes and
\* failed boots, other agents' calls, and daemon restarts (daemon.js:3-6,
\* :196-201, mcp.js "It is yours EXCLUSIVELY").
ToldIsHeld ==
  \A a \in Agent : \A d \in told[a] : Leased(d) /\ At(d).owner = a

\* A quarantine ends only by a repair (/repaired, the automated erase), its
\* TTL or a kill: no other handler resuming after an await may end it
\* (daemon.js:373-379, idleSweep's re-check :505-511).
QuarantineKept ==
  \A d \in Device :
    (/\ Leased(d) /\ At(d).status = "repairing"
     /\ ~(table'[d] = table[d] /\ lease'[table[d]].status = "repairing"))
    => \/ Repaired(d) \/ Kill(d)
       \/ \E r \in Id : EraseAnswers(r)
       \/ \E gone \in SUBSET Device : d \in gone /\ Reap(gone)
       \/ \E c \in Call : Gate(c)
       \/ \E s \in BOOLEAN : Restart(s) /\ lease'[table'[d]].status = "repairing"

\* A new lease is admitted only when the quota has room for it, although the
\* gate is checked before the enumeration is awaited (daemon.js:146-151).
AdmitUnderQuota ==
  [][\A c \in Call :
       (call[c].pc = "choosing" /\ call'[c].pc = "booting") =>
         Cardinality(Active') <= Quota]_vars

\* When a shutdown is issued the device is in nobody's lease, or in the lease
\* whose own boot has just failed, or in a quarantine being erased
\* (daemon.js:251-258, :308-311).
StopsFree ==
  \A d \in stops' \ stops :
    \/ table'[d] = NoId
    \/ lease'[table'[d]].status = "error"
    \/ lease'[table'[d]].status = "repairing" /\ table'[d] \in erasing'

\* Without automated repairs.  (An erase that goes on after /repaired stops
\* what was leased meanwhile.)
StopsOnlyFree == [][StopsFree]_vars

\* leases.json always names every lease with its present owner, so that a
\* daemon killed at any point rehydrates each of them (daemon.js:617-621).
SavedCoversTable ==
  \A d \in Device : Leased(d) =>
    /\ saved[d] # NoLease
    /\ saved[d].dev = d
    /\ saved[d].owner = At(d).owner

\* Every lease of a dead agent is reclaimed, also one that was booting when
\* the agent died or that a change put back afterwards (daemon.js:470-497).
DeadOwnersReclaimed == Service!Reclaim

\* Every /request, /change and /broken call is answered: no handler waits for
\* ever for the lock, and none leaves it locked (daemon.js:50-57).
CallsAnswered == \A c \in Call : (call[c] # Idle) ~> (call[c] = Idle)

=============================================================================
