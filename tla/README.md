# Verification of Diplomat

This directory is the verification project of the repository: TLA+ modules for its stateful
core, the TLC configurations that check them on small instances, and theorems checked by TLAPS.
Paths below are relative to the repository's root.

Diplomat is a menu-bar applet that watches GitHub and spawns coding agents, plus two services
those agents rely on: a **device allocator** that leases simulators and emulators, one agent per
device, and **SzpontNet**, a mesh of the operator's machines on which work is placed, claimed and,
on untrusted machines, executed under a contract.

## 1. Inventory

| Part | Source | State it keeps | Operations and who calls them | What is hard | Module |
|---|---|---|---|---|---|
| Device allocator daemon | `device-allocator/src/daemon.js`, `devices.js`, `state.js` | `allocations` (key to lease record), the lock's promise chain, `leases.json` | HTTP routes over a unix socket; three timers; subprocesses to simctl, adb and emulator | handlers suspended at awaits for minutes while leases move; shutdowns nobody waits for; crash and restart | `DeviceAllocator` |
| MCP client | `device-allocator/src/mcp.js`, `ipc.js` | its pid, which is the ownership token | tool calls of one agent; release on exit; starts the daemon | exit with a call in flight; agent killed | `DeviceAllocator`, `AllocatorDaemons` |
| Allocator socket, ban list | `daemon.js:647-913`, `state.js` | socket file, `daemon.json`, `banned.json` | probe, listen, unlink, bye; report, unban | daemons starting together; torn list | `AllocatorDaemons` |
| Allocator installer | `install.js`, `linux/diplomat_app/store.py:1140-1280` | `~/.claude.json`, skill, rule, setting | install, uninstall, status, in threads of the applet | a file another program rewrites; the user's choice | `AllocatorSetup` |
| Mesh links and peers | `mesh/node.py:740-1430` | `peers`, writers, verified fingerprints, nonces | beacons, dial, hello/auth, heartbeats, gossip | replaced links, restarts, key pinning, reaping | `PeerLinks` |
| Beacon sockets | `mesh/node.py:516-739` | two sockets, the diagnosis | the beacon loop | verdicts that sockets keep | `Beacons` |
| Work claims | `mesh/node.py:1523-1768`, `2065-2210` | `_claims`, `_claim_seq`, `_released_at`, `_agents` | claim, release, gossip, yield, agent watcher | simultaneous claims, lost and reordered gossip, restart with a detached agent | `WorkClaims` |
| Foreign execution | `mesh/node.py:1789-2060`, `2228-2800` | `_awaiting_result`, `_acted_results`, `_pending_results`, `_confined_running` | dispatch, result, ack, reminder, progress, extension, ban | lost acks, late results, races of pleas, promotions and bans | `ForeignJobs` |
| Duty assignment | `mesh/assign.py`, `node.py:1789-1900` | none: a function of the table of peers | the panel, a dispatch | every node must compute the same | `Placement` |
| Overrides | `mesh/config.py`, `protocol.py`, `node.py:1440-1493` | a last-writer-wins document | edits from any node, gossip | concurrent edits, convergence | `Overrides` |
| Operator state, control socket | `node.py:2820-3062`, `trust.py`, `banned.py`, `ctl.py`, `statefile.py` | allowlist, ban list, level, token state, snapshot | panel commands | two files a command, failed writes, awaited probes | `NodeState` |
| Token budget and statistics | `mesh/usage.py`, `stats.py` | probe cache, ledger | snapshot loop, bookings, the operator's edit | overlapping probes, windows in memory and on disk | `Quota` |
| Single instances, self-update | `singleton.py`, `mesh/singleton.py`, `singlelock.py`, `selfupdate.py` | pid file, lock file, snapshot, checkout | starts, quits, updates, 6AM job | mutual kills, stale and reused pids, relaunch | `SingleInstance` |
| Autofix monitor | `linux/diplomat_app/autofix.py`, `store.py:511-960` | fingerprints, attempts, in-flight list | the poll, the panel's buttons | repeated dispatch, back-off, lost bookkeeping | `AutofixMonitor` |
| API-error watch | `store.py:1009-1105`, `apiwatch.py`, `tmuxwatch.py` | last tail seen, back-off | timer | transient against real stalls | `ApiWatch` |
| Mesh screen of the applet | `store.py:1245-1432`, `meshview.py`, `meshspawn.py`, `panel.py`, `settingsview.py` | `mesh_state`, `mesh_error`, what is drawn | timer, toggle, edits, dispatches, each with a thread; reads `state.json` | reads stored out of order, queued signals, a node that ends silently | `MeshPanel` |
| Other views, wizards, prompts, configuration | the rest of `linux/diplomat_app/` | settings | the user | text and layout | |
| macOS front-end, Swift core | `Sources/` | twin of the above | | kept in step by the repository's parity tests | |
| Conformance tester, simulators | `tools/szpontnet-tester`, `linux/tools` | | tests | | |

How they interact: an agent's MCP client calls the daemon over the socket, the daemon calls the
device tools, and a restarted daemon knows only `leases.json`. The applet's monitor dispatches
through the local mesh node when there is one; the node dispatches to peers over its links, the
executor claims the work for its agent's lifetime, and an untrusted executor returns an artifact
that the originator acts on. The applet starts and stops the node and runs the installer.

What makes each correct:

* allocator: a device is leased to one agent at a time; an answered lease is kept until given up;
  no shutdown reaches somebody else's device; the quota admits; quarantine lasts until a repair,
  its TTL or a kill; dead owners lose their leases; a restart loses nothing; every call is answered;
* its processes and installer: daemons settle on one, bans are kept, Claude Code's configuration is
  not started over for being half written, an uninstallation stands;
* claims: a stale incarnation never suppresses work, a released key is free, nobody yields to nobody;
* foreign execution: a result is acted on at most once and never after the job was given up, a
  delivered or honestly late executor is not banned, promises and deliveries end;
* the mesh screen ends up as the node is;
* links: trust is never inherited from another link or key, and links heal; overrides: linked nodes
  agree; placement: all nodes compute the same, and work lands where they say;
* node: the operator's word holds, peers know the budget, a blocked node says why, figures are
  fresh, the ledger counts each job once;
* applet: one tray, nobody else's process signalled, an update hands over; one agent per pull
  request, a failed one retried with back-off; a nudge only to a confirmed stall.

## 2. Plan

Done: `LeaseService`, `DeviceAllocator`; `WorkClaims`; `ForeignJobs`; `PeerLinks`; `Placement`,
`Overrides`; `AutofixMonitor`; `SingleInstance`; `AllocatorDaemons`, `AllocatorSetup`; `NodeState`,
`Beacons`; `Quota`, `ApiWatch`; `MeshPanel`; and the proofs about twelve of them (section 12).

Left: of the safety properties the runs check, those of section 12 that the prover cannot reach;
and, of the code, what section 13 lists.

Where components do not share state in the code, their instances share a run side by side: most MC
modules choose a `part` in the initial state, so that each part is checked with its own constants. The run
`allocator_live` is one of these (`MCProgress`): leases in one part, the mesh screen in two.
Three modules put such components together once, for TLC and for the proofs: `AllocatorProcesses`
(`AllocatorDaemons` and `AllocatorSetup`), `Machine` (`SingleInstance`, `ApiWatch` and `Quota`) and
`MeshPolicy` (`Overrides`, `NodeState` and `Beacons`). They declare the variables of each and name the
properties; the MC modules extend them. `MeshPolicy` has `NodeState` twice over the same variables, as
`Trust` with the operator's commands about devices and as `Budget` with those about tokens: a
behaviour is one of the two.

## 3. The device allocator

`LeaseService.tla` is the abstract service: `holder` maps each device to "free", an agent or
quarantine, and a device changes hands only by way of "free". `DeviceAllocator.tla` is the daemon.

Correspondence: `table` and `lease` are the `allocations` Map and the record objects. JavaScript
handlers keep references to records that have left the Map, so records have names (`Id`, a device
and a slot) and the code's identity checks `allocations.get(key) === alloc` are `Held`. `saved` is
`leases.json` as the next daemon will read it. `call` is the continuation of each `/request`,
`/change` or `/broken` handler, `lock` the holder of `withLock` across an await. `sweep` and
`erasing` are the suspended idle sweep and automated repairs. `power` and `stops` are the devices
and the shutdown subprocesses under way. `told` is a history variable: what each agent was answered.

| Code | Actions |
|---|---|
| `handleRequest` | `RequestArrives`, `ClaimArrives`, `Gate`, `Enumerate`, `Choose`, `Boot`, `BootAnswers` (`ReleasedMidBoot`, `BootFailed`, `Granted`), `DropFailed` |
| `handleChange` | `ChangeArrives`, `FreeOld`, then the same, then `RestoreOld` or the stop in `Granted` |
| `handleBroken` | `BrokenArrives`, then the same |
| `handleRelease`, `cleanup` in mcp.js | `Release`, `Exit` |
| `handleKill`, `handleRepaired` | `Kill`, `Repaired` |
| `reapDeadOwners`, also in `/await` | `Reap` and the first part of `Gate` |
| `idleSweep`, `refreshPool` | `SweepBegin`, `SweepJudge`, `PoolRefresh` |
| `dispatchRepair`, `automatedRepair`, `wipeAndroid` | in `BrokenArrives`, then `WipeBoots`, `EraseAnswers` |
| `rehydrateLeases`, `shutdownBootedSync` | `Restart` |

Abstracted: clocks (an expiry may have happened or not), the order of the pool, screen hashes,
versions and names (a requirement is the set of devices that match it), the public snapshot. The
module's inputs are bounded by `Traffic`, the kinds of calls and events besides `/request`, so
that each run can afford the interleavings it is about.

### Runs

All instances have two agents and two calls in flight: one call can interleave with itself only
through timers and one-step handlers, and the races the code guards against are between two. The
devices are two of a simulator (address always known), an emulator (address unknown until visible)
and an unmanaged box, or one of them where the question does not depend on it. `Slot` bounds how
many records of one device are referenced at once: the table, two calls with two references each,
the sweep and the repairs. Where several erases of one emulator are unanswered at once they may use
up its three names, and the next lease then waits for one of them.

| Run | Asks | Shows |
|---|---|---|
| `allocator_lease`, part `leases` | `ToldIsHeld`, `SavedCoversTable`, refinement of `LeaseService` | requests, claims by name, releases, exits and deaths, with the daemon killed and restarted at any point |
| part `repairs` | the same and `QuarantineHolds` | broken reports of an emulator under automated repair, and `/repaired` |
| part `sweeps` | the same and `QuarantineHolds` | the same with the idle sweep, and one record of the emulator fewer in flight |
| `allocator_pool`, part `change` | `AdmitUnderQuota`, `StopsOnlyFree` | two agents change devices, claim by name and exit under a quota of one, with kills and SIGTERM; an emulator started by the user and a Vega box |
| its parts `daemons`, `setup` | | see section 5 |
| `allocator_live`, part `leases` | `DeadOwnersReclaimed`, `CallsAnswered` | liveness under the fairness below, with changes, broken reports and deaths |
| its parts `edits`, `ends` | `ViewCatchesUp` | the mesh screen, see section 10 |

`StopsOnlyFree` is not asked of `repairs` and `sweeps`: an automated erase that goes on after `/repaired` stops a
device that was leased meanwhile. Two more things the code does, neither of which a document denies:
`/broken` on a lease that still boots leaves the boot running (`daemon.js:244`), and a shutdown
that nobody waits for can land after the next lease of the device (`:268`).

`Sequential` says that an agent has one tool call in flight, as its session does. Deadlock is not
checked where all agents may have exited or where nothing but bounded traffic is left.

Fairness. `withLock` is a FIFO promise chain whose tail is replaced whether or not the function
throws, so a call that waits for the lock gets it although others take it in between: strong
fairness of `TakesLock`. The device tools run with timeouts: weak fairness of `Resumes`. The
reaper is a `setInterval`: weak fairness of `Reaps`. No client is assumed to call, die or exit.

### Proofs

`DeviceAllocatorProofs.tla` proves, for any devices, agents, calls, slots and quota, from the
assumptions named in the module only:

* `TypeCorrect`: `Spec => []TypeOK`;
* `SavedCovers`: `Spec => []SavedCoversTable`;
* `Implements`: `Spec => ImplementsLeaseService`.
* `QuotaKept`: `Spec => AdmitUnderQuota`;
* `ToldKept`: `Orderly => (Spec => []ToldIsHeld)`;
* `OnlyFreeAreStopped`: `AutoRepair = FALSE => (Spec => StopsOnlyFree)`;
* `QuarantineStays`: `Orderly => (Spec => [][QuarantineKept]_vars)`.

None is inductive alone. The invariant is `IInv`: the types; `Records` (a table entry is a record
of its own device, a saved one too); `RefsLive` (a record a suspended handler refers to has not
been collected, which is what `Keep` must maintain); `CallShape` (which references a continuation
holds at each await); `LockHeld` (whoever is between the gate and the reservation holds the lock,
and the unmanaged device it claims, whose only check was before the await, is still free); and
`SavedCoversTable`. The refinement needs `LockHeld` for `Choose`, and the saved table for
`Restart`. TLC checked `IInv` as an invariant before it was proved.

`QuotaKept` adds `RoomLeft`: while a call of the lock's holder is between the gate and the
reservation the table has room for it, as every other action only shrinks the set of active leases,
or needs the lock.

`ToldKept` adds `ToldInv`: the dead were told nothing (`Mourned`); what is quarantined has no owner,
in memory, under an erase or on disk (`Ownerless`); an agent has one call (`OneCall`); a lease that
boots is its call's and nobody was told of it (`Booting`); a change gives up a lease of its own whose
address is known (`Changing`); and where devices may be changed only a lease that boots has no
address (`Addressed`). The hypothesis
`Orderly` is one call in flight per agent, and traffic without changes or without the end of the
daemon. It cannot be dropped, as TLC shows. Two calls of one agent: the release of one frees what
the other is being given. A change after a restart: an emulator lease that the old daemon was still
booting comes back without an address, a `/change` of it frees by that missing address, and
`handleRelease` without one frees everything the agent holds (`daemon.js:282`). That is why
`allocator_lease` restarts the daemon and `allocator_pool` has the changes.

`OnlyFreeAreStopped` is a step property of `IInv`: what a release, a kill or the reaper stops is freed
by the same step; a boot that answers stops its own device if its lease is the one in the table and
failed, or if nobody has the device by then; a change looks again at its old one. Its hypothesis is
that repairs are not automated: an erase that goes on after `/repaired` stops a device that may be
leased by then, which is the code's behaviour and not a claim of its comments.

`QuarantineStays` adds `Unowned`, the converse of `Ownerless`: what has no owner, in memory or on
disk, is quarantined. With both, `SavedCoversTable` tells a restart that the file has the quarantine
too, and `StepOwner` (the lemma of the refinement) that a device that stays in the table stays
without an owner; what is left is that the calls and the sweep leave it in the table. It is
`QuarantineKept` for every orderly traffic; `allocator_lease` checks it in its parts `repairs` and
`sweeps`.

Only model-checked: liveness, which is out of the prover's reach.

## 4. The work claims

When several machines notice the same pull request, one of them is to run an agent for it. A node
announces a claim on the work key by gossip; every node keeps the freshest record of each claimant
in its claim book, and a higher node that hears a lower one's claim withdraws its own.

`WorkClaims.tla` models the nodes as the asyncio loops they are: what lies between two awaits is one
action. `claims`, `claimSeq`, `releasedAt` and `agents` are `_claims`, `_claim_seq`, `_released_at`
and `_agents`; `peers` is what a node knows of another (linked, proved, last epoch heard of); `net`
the messages written to a link and not read yet. `procs` and `sentinels` are outside the node's
memory and survive it: the detached agent processes, and the completion files they leave. `route`
is the local state of a `dispatch` that awaits an answer.

| Code | Actions |
|---|---|
| `_dial`, `_learn_node`, `_verify_auth` | `Connect`, `OnHello`, `OnAuth`, `Hear` |
| `_run_link` ending, `_heartbeat_loop` | `Eof`, `LinkLost`, `ReapPeer` |
| `claim`, `_emit_claim` | `ClaimVerb`, `EmitClaim` with `Announce` inside every action that claims |
| `_on_work_claim`, `_store_claim`, `_maybe_yield` | `OnWorkClaim` |
| `_claim_holder`, `_claim_authoritative` | `Owners`, `ClaimAuthoritative` |
| `_reap_released_claims` | `ReapReleased` |
| `dispatch`, `_dispatch_to` | `Dispatch`, `DispatchTo`, `FailOver`, `AckTimeout`, `OnJobStatus` |
| `_take_job`, `_spawn_local`, `_pr_agent_running` | `OnJob`, `Spawn`, `Handled` |
| `_watch_agent`, `release` | `WatchEnds` |
| the shell command of an agent | `AgentExits` |
| `__init__`, `_sweep_stale_sentinels` | `Restart` |

Abstracted. Clocks: an expiry may have happened or not, with two exceptions that the periods
justify. A tombstone is reaped three peer timeouts after it was made, so `ReapReleased` waits until
no copy of the node's claims is on a wire and its 0.1 s watcher is done; and a silent link is a
dropped one. The candidates of a dispatch come in any order and a placement has one slot; a node has
one dispatch awaiting an answer. The process scan finds agents by key (the code matches the pull
request the key names), fails open, and its answer is a choice from `Scans`. A spawn that fails is a
refusal. Every node has a key; changes of key, claims of confined foreign jobs and adverts other
than their epoch are left out.

### Runs

| Run | Asks | Shows |
|---|---|---|
| `claims_race`, part `race` | `NobodyYieldsToNobody`, `CopiesAgree`, `OneAgentPerHost`, `SentinelIsOwn` | two nodes, one key: links up and down, late answers, refusals |
| part `restarts` | the same | links that go with a restart, late answers, refusals, a restart under a running agent |
| part `pair` | `HolderBacked` | two nodes whose agents are killed and overrun, explicit targets, a restart |
| part `trio` | `HolderBacked` | three nodes, two callers of the `claim` verb, claim books that hold one peer record, a restart that the others hear of directly or from each other |
| `machine`, part `pair` | `PairSuppressionEnds` | the same two nodes; fairness below |

Bounds. Two nodes make every pairwise race between a claim, its yield and a dispatch; a third one
is needed for relays, for hearing of a restart through somebody else and for a claim book with more
claimants than `Cap`. One key, because keys meet only in the cap. `MaxJobs` and `MaxSpawns` bound
the dispatches that reach the wire and the agents, `MaxEpoch` the restarts (one in all), `MaxSeq`
and `Callers` the `claim` verb, `Traffic` the kinds of events: one restart and two agents for a key
already give a stale claim, a stale agent and a stale sentinel. Deadlock is not checked: the bounds
end every story.

`HolderBacked` is `HolderIsBacked` of the parts `pair` and `trio`. Where it does not hold: a release
is broadcast once and not sent again on a new link (`node.py:1567`), so a peer that was disconnected
then keeps an active record, authoritative again once the link is back. These parts lose a link only
by a restart, which raises the epoch and so voids every claim of the former incarnation. In the same
way two owners of a key can stand: a node yields only when it adopts a claim (`node.py:2076`), and
an executor that adopted a lower node's claim before it takes a job for the same key spawns, claims,
and neither ever yields. Yielding calls `on_claim_lost`, which nothing in the repository sets: the
agent runs on, as in `OnWorkClaim` and `WatchEnds`. And where `docs/szpontnet/12-work-claims.md:331`
says that a key passed with an explicit target is ignored, the code passes it on and the executor
claims it, as in `DispatchTo`.

Fairness. `Deliver` and `Eof`: the read loop of a link runs as long as the link does. `WatchEnds`:
the watcher polls every 0.1 s and gives up at `_agent_max_secs` even if the agent has left no
completion file. Agents are not assumed to end, nobody to dispatch, no link to come back. Part
`pair` has finitely many claims, as each has its agent and its watcher; the `claim` verb, whose
caller must release, is not part of it.

### Proofs

`WorkClaimsProofs.tla` proves, for any nodes, keys, trust relation, cap and traffic:

* `TypeCorrect`: `Spec => []TypeOK`;
* `WatchedClaimed`: `Spec => []WatchedIsClaimed`. Inductive with the types: one's own record is
  never refused for the cap, and whoever removes it has ended the watcher first;
* `OneAgent`: `Spec => [](Scans = {TRUE} => OneAgentPerHost)`. The hypothesis is needed: the scan
  fails open, and after a restart it is all that knows of the agents of the former incarnation;
* `OwnSentinel`: `Spec => []SentinelIsOwn`, whatever the scan says. By `Names`: a watcher watches an
  agent of its own host and key, only the dead have left a sentinel, no two agents share a name, and
  the names are bounded by the present incarnation and sequence number (`NamesBounded`), so that
  the next one is new. `NamesBounded` rests on `WatchedIsClaimed`: when a watcher
  ends there is a claim to release, and the release takes a number past the agent's name;
* `CopiesAlike`: `Spec => []CopiesAgree`. By `Ordered` (no copy of a claim, in a book or on a wire,
  is past its claimant's epoch and sequence number) and `Agree`;
* `NoOneYieldsToNobody`: `Callers = {} => (Spec => NobodyYieldsToNobody)`. By `ClaimsSound`: every
  active copy of a claim, in a book or on a wire, stands for an agent its node has started, and a
  book files a record under its own key and claimant. The hypothesis is that nobody calls the
  `claim` verb, which claims for a caller and starts no agent: yielding to such a claim is intended.

* `HolderBackedByWord`: `LinksLast => (Spec => []HolderIsBacked)`, for any number of nodes whose
  links are lost by restarts only (`Traffic` without `drop`) and, if they are made again, are between
  two nodes only. Both are needed. A release is not sent again over a new link; and a third node may
  relay a claim and restart before it relays the release, so that a link made later between the other
  two gives authority to a record that nobody will correct.
  `HolderIsBacked` speaks of one wire and one book, but what is on a wire depends on what was sent,
  adopted and relayed before, so `HInv` says: no hello lies behind another message (`Hellos`), nobody
  has heard of an incarnation still to come (`HeardOf`), a node that reaches another one knows its
  incarnation or is about to read it (`Fresh`), the last record that a node has made is active only
  while its own claim is (`LastHeld`), and, for every two nodes and key, the last record of the one is
  on its way to the other, or was kept there, or found the claim book full, or this incarnation has
  told nobody anything of the key yet, or the link is gone for good (`Synced`). Most steps neither
  add nor take a record nor move a link, or only make a record and broadcast it (`Routine`); the rest
  are hellos, proofs, adopted claims with their relays and yields, and restarts.

`MCWorkClaimsProofs.tla` takes this to the run: `HolderBackedInParts`, `MCSpec => []HolderBacked`, for
any two nodes, keys, trust and bounds. `Pair` and `Trio` are instances of `WorkClaimsProofs`, and what
is shown is that their constants meet its assumptions and `LinksLast`.

Only model-checked: liveness.

## 5. The processes and the installation of the allocator

`AllocatorDaemons.tla`: daemons that probe, bind, unlink and leave the socket, MCP servers that
start them, reports and the ban list. `daemon` is how far each process is, `socket` and `discovery`
the two files, `client` and `report` the MCP servers and what they reported, `panel` an un-ban,
`banned`, `aside` and `lifted` the list, the copies of torn lists and what the panel un-banned. A
change of the list is a read and a write: the lock keeps the changes of one daemon apart, not those
of two. History: `split` (a daemon bound the socket while another served) and `unread` (a list was
taken for empty without a copy).

| Code | Actions |
|---|---|
| `start`, `socketHealthy`, `onListening`, the `EADDRINUSE` handler | `Takes` (`Probe`, `Listen`, `Taken`, `Unlink`, `Again`) |
| the signal handlers with `shutdownBootedSync`, a crash | `Leave`, `Bye`, `Crash` |
| `ensureDaemon` and the tool call in mcp.js | `Calls`, `SpawnDaemon`, `Polls`, `Sends`, `Answered`, `CallFails` |
| `handleReportInjection`, `scheduleAgentTermination` | `Evidence`, `ReadsBans`, `Ban`, `Killed` |
| `handleUnban` | `UnbanReads`, `UnbanWrites` |
| `readBanned`: the list, a torn file (`Tear`) moved aside, a file that cannot be read | `ReadBanned` in these |

`AllocatorSetup.tla`: the installer's steps in a process of its own, the applet's threads that start
it, and Claude Code, which reads and rewrites the same `~/.claude.json`. The actions are the
threads' `Begin`, `Check`, `EnsureDeps`, `Fails`, the installer's steps in their order
(`MigrateReads`, `Migrate`, `Strip`, `RegisterReads`, `Register`, `InstallSkillAndRule`, `InjectClaudeMd`,
and `UnregisterReads`, `Unregister`, `StopDaemon`, `Remove` the other way, `Status` at the end),
`Restart`, `AgentStarts`, and `CodeReads`, `CodeWrites`, `CodeFlushes`, `CodeWritten`. Claude Code's
rewrite in place leaves the file empty, then half written, then whole; `registerMcp` gives up on half
a file but takes an empty one for `{}` (`install.js:159`).

| Run | Asks | Shows |
|---|---|---|
| `allocator_pool`, part `daemons` | `SoleDaemon`, `BansKept` | two daemons, two MCP servers, two authors, crashes, leaving, an un-ban, and one of a slow call, a torn list, a list that cannot be read |
| part `setup` | `ConfigKept`, `ChoiceStands` | two installer threads, one rewrite by Claude Code, one failure, two starts of the applet |
| `DS_split` | `NoSplitBrain`, violated | three daemons over the socket file of a crashed one |
| `DS_bans` | `NoBanWiped`, violated | one daemon, two reports, one read of the list that fails |

Two of each are what races here; a third daemon is needed for the finding, in the role of the one
that crashed. `SoleDaemon` holds while no daemon has ended otherwise than by deferring; once one
has, its stale file is the finding's beginning. `BansKept` excepts what the two findings show to lose
bans: two daemons that serve, whose reads and writes of the list interleave, and a read that fails,
after which the next ban is the whole list (`daemon.js:720`; where the file holds no list of bans,
`:723` does the same). `ConfigKept` excepts the file that an installer finds empty, which the run
reaches: the comment at `install.js:161-162` wants the settings never overwritten by a near-empty
object, but speaks of a parse failure, and an empty file is none. The copy `.bak-da` is overwritten
by the next installer that finds a file. Seen while modelling, and denied by no document: a
client that times out leaves its agent running though the ban is recorded; a bye that blocks for
more than 3 s unlinks a successor's socket; a failed `ensureDeps` is not noticed and not retried; an
installation under way undoes an uninstallation that overlaps it; Claude Code's stale rewrite can
bring a registration back (which `ChoiceStands` excepts).

`DeviceAllocatorProofs.tla` also proves, for any daemons, clients and a nonempty set of authors:

* `DaemonsSettle`: `Spec => []SoleDaemon`. By `SocketInv`: as long as no daemon has left, the path
  names a daemon that serves, whoever serves is the one it names, and nobody takes it for stale;
* `BansLast`: `Spec => []BansKept`. By `BanInv`: a report that is done waits to be read and its author
  is listed, aside or lifted (`Reported`); without a split one daemon serves, one change at a time is
  between its read and its write of the list there (`Writers`), and what it has read is all that is
  listed (`Current`).

and for any number of threads, of starts of the applet, of rewrites and of failures:

* `SettingsSurvive`: `S!Spec => []ConfigKept`;
* `UninstallStands`: `S!Spec => []ChoiceStands`.

Both by `SetupInv`: the file and every copy of it in memory have the settings, unless an installer
found it empty (`Keeps`); a job that counts as alone has no other beside it (`Alone`); such an
uninstallation, at its status check, has removed everything (`Gone`); and a choice that has settled
stands, with the setup recorded as done and no installation about (`Stands`). `ChoiceStands` alone is
not inductive: it is the record of the setup that keeps the next start of the applet from installing.

## 6. Foreign execution

`ForeignJobs.tla` is one originator and its executors. `route`, `awaiting`, `pleas`, `acted`,
`trusted`, `banned`, `link` are the originator's; `running`, `agents`, `outbox` the executors';
`toE` and `toO` the wires; `handled`, `settled`, `silenced` are history.

| Code | Actions |
|---|---|
| `dispatch`, `_dispatch_to` | `Ask`, `OnStatus`, `Resume`, `AckTimeout`, `NoneLeft` |
| `_on_job_result`, `_on_job_progress` | `OnResult`, `OnProgress` |
| `_check_foreign_deadlines`, `_send_reminder`, `_decide_extension`, `_ban_executor` | `CheckDeadline` (`Disarm`, `Remind`, `BanSilent`), `Decide` |
| `_reap_foreign` | `ReapAwaiting`, `ReapActed` |
| `add_trusted`, `ban_device` and their opposites | `Operator` |
| `_take_job`, `_run_confined`, `_await_confined_result`, `_emit_result` | `TakeJob`, `HostDone`, `Compute` |
| `_retry_pending_results`, `_on_job_ack`, `_on_job_reminder` | `Resend`, `GiveUp`, `ExpireTomb`, `OnAck`, `OnReminder` |
| links, restarts | `Drop`, `ReapPeer`, `Connect`, `Prove`, `Grow`, the crashes |

`_check_foreign_deadlines` bans when the grace is over, whatever the link. `Quiet` says what clocks
add to that: the grace (900 s) is long against the re-asks (5 s), so a link that has lasted one of
these and a round trip (`grown`) has carried a reminder and its answer. A younger link need not have:
an executor that comes back in the last seconds of its grace is banned, although it still computes
or has the result. `HonestSpared` is about links that have grown; nor does it speak for a tombstone
that was dropped for the table of them was full.

| Run | Asks | Shows |
|---|---|---|
| `FJ_safe` | `ActsAtMostOnce`, `ClosedIsClosed`, `HonestSpared` | two dispatches of one key to one executor to which the originator is foreign: lost links, crashes of both sides, timeouts, one extension, one tombstone, the operator's edits; part `expiry`, one dispatch where tombstones and what was acted on are forgotten; part `owner`, an executor that runs the jobs on its host |
| `machine`, part `foreign` | `ForeignExchangesEnd`, that is `PromisesEnd` and `DeliveriesEnd` | one dispatch to a foreign executor, with lost links, crashes, timeouts, reaping, expiry and the operator's edits |
| `FJ_v_once` | `ActOnce`, violated | one dispatch over two foreign executors |

Two dispatches of one key meet in an executor's `agents` and in the outbox; two jobs are enough to
push one tombstone out. Two links an executor let a message be lost with one and come over the
next. Fairness: the read loops, the timers of both sides, the computation's own timeout, the resend
loop and the time a result is kept. No answer is assumed to arrive, and no link to be made again.

`FJ_v_once`: the status is lost with a link, the result comes over the next one and is acted on, and
the 8 s timeout still reports a failed hand-off, so that the work runs again elsewhere. The comment
at `node.py:1925` takes forgetting the dispatch to be what makes it act-once.

`ForeignJobsProofs.tla` proves, for any executors, jobs and keys:

* `ForeignTypes`: `Spec => []TypeOK`;
* `ForeignActsAtMostOnce`: `Spec => []ActsAtMostOnce`, and `ForeignClosedIsClosed`: `Spec =>
  ClosedIsClosed`. By `Closed`: a job is promised or closed only once it was put to its executor;
  closed it is promised no more, and a result was acted on once, which closed it. It rests on
  `Routed`, that a dispatch does not ask an executor twice. What a step may do to one job is stated
  once, in `Orderly`, and proved action by action;
* `ForeignHonestSpared`: `Spec => HonestSpared`. By `Heard`: a job is offered once and nothing but the
  offer exists until it is read; over a link that has grown, of a promise that is due something is
  under way to its maker or from it, as long as the maker has something to say. `Conduct` is what a
  step may do to these.

`ForeignExchangesEnd` is liveness, and `ActOnce` is the finding.

## 7. Links

`PeerLinks.tla`: connections with two ends that close one after the other. `stage` and `wire` are a
connection's ends and what is on its way to each, `dialing`, `peers` and `cache` are `_dialing`,
`peers` (with the writer, the pinned and the verified key) and the addresses on disk.

| Code | Actions |
|---|---|
| `_on_beacon`, `_redial_loop`, `_dial` | `BeaconDial`, `BeaconRestarted`, `Redial` |
| `_run_link`, `_learn_node`, `_verify_auth` | `OnHello`, `OnNode`, `OnAuth`, `HelloTimeout` |
| a link's end, `_heartbeat_loop`, `_reapable`, `_drop_peer` | `Eof`, `Fault`, `Silent`, `Reap` |
| gossip of adverts | `Gossip` |
| a restart, with the same key or a new one | `Restart` |

`PL_links` asks `PersonalHoldsKey` and `RoomyLinksHeal` of three nodes, of which two hear of each
other only through the third, which restarts once and may lose its key; two connection numbers, one
message a wire. Part `faults` has one connection error, part `reaping` the reaping of silent peers,
which forgets all but their address. Part `cramped` has both, and tables with room for one peer,
where a hello is refused and its link never bound; links need not heal there, as somebody is always
left out. In part `strangers` the third node has a secret of its own, and every hello of it is refused.
Fairness: message handling, end of file, the hello's timeout, the redial loop and the heartbeat.
Beacons are not assumed: addresses remembered on disk are enough to heal.

`PeerLinksProofs.tla` proves, for any nodes, keys, secrets, tables and traffic, `LinksTypes`
(`Spec => []TypeOK`) and `PersonalPeersHoldKeys` (`Spec => []PersonalHoldsKey`). The invariant adds
to the types that a connection has two ends and carries nothing to a closed one (`Tidy`), that what
is on its way was said by the other end, with its present key if that end is open (`Signed`), that a
peer is bound to an open end of a connection with that peer (`Bound`), and that it has no proof of
the peer or that of the key the peer holds while its end is open (`Proven`). `Signed` is what makes
`Proven` inductive: a proof names its connection, so that a new one never takes over an old proof.
`RoomyLinksHeal` is liveness.

## 8. What nodes decide and keep

`Placement.tla` translates the ranking (`SortKey`, `Ranked`, `Picked`, `Assigned`) as pure operators
and the walk of a dispatch through it (`Dispatch`, `Accept`, `PassOver`, `GiveUpSlot`) while nodes
die, return, run out of tokens or are banned. `DispatchedAsShown` compares the outcome with the
assignment that each node displayed, computed from its own order of the table. `Overrides.tla`:
`ov` is `overrides` of each node, `pins` the keys it knows; `Edit`, `Merge`, `Link`, `Unlink`,
`Forget`, `HearOf`, `Restart`. `LinkedAgree` excepts what the code excepts: an edit that was refused,
as its editor's key was unknown, and one on its way.

`NodeState.tla`: `mem` and `disk` are the operator's state in memory and in its files, `shown` the
snapshot, `held` what the peer was told, `expect` what the operator was told. Its actions are
`Boot`, `Crash`, `Snapshot`, `LinkUp`, `LinkDown`, the two halves of a probe and of a promotion or
ban (`Begins`, `Finishes`), `Untrust`, `Unban`, `SetDefault`, `Baseline`, `SetTokens`. `Beacons.tla`:
`Tick` is one pass of the beacon loop, `Changes` the permission and the network.

`MeshPolicyProofs.tla` proves, for any nodes, duties and numbers of edits, `OverridesTypes`
(`Spec => []TypeOK`) and `OverridesAgree` (`Spec => []LinkedAgree`). By `Told` (who has read
all that a peer sent, and refused none of it, holds nothing older), `Wired` (the last message on a
wire is what its sender holds), `Newest` (an editor that has not restarted holds nothing older than
its own edits) and `OneEdit` (two edits of one editor with one number are the same). Neither of
two linked nodes then wins over the other, and the order of edits is total. Of `Beacons` and
`NodeState` it proves, for any devices, commands, crashes and faults:

* `BeaconsSettleSoon`: `B!Spec => []BeaconsSettle`. By `BeaconsInv`: from the first tick after a
  change the node knows whether its socket sends and, if not, why; from the second the socket has
  the verdict of now; and a socket that sends is paired with one that receives, unless a rebuild failed;
* `PeersKnowTheBudget`: `Budget!Spec => []PeersKnowBudget`. By `BudgetInv`: a linked peer that missed no
  probe holds what the node would gossip now, also during probes; and after the probes of the start
  the one of the loop began with the budget there still is, so that what it compares with is
  what peers were told;
* `OperatorsWordHolds`: `Trust!Spec => []OperatorsWord`. By `WordInv`: a file is what memory holds, and
  that of the level the last choice of one, unless its last write failed (`OnDisk`); memory has the
  last word about each device that no command is in the middle of and no crash cut, and a command
  in the middle has changed the allowlist (`Acknowledged`); the snapshot is what memory holds, or is
  waited for (`Shows`).

| Run | Asks | Shows |
|---|---|---|
| `MP_agree`, part `gossip` | `LinkedAgree` | three nodes, two duties, two edits, two links, one node that restarts and forgets |
| part `placement` | `DispatchedAsShown`, `OnlyTheLostMoves` | two linux machines and a mac, four strategies over four spreads, with and without token awareness; two changes |
| part `trust` | `OperatorsWord` | two devices, three commands, two crashes or failed writes |
| part `budget` | `PeersKnowBudget` | four commands, two crashes, probes that overlap with edits and links |
| part `beacons` | `BeaconsSettle` | five changes of permission or network, two failed rebuilds |

Ties need two nodes of a platform, coverage two platforms, a tie-break of edits two editors. What
these runs except, as the code does it: the two probes of a start overlap and the result of the
start is not gossiped (`missed`); a crash between the two files of a promotion leaves a device both
trusted and banned, and of a ban neither (`cut`); a failed write is reported to nobody (`lost`); a
failed rebuild of the receiving socket leaves a node deaf for good (`deaf`); choosing the level
that is in force is not saved, whatever the docstring says.

## 9. The applet and the machine

`AutofixMonitor.tla`: the thread of the poll (`PollStart`, `TakeEdge`, `EdgesDone`, `TakeOwed`,
`Decide`, `PassDone`) and that of a click share the gate of a dispatch (`Enter`, `Verdict`,
`RouteOpen`, `RouteAway`, `RouteHere`, `SpawnTracked`). `fps` and `attempts` are on disk, `tracked`,
`psCache`, `dispatching` in memory. A prune builds a new list (`Pruned`, in `Enter` or `TakeOwed`) that
takes the place of the old one later (`InFlight`, in `Verdict` or `Decide`), so that one thread can drop
what the other has added. It drops what has a completion file (`AgentEnds` writes it) or is too old
(`Ages`); a terminal that is closed (`Killed`) writes none. The listing of the processes (`Listings`) may
fail, and then shows nothing for five seconds. Around them GitHub changes, listings age, the applet
restarts. `lost` is history: live agents that the list does not hold.

`AF_monitor` asks `OnlyYoungMissed`, `BackoffKept` and `OwedIsDispatched` of one pull request of mine
and one of somebody else, two agents, two changes or clicks and one failure: a restart, a poll cut
short, a spawn or a `ps` that fails, or a closed terminal. Fair: the poll (a timer), both threads, the
expiry of the listing, and the lifetime of an entry (strongly, as prunes come in between).
`OnlyYoungMissed` says what the two sources of `_in_flight` are worth together: a dispatch misses an
agent that is younger than the listing, which the code accepts, and, where `ps` has failed, one that
the list does not hold, for the reasons the property's comment names.

`AutofixMonitorProofs.tla` proves, for any pull requests, agents and bounds, `MonitorTypes` (`Spec
=> []TypeOK`), `OnlyTheYoungAreMissed` (`Spec => OnlyYoungMissed`) and `BackoffHolds` (`Spec =>
BackoffKept`). The invariant: a listing that did not fail holds every live agent but the young ones,
and a live agent is on the list or in `lost` (`Fresh`, `Accounted`); for a dispatch that is a back-
off old at most, and whose record was not lost, the records the pass goes by have one as recent
(`Recs`); and a call of the poll that has got past the back-off is for none of these (`Paced`).
`OwedIsDispatched` is liveness.

`MachineProofs.tla` proves, for any processes, `MachineSoleInstance` (`Spec => []SoleInstance`)
and `MachineInnocentsSpared` (`Spec => []InnocentsSpared`). `SoleInstance` is made
inductive by `Hunted`: of any two of a kind one has yet to look who is there, or has the other on its
list. `HandsOver` is liveness. Of `Quota` it proves, for any periods and numbers of jobs:

* `BudgetRealIsFresh`: `Budget!Spec => []RealIsFresh`. By `Recent`: a probe that returns the account's
  figure read it within `Keep`; while the loop is at its probe no time passes since `refreshed`, and
  between probes the figure the node goes by was within `Keep` at the last refresh;
* `BudgetLedgerKept`: `Budget!Spec => []LedgerKept`. By `Accounts`, of the ledger in memory and of the one
  on disk alike: each is one for every job booked since its own start, and the operator's figure if
  that was set then, for the file is behind by the rolls of the window and a restart begins with it.
  `quotaWindowDays` may be 0 or less, and then nothing rolls: only the count is claimed.

Of `ApiWatch` it proves `NudgesAreDue`, `Watch!Spec => NudgeIsDue`, for any panes and longest back-off.
By `PanesInv`: a pane that the scan has yet to judge is remembered with the error of the scan before, or
with none (`Remembered`), and its interval is what its nudges call for, of which no more is left than
has not passed since the last of them (`Waits`). The provers know nothing of powers of two: that
`2^(n + 1)` is twice `2^n` is taken from the number of subsets (`PowerDoubles`), and `m < 2^m` from the
least number for which it would not hold (`PowerGrows`).

`SingleInstance.tla`: trays, nodes and others' processes with reused pids. `Runs` is a start (lock,
listing, signals, wait, record), `Deliver` a SIGTERM that takes effect, then `StartTray`,
`StartNode`, `StopMesh`, `Quit`, `Crash`, `Recycle`, and `Updates` from the panel or the 6AM job, each
of which can fail at the pull, the build or the relaunch (`UpdateFails`, `JobFails`, `JobRelaunchFails`).
`heirs` are the trays that were launched to replace another. `HandsOver` says that the tray which is
replaced goes, unless its heir is killed before it has asked it to: nothing in the code then relaunches,
and a tray whose own update it was stays at "Restarting".
`ApiWatch.tla`: `ScanBegins`, `Passes`, `Nudges`, `ScanEnds` are one timer tick, `Prints`, `Toggle`
and `Elapse` what happens around it. `Quota.tla`: `Checks`, `Fetches`, `Keeps`, `Adopts` are one
probe in a worker thread, `Loop` the pass of the snapshot loop, `Books`, `Sets`, `Restart` the ledger.

| Run | Asks | Shows |
|---|---|---|
| `machine`, parts `tray`, `node` | `SoleInstance`, `InnocentsSpared`, `HandsOver` | three processes, two starts or updates by the user, crashes, quits, pid reuse, updates |
| part `panes` | `NudgeIsDue` | one pane; the back-off doubles to its maximum |
| part `figures` | `RealIsFresh` | two probers over one cache, figures that fail to be read |
| part `ledger` | `LedgerKept` | two jobs, an edit and restarts around the end of a window |

Times are small numbers in the order of the shipped periods, far enough (`MaxTime` 5) for a figure
to expire after two failed reads and for a window to roll twice. Three processes are two rivals and
an innocent. Fair here: a process that runs goes on, and a signal arrives. The code leaves the
following open, and the properties do not ask it: two simultaneous launches may kill each other; the
SIGKILL after the grace does not look at the identity again; a build that fails after the pull is
not retried by the job; the mesh switched off and on quickly may leave no node; a failed capture of
one pane resets its back-off; a nudge whose Enter fails is neither counted nor taken back; a guess
can overwrite the account's figure until the next refresh; the ledger's rolled window is not saved,
and a restart moves its start.

## 10. The mesh screen

`MeshPanel.tla` is the applet's side of the mesh. `node`, `file` and `spawning` are the local node as
far as its process and what it says of itself go, `state.json`, and the processes started as nodes;
`enabled`, `visible`, `state` and `failed` the setting, the open panel, `mesh_state` and whether
`mesh_error` is set; `ui` and `thread` what the UI thread and each thread of the store are about;
`queued` a `mesh_changed` that waits for the UI thread, `drawn` what the screen shows.

| Code | Actions |
|---|---|
| `show_panel`, `hide`, `_mesh_tick` | `Show`, `Hide`, `Tick` |
| `_on_mesh_toggled`, the button of a dead node | `Toggle`, `Start` |
| `_edit_placement`, `_trust_toggle` and unban, `_edit_strength`, `_token_editor` | `EditPlacement`, `EditPeer`, `EditAttr` |
| a wizard's dispatch | `Spawn` |
| `mesh_set_attr` and its like, `stop_mesh_async`: the request | `Request`, `TimesOut` |
| the worker of `ensure_mesh_running_async` | `Launch` |
| `refresh_mesh_state` | `Rereads`, `Compares` on a worker, `Tick` or `Show` and then `UiCompares` on the UI thread |
| `mesh_changed` on the UI thread, `_rebuild` | `Drawing` |
| the node, `_snapshot_loop` | `SpawnLands`, `Writes`, `Stops`, `Crash`, `News` |

A snapshot has what an edit changes (one field of one duty's placement, the standing of one peer)
and one bit for the rest. Whether the mesh is drawn as on or off (`drawn.mode`) is not part of what
`ViewCatchesUp` compares. Read and comparison are two steps, since another thread can store its own
reading in between.

`ViewCatchesUp`, in `allocator_live`: if from some point on the panel is open, the mesh enabled and
the node up, the screen ends up drawn of what the node says of itself. Part `edits` has edits with
timeouts while the node has news, part `ends` has everything else: hiding, the toggle, a crash, a
process that does not start. Two threads, one click, one piece of news, one fault: a stale reading
needs two readers, of which the UI thread may be one, and one change between them. Fairness: a
thread of the store goes on, the event loop of the applet runs, its timer ticks while the panel
is open, a signal that waits is delivered (strongly: the UI thread may be reading in between), a
started process starts, and the node's loop writes its file (which is taken to be writable). Nobody is assumed to click.

### Where the mesh screen falls short

Behaviours of the code seen while modelling it, which no run asks about:

* the screen is drawn again only when the copy of `state.json` changed. An edit that fails leaves the
  file as it was, so the red line of `mesh_error` (comment at `store.py:157`, docstring at `:1340`)
  appears only with the next change; and a node that crashes stays drawn live, as its file stays;
* the editors of a duty are made with the placement of the last drawing and send all of it back, so
  an edit made elsewhere in between is undone, also in the fields the user did not touch
  (`meshview.py:903`, whose docstring says that what the panel does not expose is preserved);
* the mesh switched on and off before the started node has written `state.json`: the stop finds
  nobody, which is taken for "already down" (`store.py:1334`), and the node stays up though disabled.

## 11. Findings

* `FJ_v_once`, section 6: a hand-off reported failed after its result was acted on.
* `DS_split`, section 5: two daemons find one socket file stale; the slower unlinks what the faster
  has bound, and both serve. The comment at `daemon.js:878-879` rules it out.
* `DS_bans`, section 5: a ban list that cannot be read counts as empty, without a copy, and the next
  ban is written over it. The comment at `daemon.js:715-717` says that this never happens.

## 12. What is proved, and what is only checked

TLAPS has proved 38 theorems about thirteen modules, for every value of the constants that satisfies
the named assumptions, which TLC evaluates in the runs. Every inductive invariant was checked by TLC
first, in the instances of the runs.

| Module | Proved | Hypotheses beyond the module's assumptions | Only model-checked |
|---|---|---|---|
| `DeviceAllocator` | `TypeOK`, `SavedCoversTable`, refinement of `LeaseService`, `AdmitUnderQuota`, `ToldIsHeld`, `StopsOnlyFree`, `QuarantineKept` | `Orderly` for `ToldIsHeld` and `QuarantineKept`, no automated repairs for `StopsOnlyFree` (section 3) | liveness |
| `WorkClaims` | `TypeOK`, `WatchedIsClaimed`, `OneAgentPerHost`, `SentinelIsOwn`, `CopiesAgree`, `NobodyYieldsToNobody`, `HolderIsBacked` | the scan works; nobody calls `claim`; links are lost by restarts only (section 4) | liveness |
| `AllocatorDaemons` | `SoleDaemon`, `BansKept` | there is an author | |
| `ForeignJobs` | `TypeOK`, `ActsAtMostOnce`, `ClosedIsClosed`, `HonestSpared` | none | liveness |
| `PeerLinks` | `TypeOK`, `PersonalHoldsKey` | none | liveness |
| `AllocatorSetup` | `ConfigKept`, `ChoiceStands` | none | |
| `Overrides` | `TypeOK`, `LinkedAgree` | none | |
| `NodeState` | `OperatorsWord`, `PeersKnowBudget` | none | |
| `Beacons` | `BeaconsSettle` | none | |
| `AutofixMonitor` | `TypeOK`, `OnlyYoungMissed`, `BackoffKept` | none | liveness |
| `SingleInstance` | `SoleInstance`, `InnocentsSpared` | none | liveness |
| `Quota` | `RealIsFresh`, `LedgerKept` | none | |
| `ApiWatch` | `NudgeIsDue` | none | |
| `Placement`, `MeshPanel` | | | all their properties |

Liveness and what depends on ENABLED is out of the prover's reach and stays with TLC, `ViewCatchesUp` of
`MeshPanel` included. So does what recursive definitions compute for every input: the pools of
`Placement` are made with `SelectSeq`, of which the provers have no definition, and the machines that a
spread takes (`Picked`, `SlotCandidates`) with functions by recursion over its slots, so that what is
true of them for every table (`DispatchedAsShown`, `OnlyTheLostMoves`) is an induction over data.

The proofs share a form. Where a variable is changed by few actions a lemma says which; where an
action is long a lemma states its effect on one device, job or pull request; the invariant's step
then follows from these effects, without the actions' definitions.

Deadlock is checked in `allocator_lease` only: elsewhere bounded traffic runs out.

## 13. Not modelled

Other views, prompts, settings, hardware probes, the allocator's log, the
Swift twins and the test tools: see `components` in `PROJECT.json` for each with its reason. They
show state or build text, or repeat what is modelled. Within the modelled parts: clocks that jump
(every time is an age or an order), the wording of answers and snapshots, `/await`'s polling (its
reaping is `Reap`), API keys and the confinement of a foreign job's process, nodes without keys, the
rolling average of the ledger and how a guess is made from transcripts, git's merge (whole or
nothing), the verdict policy of the monitor, a pid file that cannot be written
(`singleton.py:168-171`) and a lock that fails open (`singlelock.py:57-62,73-77`).
