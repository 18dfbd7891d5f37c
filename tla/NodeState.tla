------------------------------ MODULE NodeState ------------------------------
(***************************************************************************)
(* What a mesh node keeps for its operator and tells its peers of itself   *)
(* (linux/diplomat_app/mesh/node.py, trust.py, banned.py, identity.py):    *)
(* the allowlist and the ban list of devices, the level of unlisted ones,  *)
(* the token state, each in memory and in a file, and the advert.          *)
(*                                                                         *)
(* A control command runs without an await, but writes its files one after *)
(* the other, and the node may end between two; a write may fail, which    *)
(* nobody is told.  Abstracted: a device is its fingerprint; of the        *)
(* attributes the token state; the token budget is how much is left.       *)
(***************************************************************************)
EXTENDS Integers

CONSTANTS
  Device,     \* fingerprints
  Traffic,    \* what may happen (a bound)
  MaxCmds, MaxFaults   \* control commands, crashes and failed writes (bounds)

VARIABLES
  up,
  baseline,   \* DIPLOMAT_MESH_DEFAULT_TRUST now, and when the node was started
  mem, disk,  \* trusted, level, banned, tokens; level "" on disk is unset
  shown,      \* mem in state.json
  cmd,        \* a control command between its two files
  budget,     \* of the last probe: 0 is out, 1 low, 2 ok
  probing,    \* the probes under way: what peers knew when it began, or Idle
  seeding,    \* the probes of the start are not over
  linked,     \* a peer is linked
  held,       \* what it was told
  expect,     \* device -> the standing that was acknowledged
  cut,        \* devices whose standing was left open by a crash or a lost write
  chosen,     \* the level the operator toggled to, or ""
  lost,       \* what the last write of failed
  unshown,    \* changed since state.json was written
  missed,     \* a probe of the start came after what peers were told
  cmds, faults

files == <<mem, disk>>
ghosts == <<expect, cut, chosen, lost, unshown, missed>>
adverts == <<budget, probing, seeding, linked, held>>
vars == <<up, baseline, files, shown, cmd, adverts, ghosts, cmds, faults>>

Probes == {"start", "loop"}
Levels == {"personal", "foreign"}
Idle == <<"idle", 0>>
NoCmd == [op |-> "none", dev |-> CHOOSE d \in Device : TRUE]
Standing(s, d) == [trusted |-> d \in s.trusted, banned |-> d \in s.banned]

StateOf(b) == <<"out", "low", "ok">>[b + 1]
\* banned.py: one entry per device.
WithBan(s, d) == [s EXCEPT !.banned = @ \cup {d}]
WithoutBan(s, d) == [s EXCEPT !.banned = @ \ {d}]

\* identity.apply_attrs
Applied(s, o) == [s EXCEPT !.tokens = o]

\* current_tokens
CurrentTokens(m, b) == IF m.tokens = "auto" THEN StateOf(b) ELSE m.tokens

\* Variant: peers are told of the state only.
GossipedState(m, b) == <<CurrentTokens(m, b), 0>>

\* _gossiped_tokens
Gossiped(m, b) == <<CurrentTokens(m, b), b>>

Init ==
  /\ up = FALSE /\ baseline = [now |-> "foreign", boot |-> "foreign"]
  /\ disk = [trusted |-> {}, level |-> "", banned |-> {}, tokens |-> "auto"]
  /\ mem = disk /\ shown = disk /\ cmd = NoCmd
  /\ budget = 2 /\ probing = [w \in Probes |-> Idle] /\ seeding = FALSE /\ linked = FALSE /\ held = Idle
  /\ expect = [d \in Device |-> Standing(disk, d)] /\ cut = {} /\ chosen = "" /\ lost = {}
  /\ unshown = FALSE /\ missed = FALSE /\ cmds = 0 /\ faults = 0

Fault(kind) == kind \in Traffic /\ faults < MaxFaults /\ faults' = faults + 1

----------------------------------------------------------------------------
(* Start and end *)

\* MeshNode.__init__ and start: both the start and the snapshot loop probe.
Boot ==
  /\ ~up /\ up' = TRUE /\ baseline' = [baseline EXCEPT !.boot = baseline.now]
  /\ mem' = [disk EXCEPT !.level = IF disk.level = "" THEN baseline.now ELSE disk.level]
  /\ budget' = 2 /\ seeding' = TRUE /\ linked' = FALSE /\ held' = Idle /\ missed' = FALSE
  /\ probing' = [w \in Probes |-> Gossiped(mem', 2)]
  /\ cut' = IF lost \cap {"trusted", "banned"} = {} THEN cut ELSE Device
  /\ chosen' = IF "level" \in lost THEN disk.level ELSE chosen
  /\ lost' = {} /\ unshown' = TRUE
  /\ UNCHANGED <<disk, shown, cmd, expect, cmds, faults>>

Crash ==
  /\ up /\ Fault("crash") /\ up' = FALSE /\ cmd' = NoCmd
  /\ cut' = IF cmd = NoCmd THEN cut ELSE cut \cup {cmd.dev}
  /\ UNCHANGED <<baseline, files, shown, adverts, expect, chosen, lost, unshown, missed, cmds>>

\* The environment or mesh.json changes.
Baseline(l) ==
  /\ "env" \in Traffic /\ ~up /\ l # baseline.now /\ baseline' = [baseline EXCEPT !.now = l]
  /\ UNCHANGED <<up, files, shown, cmd, adverts, ghosts, cmds, faults>>

----------------------------------------------------------------------------
(* Control commands *)

\* write_atomic: a failed write changes nothing, and is not reported.
Saved(file) ==
  \/ /\ disk' = [f \in DOMAIN disk |-> IF f \in DOMAIN file THEN file[f] ELSE disk[f]]
     /\ lost' = lost \ {f \in DOMAIN file : file[f] = mem'[f]} /\ faults' = faults
  \/ Fault("full") /\ disk' = disk /\ lost' = lost \cup {f \in DOMAIN file : file[f] # disk[f]}

Command == up /\ cmd = NoCmd /\ cmds < MaxCmds /\ cmds' = cmds + 1
Flush == shown' = mem' /\ unshown' = FALSE
Unsaved == disk' = disk /\ lost' = lost /\ faults' = faults
Others == UNCHANGED <<up, baseline, adverts, chosen, missed>>

\* Variant: the level in force is written along.
SavedLevelInForce == mem.level

\* load_default_level, on an edit of the allowlist.
SavedLevel == disk.level

Allow(devs) ==
  /\ mem' = [mem EXCEPT !.trusted = devs]
  /\ Saved([trusted |-> devs, level |-> SavedLevel])

\* add_trusted, and ban_device of a trusted device, up to the second file.
Begins(op, d) ==
  /\ "trust" \in Traffic /\ Command
  /\ \/ op = "trust" /\ Allow(mem.trusted \cup {d})
     \/ op = "ban" /\ d \in mem.trusted /\ Allow(mem.trusted \ {d})
     \/ op = "ban" /\ d \notin mem.trusted /\ mem' = mem /\ Unsaved
  /\ cmd' = [op |-> op, dev |-> d]
  /\ UNCHANGED <<shown, expect, cut, unshown>> /\ Others

\* The ban list, the snapshot and the reply.  A verdict (see ForeignJobs) bans
\* as a command does, but writes no snapshot.
Finishes(byOperator) ==
  /\ cmd # NoCmd /\ (byOperator \/ cmd.op = "ban") /\ cmd' = NoCmd
  /\ LET d == cmd.dev IN
     /\ mem' = IF cmd.op = "ban" THEN WithBan(mem, d) ELSE WithoutBan(mem, d)
     /\ IF mem' = mem /\ cmd.op = "trust" THEN Unsaved ELSE Saved([banned |-> mem'.banned])
     /\ expect' = [expect EXCEPT ![d] = [trusted |-> cmd.op = "trust", banned |-> cmd.op = "ban"]]
     /\ cut' = cut \ {d}
  /\ (IF byOperator THEN Flush ELSE shown' = shown /\ unshown' = TRUE)
  /\ UNCHANGED cmds /\ Others

\* remove_trusted
Untrust(d) ==
  /\ "trust" \in Traffic /\ Command
  /\ IF d \in mem.trusted THEN Allow(mem.trusted \ {d}) ELSE mem' = mem /\ Unsaved
  /\ expect' = [expect EXCEPT ![d].trusted = FALSE]
  /\ Flush /\ UNCHANGED <<cmd, cut>> /\ Others

\* unban_device, which refuses if there is no ban.
Unban(d) ==
  /\ "trust" \in Traffic /\ Command /\ d \in mem.banned
  /\ mem' = WithoutBan(mem, d) /\ Saved([banned |-> mem'.banned])
  /\ expect' = [expect EXCEPT ![d].banned = FALSE]
  /\ Flush /\ UNCHANGED <<cmd, cut>> /\ Others

\* set_default_trust: the level in force is not written.
SetDefault(l) ==
  /\ "trust" \in Traffic /\ Command
  /\ IF l = mem.level THEN mem' = mem /\ Unsaved /\ chosen' = chosen
     ELSE /\ mem' = [mem EXCEPT !.level = l] /\ chosen' = l
          /\ Saved([trusted |-> mem.trusted, level |-> l])
  /\ Flush /\ UNCHANGED <<cmd, expect, cut, up, baseline, adverts, missed>>

\* _bump_and_gossip
Tell == held' = (IF linked' THEN Gossiped(mem', budget') ELSE Idle) /\ missed' = FALSE

\* set-attr of the token state: the operator's, or a personal peer's.
SetTokens(o, byOperator) ==
  /\ "tokens" \in Traffic /\ Command
  /\ mem' = Applied(mem, o)
  /\ UNCHANGED <<budget, probing, seeding, linked>>
  /\ IF mem' = mem THEN Unsaved /\ UNCHANGED <<held, missed>> ELSE Saved([tokens |-> o]) /\ Tell
  /\ IF byOperator THEN Flush ELSE shown' = shown /\ unshown' = (unshown \/ mem' # mem)
  /\ UNCHANGED <<up, baseline, cmd, expect, cut, chosen>>

\* _snapshot_loop
Snapshot ==
  /\ up /\ cmd = NoCmd /\ unshown /\ shown' = mem /\ unshown' = FALSE
  /\ UNCHANGED <<up, baseline, files, cmd, adverts, expect, cut, chosen, lost, missed, cmds, faults>>

----------------------------------------------------------------------------
(* The advert *)

Quiet == UNCHANGED <<up, baseline, files, shown, cmd, expect, cut, chosen, lost, unshown, cmds, faults>>

\* The hello, and the adverts that follow a change of links.
LinkUp ==
  /\ "tokens" \in Traffic /\ up /\ ~linked /\ linked' = TRUE
  /\ UNCHANGED <<budget, probing, seeding>> /\ Quiet /\ Tell

LinkDown ==
  /\ up /\ linked /\ linked' = FALSE
  /\ UNCHANGED <<budget, probing, seeding>> /\ Quiet /\ Tell

\* _refresh_tokens of the snapshot loop, up to its await.
ProbeBegins ==
  /\ "tokens" \in Traffic /\ up /\ ~seeding /\ probing["loop"] = Idle
  /\ probing' = [probing EXCEPT !["loop"] = Gossiped(mem, budget)]
  /\ UNCHANGED <<budget, seeding, linked, held, missed>> /\ Quiet

\* A failed probe leaves the budget; only the loop gossips a change.
ProbeEnds(w, b) ==
  /\ "tokens" \in Traffic /\ up /\ probing[w] # Idle /\ budget' = b
  /\ probing' = [probing EXCEPT ![w] = Idle]
  /\ seeding' = (seeding /\ probing' # [v \in Probes |-> Idle])
  /\ UNCHANGED linked /\ Quiet
  /\ IF w = "loop" /\ Gossiped(mem, b) # probing[w] THEN Tell
     ELSE held' = held /\ missed' = (missed \/ (seeding /\ linked /\ held # Gossiped(mem, b)))

----------------------------------------------------------------------------
Next ==
  \/ Boot \/ Crash \/ Snapshot \/ LinkUp \/ LinkDown \/ ProbeBegins
  \/ \E l \in Levels : Baseline(l) \/ SetDefault(l)
  \/ \E d \in Device : Begins("trust", d) \/ Begins("ban", d) \/ Untrust(d) \/ Unban(d)
  \/ \E o \in {"auto", "low"}, byOperator \in BOOLEAN : SetTokens(o, byOperator)
  \/ \E byOperator \in BOOLEAN : Finishes(byOperator)
  \/ \E w \in Probes, b \in 0..2 : ProbeEnds(w, b)

Spec == Init /\ [][Next]_vars

----------------------------------------------------------------------------
(* Properties *)

\* An edit that was acknowledged holds, in the node, in state.json once it is
\* written, and after any restart, unless its write failed or a later one was
\* cut by a crash: a device is trusted, banned or neither as the operator (or a
\* verdict) said last, never both; and an edit of the allowlist does not make
\* the baseline of unlisted devices a choice of the operator.
OperatorsWord ==
  (up /\ cmd = NoCmd) =>
    /\ \A d \in Device : d \notin cut => (Standing(mem, d) = expect[d] /\ expect[d] # [trusted |-> TRUE, banned |-> TRUE])
    /\ mem.level = IF chosen = "" THEN baseline.boot ELSE chosen
    /\ unshown \/ shown = mem

\* "if what peers see changed, tell them": between probes, a linked peer knows
\* the token state and the budget of the node, whatever was edited while a
\* probe was out; not so if it linked before the probes of the start were over.
PeersKnowBudget ==
  (up /\ linked /\ ~missed /\ \A w \in Probes : probing[w] = Idle) => held = Gossiped(mem, budget)
=============================================================================
