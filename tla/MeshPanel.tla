------------------------------ MODULE MeshPanel ------------------------------
(***************************************************************************)
(* The applet's side of the mesh (linux/diplomat_app/store.py, panel.py,   *)
(* meshview.py, meshspawn.py, settingsview.py): the store's copy of the    *)
(* node's state.json, what the mesh screen drew of it, and the threads     *)
(* that carry the user's edits to the node and read the file again.        *)
(*                                                                         *)
(* The screen is drawn anew only when the store signals that its copy      *)
(* changed.  Copy, file and screen can differ at any time: a thread may    *)
(* have read the file before another one, and store what it read after     *)
(* it; the node may end without a word.                                    *)
(*                                                                         *)
(* Abstracted: a snapshot has the node's incarnation (its epoch), the      *)
(* placement of one duty, the standing of one peer and the rest, that is   *)
(* peers, links, tiers and budgets; what drifts by itself and the store    *)
(* does not compare, it does not have.  A pid is alive as long as its      *)
(* process.  Where several signals wait for the UI thread, the last counts.*)
(***************************************************************************)
EXTENDS Naturals

CONSTANTS
  Worker,      \* threads of the store (a bound)
  Field,       \* of a placement, each 0 or 1
  Shown,       \* the fields the screen can edit, a subset of Field
  Traffic,     \* what may happen besides the node's news, of "hide", "toggle", "place",
               \* "peer", "attr", "spawn", "crash", "timeout" and "noproc" (a bound)
  MaxClicks, MaxNews, MaxFaults,   \* bounds
  NoFile, Idle

VARIABLES
  node,      \* the local node: up, told to stop, and what it would write of itself
  file,      \* state.json
  spawning,  \* processes started as nodes that did not get that far
  enabled,   \* the setting meshEnabled
  visible,   \* the panel is open
  state,     \* mesh_state
  failed,    \* mesh_error is set
  ui,        \* what the UI thread read of the file, and did not compare yet
  thread,    \* worker -> its operation, its stage, and what it read
  queued,    \* mesh_changed waits for the UI thread
  drawn,     \* what the mesh screen shows
  clicks, news, faults

process == <<node, file, spawning>>
store == <<enabled, visible, state, failed>>
counts == <<clicks, news, faults>>
vars == <<process, store, ui, thread, queued, drawn, counts>>

Placement == [Field -> {0, 1}]
Standings == {"foreign", "personal", "banned"}
Default == [f \in Field |-> 0]
Snapshots == [inc : Nat, place : Placement, standing : Standings, rest : {0, 1}]
Nodes == [inc : Nat, place : Placement, standing : Standings, rest : {0, 1}, up : BOOLEAN, stopping : BOOLEAN]

\* MeshNode.snapshot
Snapshot(n) == [inc |-> n.inc, place |-> n.place, standing |-> n.standing, rest |-> n.rest]

\* statefile.node_running: the snapshot names a live pid.
Running(s) == s # NoFile /\ node.up /\ s.inc = node.inc

\* Variant: placements are compared by nobody.
ChangedButForPlaces(old, new) ==
  IF NoFile \in {old, new} THEN old # new ELSE [old EXCEPT !.place = new.place] # new

\* _mesh_meaningfully_changed
MeaningfullyChanged(old, new) == old # new

\* MeshView._rebuild and the cards under it: the editors of a duty are made
\* with the placement of the moment.
Draw(s, on, err) ==
  [of |-> s, error |-> err,
   mode |-> IF ~on THEN "off" ELSE IF s = NoFile THEN "starting" ELSE IF Running(s) THEN "live" ELSE "dead"]

Free == {w \in Worker : thread[w] = Idle}
Thread(op) == [op |-> op, stage |-> "call", read |-> NoFile]
Starts == [kind |-> "start"]

\* DiplomatApp: the settings read the file before the screen is made, and a node
\* is started if the mesh is enabled and none runs.
Init ==
  /\ node \in [inc : {1}, place : {Default}, standing : {"foreign"}, rest : {0}, up : BOOLEAN, stopping : {FALSE}]
  /\ file \in {NoFile, Snapshot(node)} /\ (node.up => file # NoFile) /\ spawning = 0
  /\ enabled \in BOOLEAN /\ visible = FALSE /\ failed = FALSE
  /\ state = IF enabled THEN file ELSE NoFile
  /\ drawn = Draw(state, enabled, failed)
  /\ ui = Idle /\ queued = FALSE
  /\ \E w \in Worker : thread =
       [v \in Worker |-> IF v = w /\ enabled /\ ~Running(file) THEN Thread(Starts) ELSE Idle]
  /\ clicks = 0 /\ news = 0 /\ faults = 0

----------------------------------------------------------------------------
(* The UI thread *)

Click(kind) == kind \in Traffic /\ visible /\ ui = Idle /\ clicks < MaxClicks /\ clicks' = clicks + 1

\* The editors are there only on a screen drawn of a live node.
ClickOn(kind) == Click(kind) /\ drawn.mode = "live"

Runs(op) == \E w \in Free : thread' = [thread EXCEPT ![w] = Thread(op)]

\* refresh_mesh_state on the UI thread, up to the comparison.
Reads == ui' = [read |-> file]

\* show_panel and hide, showEvent, Panel._set_screen.
Show ==
  /\ ~visible /\ ui = Idle /\ visible' = TRUE
  /\ IF enabled THEN Reads ELSE ui' = ui
  /\ UNCHANGED <<process, enabled, state, failed, thread, queued, drawn, counts>>

Hide ==
  /\ Click("hide") /\ visible' = FALSE
  /\ UNCHANGED <<process, enabled, state, failed, ui, thread, queued, drawn, news, faults>>

\* _mesh_tick
Tick ==
  /\ visible /\ enabled /\ ui = Idle /\ Reads
  /\ UNCHANGED <<process, store, thread, queued, drawn, counts>>

\* ensure_mesh_running_async
Ensure(on) == IF ~on \/ Running(file) THEN Reads /\ thread' = thread ELSE Runs(Starts) /\ ui' = ui

\* _on_mesh_toggled, with stop_mesh_async
Toggle ==
  /\ Click("toggle") /\ enabled' = ~enabled
  /\ IF enabled THEN Runs([kind |-> "stop"]) /\ ui' = ui ELSE Ensure(TRUE)
  /\ UNCHANGED <<process, visible, state, failed, queued, drawn, news, faults>>

\* _show_state: the button of a dead node.
Start ==
  /\ Click("toggle") /\ drawn.mode = "dead" /\ Ensure(enabled)
  /\ UNCHANGED <<process, store, queued, drawn, news, faults>>

\* Each edit has a thread of its own.
Asks(op) ==
  /\ Runs(op)
  /\ UNCHANGED <<process, store, ui, queued, drawn, news, faults>>

\* _edit_placement, of the placement that _duty_card was made with.
Edited(f, x) == [drawn.of.place EXCEPT ![f] = x]

EditPlacement(f, x) ==
  /\ ClickOn("place")
  /\ Asks([kind |-> "place", place |-> Edited(f, x)])

\* _trust_toggle: a banned peer has no toggle, but a way back.
EditPeer(kind) ==
  /\ ClickOn("peer")
  /\ (kind = "unban") = (drawn.of.standing = "banned")
  /\ Asks([kind |-> kind])

\* _edit_strength and _token_editor, of this node or of a peer.
EditAttr == ClickOn("attr") /\ Asks([kind |-> "attr"])

\* MeshSpawnRow: a wizard dispatches through the mesh if the node runs by now.
Spawn == Click("spawn") /\ enabled /\ Running(state) /\ Asks([kind |-> "dispatch"])

----------------------------------------------------------------------------
(* The store's threads *)

Stage(w, stage) == thread[w] # Idle /\ thread[w].stage = stage
Goes(w, stage) == thread' = [thread EXCEPT ![w].stage = stage]
Fault(kind) == kind \in Traffic /\ faults < MaxFaults /\ faults' = faults + 1

\* _ctl_command: what a command leaves of the node, and whether it is refused.
Refused(op) == op.kind = "unban" /\ node.standing # "banned"
After(op) ==
  [node EXCEPT
    !.place = IF op.kind = "place" THEN op.place ELSE @,
    !.standing = IF op.kind = "trust" THEN "personal"
                 ELSE IF <<op.kind, @>> \in {<<"untrust", "personal">>, <<"unban", "banned">>} THEN "foreign" ELSE @,
    !.stopping = @ \/ op.kind = "stop"]

\* An attribute of a peer is edited there; a dispatch is told of in other ways.
Effect(op) ==
  /\ node' \in {After(op)} \cup (IF op.kind = "attr" THEN {[After(op) EXCEPT !.rest = 1 - @]} ELSE {})
  /\ file' = IF op.kind \in {"stop", "dispatch"} THEN file ELSE Snapshot(node')

\* mesh_set_attr and its like: an edit that fails is remembered, a stop is not.
Fails(w) == failed' = (failed \/ thread[w].op.kind # "stop")
Succeeds(w) == failed' = (failed /\ thread[w].op.kind = "stop")

Others == UNCHANGED <<spawning, enabled, visible, state, ui, queued, drawn, clicks, news>>

\* ctl.request
Request(w) ==
  /\ Stage(w, "call") /\ thread[w].op.kind # "start" /\ Goes(w, "read") /\ Others
  /\ \/ Running(file) /\ ~Refused(thread[w].op) /\ Effect(thread[w].op) /\ Succeeds(w) /\ faults' = faults
     \/ (Running(file) => Refused(thread[w].op)) /\ Fails(w) /\ UNCHANGED <<node, file, faults>>

\* No answer within the timeout, to a command that the node carries out or not.
TimesOut(w) ==
  /\ Stage(w, "call") /\ thread[w].op.kind # "start" /\ Goes(w, "read") /\ Others
  /\ Running(file) /\ Fault("timeout") /\ Fails(w)
  /\ \/ Effect(thread[w].op)
     \/ UNCHANGED <<node, file>>

\* The worker of ensure_mesh_running_async.
Launch(w) ==
  /\ Stage(w, "call") /\ thread[w].op.kind = "start" /\ Goes(w, "read")
  /\ \/ spawning' = spawning + 1 /\ UNCHANGED <<failed, faults>>
     \/ Fault("noproc") /\ failed' = TRUE /\ UNCHANGED spawning
  /\ UNCHANGED <<node, file, enabled, visible, state, ui, queued, drawn, clicks, news>>

\* refresh_mesh_state on a worker, up to the comparison.
Rereads(w) ==
  /\ Stage(w, "read")
  /\ thread' = [thread EXCEPT ![w].stage = "compare", ![w].read = file]
  /\ UNCHANGED <<process, store, ui, queued, drawn, counts>>

\* The rest of it: a worker's signal waits for the UI thread.
Compares(w) ==
  /\ Stage(w, "compare") /\ thread' = [thread EXCEPT ![w] = Idle]
  /\ IF MeaningfullyChanged(state, thread[w].read) THEN state' = thread[w].read /\ queued' = TRUE
     ELSE UNCHANGED <<state, queued>>
  /\ UNCHANGED <<process, enabled, visible, failed, ui, drawn, counts>>

\* On the UI thread the screen is drawn at once.
UiCompares ==
  /\ ui # Idle /\ ui' = Idle
  /\ IF MeaningfullyChanged(state, ui.read)
     THEN state' = ui.read /\ drawn' = Draw(state', enabled, failed)
     ELSE UNCHANGED <<state, drawn>>
  /\ UNCHANGED <<process, enabled, visible, failed, thread, queued, counts>>

Drawing ==
  /\ queued /\ ui = Idle /\ queued' = FALSE /\ drawn' = Draw(state, enabled, failed)
  /\ UNCHANGED <<process, store, ui, thread, counts>>

----------------------------------------------------------------------------
(* The node *)

Applet == UNCHANGED <<store, ui, thread, queued, drawn>>

\* _daemonize, then __main__: the newest node ends another one, and overrides
\* are not kept on disk.
SpawnLands ==
  /\ spawning > 0 /\ spawning' = spawning - 1
  /\ node' = IF Running(file) THEN node
             ELSE [node EXCEPT !.inc = @ + 1, !.up = TRUE, !.stopping = FALSE, !.place = Default]
  /\ UNCHANGED <<file, counts>> /\ Applet

\* _snapshot_loop
Writes ==
  /\ node.up /\ file # Snapshot(node) /\ file' = Snapshot(node)
  /\ UNCHANGED <<node, spawning, counts>> /\ Applet

\* MeshNode.run: what was told to stop stops.
Stops ==
  /\ node.up /\ node.stopping /\ node' = [node EXCEPT !.up = FALSE, !.stopping = FALSE]
  /\ UNCHANGED <<file, spawning, counts>> /\ Applet

Crash ==
  /\ node.up /\ Fault("crash") /\ node' = [node EXCEPT !.up = FALSE, !.stopping = FALSE]
  /\ UNCHANGED <<file, spawning, clicks, news>> /\ Applet

\* What comes from elsewhere: links and budgets, another editor, a verdict.
News ==
  /\ node.up /\ news < MaxNews /\ news' = news + 1
  /\ \/ node' = [node EXCEPT !.rest = 1 - @]
     \/ node.standing # "banned" /\ node' = [node EXCEPT !.standing = "banned"]
     \/ \E f \in Field : node' = [node EXCEPT !.place[f] = 1 - @]
  /\ UNCHANGED <<file, spawning, clicks, faults>> /\ Applet

----------------------------------------------------------------------------
Next ==
  \/ Show \/ Hide \/ Tick \/ Toggle \/ Start \/ EditAttr \/ Spawn \/ UiCompares \/ Drawing
  \/ \E f \in Shown, x \in {0, 1} : EditPlacement(f, x)
  \/ \E kind \in {"trust", "untrust", "unban"} : EditPeer(kind)
  \/ \E w \in Worker : Request(w) \/ TimesOut(w) \/ Launch(w) \/ Rereads(w) \/ Compares(w)
  \/ SpawnLands \/ Writes \/ Stops \/ Crash \/ News

Spec == Init /\ [][Next]_vars

\* A thread goes on, and so does the event loop of the applet, whose timer
\* ticks; a process that was started starts, and the node's loop writes.
Advances(w) == Request(w) \/ TimesOut(w) \/ Launch(w) \/ Rereads(w) \/ Compares(w)
Fairness ==
  /\ \A w \in Worker : WF_vars(Advances(w))
  /\ WF_vars(Tick) /\ WF_vars(UiCompares) /\ SF_vars(Drawing)
  /\ WF_vars(SpawnLands) /\ WF_vars(Writes) /\ WF_vars(Stops)
FairSpec == Spec /\ Fairness

----------------------------------------------------------------------------
(* Properties *)

TypeOK ==
  /\ node \in Nodes /\ file \in Snapshots \cup {NoFile} /\ spawning \in Nat
  /\ enabled \in BOOLEAN /\ visible \in BOOLEAN /\ failed \in BOOLEAN /\ queued \in BOOLEAN
  /\ state \in Snapshots \cup {NoFile}

\* "Fresh topology": while the panel is open, the mesh enabled and the node at
\* rest, the screen ends up drawn from what the node says of itself, whichever
\* thread read the file last.
ViewCatchesUp ==
  <>[](visible /\ enabled /\ node.up) => <>[](drawn.of = Snapshot(node))
=============================================================================
