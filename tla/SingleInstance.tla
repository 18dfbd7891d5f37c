--------------------------- MODULE SingleInstance ---------------------------
(***************************************************************************)
(* The processes of the applet on one machine: trays, of which the newest  *)
(* replaces the others (singleton.py), mesh nodes, one for each state      *)
(* directory by a file lock and one in all by the same sweep               *)
(* (mesh/singlelock.py, mesh/singleton.py), and the updates that relaunch  *)
(* a tray (selfupdate.py).                                                 *)
(*                                                                         *)
(* Abstracted: a listing of the processes is one step, and a sweep sends   *)
(* all its signals in one; SIGTERM takes effect later, SIGKILL at once; a  *)
(* pid is not given to another process while a sweep waits for it.  The    *)
(* interval of the timers is not modelled.                                 *)
(***************************************************************************)
EXTENDS Integers, FiniteSets

CONSTANTS
  Proc,        \* process ids
  Traffic,     \* what may happen besides starts and deliveries (a bound)
  MaxStarts    \* starts and updates by the user (a bound)

VARIABLES
  proc,     \* pid -> [kind, pc, victims, dir]
  asked,    \* pids to which a SIGTERM is on its way
  heirs,    \* <<a serving tray, the one launched to replace it>>, until either ends
            \* (the heir: killed before it has asked the other)
  pidfile,  \* the pid in diplomat.pid, or 0
  lock,     \* state directory -> holder of node.lock, or 0
  stated,   \* state directory -> the pid in state.json, or 0
  enabled,  \* mesh_enabled
  phase,    \* pid of a tray -> phase of its update_state
  job,      \* the 6AM job: where it is, and the tray it found
  behind,   \* origin is ahead of the checkout
  built,    \* diplomat-core is the one of the checkout
  starts,   \* starts and updates by the user so far
  hit       \* processes of others that were signalled

processes == <<proc, asked, heirs>>
files == <<pidfile, lock, stated>>
updating == <<phase, job, behind, built>>
vars == <<processes, files, enabled, updating, starts, hit>>

Dirs == {"new", "old"}
Gone == [kind |-> "none", pc |-> "gone", victims |-> {}, dir |-> "new"]

Alive(p) == proc[p].kind # "none"
At(p, pc) == proc[p].pc = pc
IsTray(p) == proc[p].kind = "tray"
IsNode(p) == proc[p].kind = "node"
Serves(p) == At(p, "serve")
Goto(p, pc) == proc' = [proc EXCEPT ![p].pc = pc]

Init ==
  /\ proc = [p \in Proc |-> Gone] /\ asked = {} /\ heirs = {}
  /\ pidfile = 0 /\ lock = [d \in Dirs |-> 0] /\ stated = [d \in Dirs |-> 0]
  /\ enabled = FALSE /\ phase = [p \in Proc |-> "idle"]
  /\ job = [pc |-> "off", tray |-> 0] /\ behind = FALSE /\ built = TRUE
  /\ starts = 0 /\ hit = {}

----------------------------------------------------------------------------
(* Starts *)

Replaced(p) == \E q \in Proc : <<p, q>> \in heirs

Free == {q \in Proc : ~Alive(q) /\ q # job.tray}

\* The next process: a tray begins with the listing, a node with the lock.
Launched(p, kind, d) ==
  /\ p \in Free /\ \A q \in Free : p <= q
  /\ proc' = [proc EXCEPT ![p] = [kind |-> kind, pc |-> IF kind = "node" THEN "lock" ELSE "scan",
                                  victims |-> {}, dir |-> d]]

Started(p, kind, d) == Launched(p, kind, d) /\ phase' = [phase EXCEPT ![p] = "idle"]

ByUser == starts < MaxStarts /\ starts' = starts + 1

StartTray(p) ==
  /\ ByUser /\ Started(p, "tray", "new")
  /\ UNCHANGED <<asked, heirs, files, enabled, job, behind, built, hit>>

\* node_running: state.json names a live pid.
NodeRunning(d) == stated[d] # 0 /\ Alive(stated[d])

\* ensure_mesh_running_async and _daemonize, and a node of an earlier name,
\* whose state is in another directory.
StartNode(p, d) ==
  /\ ByUser /\ ~NodeRunning(d) /\ (d = "old" => "old" \in Traffic)
  /\ Started(p, "node", d) /\ enabled' = TRUE
  /\ UNCHANGED <<asked, heirs, files, job, behind, built, hit>>

\* singlelock.acquire: the loser exits.
TakeLock(p) ==
  /\ At(p, "lock")
  /\ LET d == proc[p].dir IN
     IF lock[d] = 0
     THEN lock' = [lock EXCEPT ![d] = p] /\ Goto(p, "scan")
     ELSE lock' = lock /\ proc' = [proc EXCEPT ![p] = Gone]
  /\ UNCHANGED <<asked, heirs, pidfile, stated, enabled, updating, starts, hit>>

----------------------------------------------------------------------------
(* The sweep: acquire_newest_wins of a tray, terminate_other_nodes of a node *)

\* Variant: the processes on record only.
OthersOnRecord(p) == {q \in Proc \ {p} : q \in {pidfile, stated["new"]} /\ proc[q].kind = proc[p].kind}

\* _other_instances, _other_nodes: told by their command lines.
Others(p) == {q \in Proc \ {p} : proc[q].kind = proc[p].kind}

\* Variant: a live pid is enough.
RecordedAlive(p) == {q \in {pidfile} \ {0, p} : Alive(q)}

\* The pid on record, if it is a tray.
Recorded(p) == {q \in {pidfile} \ {0, p} : IsTray(q)}

Scan(p) ==
  /\ At(p, "scan")
  /\ proc' = [proc EXCEPT ![p].pc = "signal",
                          ![p].victims = Others(p) \cup (IF IsTray(p) THEN Recorded(p) ELSE {})]
  /\ UNCHANGED <<asked, heirs, files, enabled, updating, starts, hit>>

\* What is left of the victims of p, and the others' processes in it.
Left(p) == {q \in proc[p].victims : Alive(q)}
Hits(p) == hit' = hit \cup {q \in Left(p) : proc[q].kind = "other"}

Signal(p) ==
  /\ At(p, "signal") /\ Goto(p, "wait")
  /\ asked' = asked \cup Left(p) /\ Hits(p)
  /\ UNCHANGED <<heirs, files, enabled, updating, starts>>

\* The kernel takes back what the processes of S held; their files stay.
Freed(S) ==
  /\ asked' = asked \ S
  /\ lock' = [d \in Dirs |-> IF lock[d] \in S THEN 0 ELSE lock[d]]

\* What is left to replace when those of S have ended.
Remaining(S) == {h \in heirs : h[1] \notin S}

\* Two seconds at most; then whoever is left is killed.
Waited(p) ==
  /\ At(p, "wait") /\ Freed(Left(p)) /\ heirs' = Remaining(Left(p)) /\ Hits(p)
  /\ proc' = [q \in Proc |-> IF q \in Left(p) THEN Gone ELSE
                            IF q = p THEN [proc[p] EXCEPT !.pc = IF IsTray(p) THEN "record" ELSE "serve", !.victims = {}]
                            ELSE proc[q]]
  /\ UNCHANGED <<pidfile, stated, enabled, updating, starts>>

Record(p) ==
  /\ At(p, "record") /\ pidfile' = p /\ Goto(p, "serve")
  /\ UNCHANGED <<asked, heirs, lock, stated, enabled, updating, starts, hit>>

\* A node writes its first snapshot.
Publish(p) ==
  /\ IsNode(p) /\ Serves(p) /\ stated[proc[p].dir] # p
  /\ stated' = [stated EXCEPT ![proc[p].dir] = p]
  /\ UNCHANGED <<processes, pidfile, lock, enabled, updating, starts, hit>>

----------------------------------------------------------------------------
(* Ends *)

Dies(p) == proc' = [proc EXCEPT ![p] = Gone] /\ Freed({p})
Ends(p) == Dies(p) /\ heirs' = Remaining({p})

\* A serving node stops by itself when asked to; whoever else is asked ends.
Deliver(p) ==
  /\ p \in asked
  /\ IF IsNode(p) /\ Serves(p)
     THEN Goto(p, "stopping") /\ asked' = asked \ {p} /\ UNCHANGED <<heirs, lock>>
     ELSE Ends(p)
  /\ UNCHANGED <<pidfile, stated, enabled, updating, starts, hit>>

\* MeshNode.stop is over.
Stopped(p) ==
  /\ At(p, "stopping") /\ Ends(p)
  /\ UNCHANGED <<pidfile, stated, enabled, updating, starts, hit>>

\* stop_mesh_async: the node that answers is asked to stop.
StopMesh(p) ==
  /\ "stop" \in Traffic /\ enabled /\ IsNode(p) /\ Serves(p) /\ proc[p].dir = "new"
  /\ enabled' = FALSE /\ Goto(p, "stopping")
  /\ UNCHANGED <<asked, heirs, files, updating, starts, hit>>

\* quit: the pid file goes if it is this tray's.
Quit(p) ==
  /\ "quit" \in Traffic /\ IsTray(p) /\ Serves(p) /\ phase[p] \in {"idle", "error"}
  /\ Ends(p) /\ pidfile' = IF pidfile = p THEN 0 ELSE pidfile
  /\ UNCHANGED <<stated, enabled, updating, starts, hit>>

\* A process is killed, wherever it is: no file is removed.  An heir leaves the
\* tray it was to replace to itself, if no signal is on its way to that.
Crash(p) ==
  /\ "crash" \in Traffic /\ (IsTray(p) \/ IsNode(p)) /\ Dies(p)
  /\ heirs' = {h \in Remaining({p}) : h[2] = p => h[1] \in asked}
  /\ UNCHANGED <<pidfile, stated, enabled, updating, starts, hit>>

\* The pid of a process that has ended is given to somebody else's (one at a time).
Recycle(p) ==
  /\ "recycle" \in Traffic /\ ~Alive(p) /\ p \in {pidfile} \cup {stated[d] : d \in Dirs}
  /\ \A q \in Proc : p \notin proc[q].victims /\ proc[q].kind # "other"
  /\ proc' = [proc EXCEPT ![p] = [Gone EXCEPT !.kind = "other", !.pc = "runs"]]
  /\ UNCHANGED <<asked, heirs, files, enabled, updating, starts, hit>>

----------------------------------------------------------------------------
(* Updates, from the panel of a tray or by the 6AM job *)

OriginMoves ==
  /\ "update" \in Traffic /\ ~behind /\ starts < MaxStarts /\ behind' = TRUE
  /\ UNCHANGED <<processes, files, enabled, phase, job, built, starts, hit>>

\* refresh_update_status_async: not while another check or an update runs.
Refresh(p) ==
  /\ "update" \in Traffic /\ IsTray(p) /\ Serves(p)
  /\ phase[p] \notin {"checking", "updating", "restarting"}
  /\ phase' = [phase EXCEPT ![p] = "checking"]
  /\ UNCHANGED <<processes, files, enabled, job, behind, built, starts, hit>>

Checked(p) ==
  /\ IsTray(p) /\ phase[p] = "checking"
  /\ phase' = [phase EXCEPT ![p] = "idle"]
  /\ UNCHANGED <<processes, files, enabled, job, behind, built, starts, hit>>

\* update_applet_async: the button is off while a check runs.
Update(p) ==
  /\ "update" \in Traffic /\ ByUser /\ IsTray(p) /\ Serves(p) /\ phase[p] \in {"idle", "error"}
  /\ phase' = [phase EXCEPT ![p] = "updating"]
  /\ UNCHANGED <<processes, files, enabled, job, behind, built, hit>>

\* pull: the merge goes in whole or not at all (local changes, a conflict).
Merged == behind' = FALSE /\ built' = (built /\ ~behind)

\* pull, build_core, then relaunch; each may fail, and a failed build leaves
\* the merge in place.
UpdateFails(p) ==
  /\ IsTray(p) /\ phase[p] = "updating"
  /\ (Merged \/ UNCHANGED <<behind, built>>)
  /\ phase' = [phase EXCEPT ![p] = "error"]
  /\ UNCHANGED <<processes, files, enabled, job, starts, hit>>

Relaunch(p, q) ==
  /\ IsTray(p) /\ phase[p] = "updating"
  /\ Launched(q, "tray", "new") /\ phase' = [phase EXCEPT ![p] = "restarting", ![q] = "idle"]
  /\ heirs' = heirs \cup {<<p, q>>} /\ behind' = FALSE /\ built' = TRUE
  /\ UNCHANGED <<asked, files, enabled, job, starts, hit>>

\* run_scheduled: only if origin is ahead, and (a bound) a day after the last.
JobStarts ==
  /\ "update" \in Traffic /\ job.pc = "off" /\ heirs = {} /\ behind
  /\ job' = [job EXCEPT !.pc = "update"]
  /\ UNCHANGED <<processes, files, enabled, phase, behind, built, starts, hit>>

JobFails ==
  /\ job.pc = "update" /\ job' = [job EXCEPT !.pc = "off"]
  /\ (Merged \/ UNCHANGED <<behind, built>>)
  /\ UNCHANGED <<processes, files, enabled, phase, starts, hit>>

\* running_pid: the pid on record, if it is a tray.
JobBuilt ==
  /\ job.pc = "update" /\ behind' = FALSE /\ built' = TRUE
  /\ job' = IF pidfile # 0 /\ IsTray(pidfile) THEN [pc |-> "relaunch", tray |-> pidfile] ELSE [job EXCEPT !.pc = "off"]
  /\ UNCHANGED <<processes, files, enabled, phase, starts, hit>>

JobOver == job' = [pc |-> "off", tray |-> 0]

\* The tray it found is to be replaced by q, if it serves still.
Replaces(q) == heirs' = heirs \cup {<<p, q>> : p \in {t \in Proc : t = job.tray /\ IsTray(t) /\ Serves(t)}}

\* Variant: the new process inherits the mark of a headless run, finds nothing
\* to do and ends.
JobRelaunchesHeadless(q) ==
  /\ job.pc = "relaunch" /\ q \in Free /\ Replaces(q) /\ JobOver
  /\ UNCHANGED <<proc, asked, files, enabled, phase, behind, built, starts, hit>>

\* relaunch, without the marks of a headless run
JobRelaunches(q) ==
  /\ job.pc = "relaunch" /\ Started(q, "tray", "new") /\ Replaces(q) /\ JobOver
  /\ UNCHANGED <<asked, files, enabled, behind, built, starts, hit>>

\* relaunch raises: the job ends, and the tray it found stays.
JobRelaunchFails ==
  /\ job.pc = "relaunch" /\ JobOver
  /\ UNCHANGED <<processes, files, enabled, phase, behind, built, starts, hit>>

----------------------------------------------------------------------------
Runs(p) ==
  \/ TakeLock(p) \/ Scan(p) \/ Signal(p) \/ Waited(p) \/ Record(p) \/ Publish(p)
  \/ Stopped(p)

Updates ==
  \/ OriginMoves \/ JobStarts \/ JobFails \/ JobBuilt \/ JobRelaunchFails
  \/ \E p \in Proc : Refresh(p) \/ Checked(p) \/ Update(p) \/ UpdateFails(p) \/ JobRelaunches(p)
  \/ \E p, q \in Proc : Relaunch(p, q)

Next ==
  \/ \E p \in Proc :
       \/ Runs(p) \/ Deliver(p) \/ StartTray(p) \/ StopMesh(p) \/ Quit(p) \/ Crash(p) \/ Recycle(p)
       \/ \E d \in Dirs : StartNode(p, d)
  \/ Updates

Spec == Init /\ [][Next]_vars

----------------------------------------------------------------------------
(* Properties *)

\* However many are started at once, by hand or by an update: a tray that
\* serves is the only one, and the pid file, which the 6AM job goes by, names
\* it; and no two nodes serve, whatever their state directories are.
SoleInstance ==
  \A p \in Proc : Serves(p) =>
    /\ IsTray(p) => pidfile = p
    /\ \A q \in Proc \ {p} : ~(Serves(q) /\ proc[q].kind = proc[p].kind)

\* singleton.py: a stale pid file does not make a victim of a process that was
\* given the pid since.
InnocentsSpared == hit = {}

\* "this instance is handing over": a serving tray for which a new one has been
\* launched, by its own update or the 6AM job's, is gone in the end, unless the
\* new one is killed before it has asked it to end.
HandsOver == \A p \in Proc : Replaced(p) ~> (~IsTray(p) \/ ~Replaced(p))
=============================================================================
