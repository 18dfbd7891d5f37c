---------------------------- MODULE MachineProofs ----------------------------
(***************************************************************************)
(* What holds of the parts of Machine for any constants.  Of               *)
(* SingleInstance, trays and nodes side by side: whoever serves is the     *)
(* only one of its kind, the serving tray is the one on record, and no     *)
(* sweep signals a process of somebody else.  Of Quota: a figure that      *)
(* passes for the account's is recent, and the ledger counts every job of  *)
(* its window, once.  Of ApiWatch: nobody is nudged too early.             *)
(***************************************************************************)
EXTENDS Machine, FiniteSetTheorems, WellFoundedInduction, TLAPS

Process == [kind : {"none", "tray", "node", "other"},
            pc : {"gone", "runs", "lock", "scan", "signal", "wait", "record", "serve", "stopping"},
            victims : SUBSET Proc, dir : Dirs]

\* A process is where its kind can be, and a sweep is about trays or nodes.
Typed ==
  /\ proc \in [Proc -> Process]
  /\ pidfile \in Proc \cup {0}
  /\ \A p \in Proc :
       /\ proc[p].kind = "none" <=> At(p, "gone")
       /\ proc[p].kind = "other" <=> At(p, "runs")
       /\ At(p, "record") => IsTray(p)
       /\ \A q \in proc[p].victims : proc[q].kind # "other"

\* p will still end q: it has yet to look who is there, or has q on its list.
Hunts(p, q) ==
  \/ At(p, "lock") \/ At(p, "scan")
  \/ (At(p, "signal") \/ At(p, "wait")) /\ q \in proc[p].victims

Rivals(p, q) == p # q /\ proc[p].kind = proc[q].kind /\ (IsTray(p) \/ IsNode(p))

\* Of any two of a kind the one that looked last has seen the other; the pid
\* file names the tray that serves.
Hunted ==
  /\ \A p, q \in Proc : Rivals(p, q) => Hunts(p, q) \/ Hunts(q, p)
  /\ \A p \in Proc : IsTray(p) /\ Serves(p) => pidfile = p

Inv == Typed /\ Hunted /\ InnocentsSpared

----------------------------------------------------------------------------

LEMMA InitInv ==
  Init => Inv
BY DEF Init, Inv, Typed, Hunted, InnocentsSpared, Process, Gone, Dirs, Alive, IsTray, IsNode, At,
       Rivals, Serves

\* A process that is launched has yet to look who is there.
LEMMA LaunchedInv ==
  ASSUME Inv, NEW p \in Proc, NEW kind \in {"tray", "node"}, NEW d \in Dirs, Launched(p, kind, d),
         pidfile' = pidfile, hit' = hit
  PROVE  Inv'
<1> DEFINE new == [kind |-> kind, pc |-> IF kind = "node" THEN "lock" ELSE "scan",
                   victims |-> {}, dir |-> d]
<1>1. proc' = [proc EXCEPT ![p] = new] /\ new \in Process /\ proc \in [Proc -> Process]
  BY DEF Launched, Process, Inv, Typed
<1>2. proc'[p] = new /\ \A q \in Proc \ {p} : proc'[q] = proc[q]
  BY <1>1
<1>3. Typed'
  BY <1>1, <1>2 DEF Inv, Typed, Alive, IsTray, IsNode, At
<1>4. ASSUME NEW q \in Proc, NEW r \in Proc, Rivals(q, r)'
      PROVE  Hunts(q, r)' \/ Hunts(r, q)'
  <2>1. CASE q = p \/ r = p
    BY <1>2, <2>1 DEF Hunts, At
  <2>2. CASE q # p /\ r # p
    <3>1. Rivals(q, r)
      BY <1>2, <1>4, <2>2 DEF Rivals, IsTray, IsNode
    <3> QED BY <1>2, <2>2, <3>1 DEF Inv, Hunted, Hunts, At
  <2> QED BY <2>1, <2>2
<1>5. \A q \in Proc : IsTray(q)' /\ Serves(q)' => pidfile' = q
  BY <1>2 DEF Inv, Hunted, IsTray, Serves, At
<1> QED BY <1>3, <1>4, <1>5 DEF Inv, Hunted, InnocentsSpared

\* A step that leaves every list as it is, and starts nobody: processes go on
\* to the next line or end, and none but a rival's victim begins to serve.
LEMMA GoingOnInv ==
  ASSUME Inv, hit' = hit, proc' \in [Proc -> Process],
         \A p \in Proc : proc'[p] = Gone
            \/ /\ proc'[p].kind = proc[p].kind /\ proc'[p].victims = proc[p].victims
               /\ \/ proc'[p].pc = proc[p].pc
                  \/ At(p, "lock") /\ proc'[p].pc = "scan"
                  \/ At(p, "signal") /\ proc'[p].pc = "wait"
                  \/ At(p, "record") /\ proc'[p].pc = "serve" /\ pidfile' = p
                  \/ IsNode(p) /\ proc'[p].pc = "stopping" /\ At(p, "serve"),
         \/ pidfile' = pidfile
         \/ \E p \in Proc : At(p, "record") /\ pidfile' = p
         \/ \E p \in Proc : IsTray(p) /\ Serves(p) /\ proc'[p] = Gone /\ pidfile' = 0
  PROVE  Inv'
<1>1. Typed'
  <2>1. pidfile' \in Proc \cup {0}
    BY DEF Inv, Typed
  <2>2. ASSUME NEW p \in Proc
        PROVE  /\ proc'[p].kind = "none" <=> At(p, "gone")'
               /\ proc'[p].kind = "other" <=> At(p, "runs")'
               /\ At(p, "record")' => IsTray(p)'
    <3>1. CASE proc'[p] = Gone
      BY <3>1 DEF Gone, At
    <3>2. CASE proc'[p] # Gone
      BY <3>2 DEF Inv, Typed, At, IsTray, IsNode
    <3> QED BY <3>1, <3>2
  <2>3. ASSUME NEW p \in Proc, NEW q \in proc'[p].victims PROVE proc'[q].kind # "other"
    <3>1. q \in Proc /\ q \in proc[p].victims
      BY <2>3 DEF Gone, Process
    <3>2. proc[q].kind # "other"
      BY <3>1 DEF Inv, Typed
    <3>3. proc'[q].kind = proc[q].kind \/ proc'[q] = Gone
      BY <3>1
    <3> QED BY <3>2, <3>3 DEF Gone
  <2> QED BY <2>1, <2>2, <2>3 DEF Typed
<1>2. ASSUME NEW p \in Proc, NEW q \in Proc, Rivals(p, q)'
      PROVE  Rivals(p, q) /\ (Hunts(p, q)' \/ Hunts(q, p)')
  <2>1. proc'[p] # Gone /\ proc'[q] # Gone
    BY <1>2 DEF Rivals, IsTray, IsNode, Gone
  <2>2. Rivals(p, q)
    BY <1>2, <2>1 DEF Rivals, IsTray, IsNode
  <2>3. (Hunts(p, q) => Hunts(p, q)') /\ (Hunts(q, p) => Hunts(q, p)')
    BY <2>1 DEF Hunts, At
  <2> QED BY <2>2, <2>3 DEF Inv, Hunted
<1>3. ASSUME NEW p \in Proc, IsTray(p)', Serves(p)' PROVE pidfile' = p
  <2>1. proc'[p] # Gone /\ IsTray(p)
    BY <1>3 DEF IsTray, Gone
  <2>2. CASE At(p, "record")
    BY <1>3, <2>1, <2>2 DEF Serves, At
  <2>3. CASE Serves(p)
    <3>1. pidfile = p
      BY <2>1, <2>3 DEF Inv, Hunted
    <3>2. ASSUME NEW q \in Proc, IsTray(q), At(q, "record") \/ Serves(q) PROVE q = p
      BY <2>1, <2>3, <3>2 DEF Inv, Hunted, Rivals, Hunts, At, Serves, IsTray
    <3>3. \A q \in Proc : At(q, "record") => IsTray(q)
      BY DEF Inv, Typed
    <3> QED BY <2>1, <3>1, <3>2, <3>3
  <2> QED BY <1>3, <2>1, <2>2, <2>3 DEF Serves, At, IsTray, IsNode
<1> QED BY <1>1, <1>2, <1>3 DEF Inv, Hunted, InnocentsSpared

LEMMA ScanInv ==
  ASSUME Inv, NEW p \in Proc, Scan(p)
  PROVE  Inv'
<1> DEFINE found == Others(p) \cup (IF IsTray(p) THEN Recorded(p) ELSE {})
<1>1. proc \in [Proc -> Process] /\ At(p, "scan") /\ hit' = hit /\ pidfile' = pidfile
      /\ proc' = [proc EXCEPT ![p].pc = "signal", ![p].victims = found]
  BY DEF Scan, Inv, Typed, files
<1>2. proc[p].kind \in {"tray", "node"}
  BY <1>1 DEF Inv, Typed, At, Process
<1>3. found \subseteq Proc /\ \A q \in found : proc[q].kind # "other"
  BY <1>2 DEF Others, Recorded, IsTray, Inv, Typed
<1> HIDE DEF found
<1>4. /\ proc' \in [Proc -> Process]
      /\ proc'[p].pc = "signal" /\ proc'[p].victims = found /\ proc'[p].kind = proc[p].kind
      /\ \A q \in Proc \ {p} : proc'[q] = proc[q]
  <2>1. [proc[p] EXCEPT !.pc = "signal", !.victims = found] \in Process
    <3>1. \A r \in Process : [r EXCEPT !.pc = "signal", !.victims = found] \in Process
      BY <1>3 DEF Process
    <3> QED BY <1>1, <3>1
  <2>2. proc' = [proc EXCEPT ![p] = [proc[p] EXCEPT !.pc = "signal", !.victims = found]]
    BY <1>1
  <2>3. proc' \in [Proc -> Process]
    BY <1>1, <2>1, <2>2
  <2>4. \A q \in Proc \ {p} : proc'[q] = proc[q]
    BY <1>1, <2>2
  <2>5. proc'[p] = [proc[p] EXCEPT !.pc = "signal", !.victims = found]
    BY <1>1, <2>2
  <2>6. proc'[p].pc = "signal" /\ proc'[p].victims = found /\ proc'[p].kind = proc[p].kind
    BY <1>1, <2>5 DEF Process
  <2> QED BY <2>3, <2>4, <2>6
<1>5. Typed'
  <2>1. \A q \in Proc : proc'[q].kind = proc[q].kind
    BY <1>4
  <2>2. \A q \in Proc : q # p => proc'[q].pc = proc[q].pc /\ proc'[q].victims = proc[q].victims
    BY <1>4
  <2>3. \A q \in Proc : \A v \in proc'[q].victims : v \in Proc /\ proc[v].kind # "other"
    BY <1>1, <1>3, <1>4, <2>2 DEF Inv, Typed, Process
  <2>4. \A q \in Proc : \A v \in proc'[q].victims : proc'[v].kind # "other"
    BY <2>1, <2>3
  <2>5. \A q \in Proc : /\ proc'[q].kind = "none" <=> proc'[q].pc = "gone"
                        /\ proc'[q].kind = "other" <=> proc'[q].pc = "runs"
                        /\ proc'[q].pc = "record" => proc'[q].kind = "tray"
    BY <1>2, <1>4, <2>1, <2>2 DEF Inv, Typed, IsTray, At
  <2> QED BY <1>1, <1>4, <2>4, <2>5 DEF Inv, Typed, IsTray, At
<1>6. ASSUME NEW q \in Proc, NEW r \in Proc, Rivals(q, r)'
      PROVE  Hunts(q, r)' \/ Hunts(r, q)'
  <2>1. Rivals(q, r)
    BY <1>4, <1>6 DEF Rivals, IsTray, IsNode
  <2>2. ASSUME NEW i \in Proc, Rivals(p, i) PROVE Hunts(p, i)'
    BY <1>4, <2>2 DEF Rivals, Others, found, Hunts, At
  <2>3. Rivals(p, q) <=> Rivals(q, p)
    BY DEF Rivals, IsTray, IsNode
  <2>4. CASE q = p
    BY <2>1, <2>2, <2>4
  <2>5. CASE r = p
    BY <2>1, <2>2, <2>3, <2>5 DEF Rivals, IsTray, IsNode
  <2>6. CASE q # p /\ r # p
    BY <1>4, <2>1, <2>6 DEF Inv, Hunted, Hunts, At
  <2> QED BY <2>4, <2>5, <2>6
<1>7. \A q \in Proc : IsTray(q)' /\ Serves(q)' => pidfile' = q
  BY <1>1, <1>4 DEF Inv, Hunted, IsTray, Serves, At
<1> QED BY <1>1, <1>5, <1>6, <1>7 DEF Inv, Hunted, InnocentsSpared

\* Nobody a sweep finds alive is somebody else's.
LEMMA SparedBySweep ==
  ASSUME Inv, NEW p \in Proc, Hits(p)
  PROVE  hit' = hit
BY DEF Inv, Typed, Hits, Left, InnocentsSpared

LEMMA WaitedInv ==
  ASSUME Inv, NEW p \in Proc, Waited(p)
  PROVE  Inv'
<1>1. /\ proc \in [Proc -> Process] /\ At(p, "wait") /\ hit' = hit /\ pidfile' = pidfile
      /\ proc[p].kind \in {"tray", "node"}
  BY SparedBySweep DEF Waited, Inv, Typed, At, Process
<1> DEFINE gone == [proc[p] EXCEPT !.pc = IF IsTray(p) THEN "record" ELSE "serve", !.victims = {}]
<1>2. gone \in Process /\ gone.kind = proc[p].kind /\ gone.victims = {}
      /\ gone.pc = IF IsTray(p) THEN "record" ELSE "serve"
  <2>1. \A r \in Process, c \in {"record", "serve"} :
          LET s == [r EXCEPT !.pc = c, !.victims = {}]
          IN s \in Process /\ s.kind = r.kind /\ s.victims = {} /\ s.pc = c
    BY DEF Process
  <2>2. proc[p] \in Process
    BY <1>1
  <2>3. CASE IsTray(p)
    BY <2>1, <2>2, <2>3
  <2>4. CASE ~IsTray(p)
    BY <2>1, <2>2, <2>4
  <2> QED BY <2>3, <2>4
<1> HIDE DEF gone
<1>3. \A q \in Proc : proc'[q] = IF q \in Left(p) THEN Gone ELSE IF q = p THEN gone ELSE proc[q]
  BY DEF Waited, gone
<1>4. proc' \in [Proc -> Process]
  <2>1. Gone \in Process
    BY DEF Gone, Process, Dirs
  <2> QED BY <1>1, <1>2, <2>1 DEF Waited, gone
<1>5. Typed'
  <2>1. \A q \in Proc : proc'[q] = Gone \/ proc'[q].kind = proc[q].kind
    BY <1>2, <1>3
  <2>2. \A q \in Proc : /\ proc'[q].kind = "none" <=> proc'[q].pc = "gone"
                        /\ proc'[q].kind = "other" <=> proc'[q].pc = "runs"
                        /\ proc'[q].pc = "record" => proc'[q].kind = "tray"
    <3> SUFFICES ASSUME NEW q \in Proc
                 PROVE  /\ proc'[q].kind = "none" <=> proc'[q].pc = "gone"
                        /\ proc'[q].kind = "other" <=> proc'[q].pc = "runs"
                        /\ proc'[q].pc = "record" => proc'[q].kind = "tray"
      OBVIOUS
    <3>1. CASE proc'[q] = Gone
      BY <3>1 DEF Gone
    <3>2. CASE proc'[q] = gone
      BY <1>1, <1>2, <3>2 DEF IsTray
    <3>3. CASE proc'[q] = proc[q]
      BY <3>3 DEF Inv, Typed, At, IsTray
    <3> QED BY <1>3, <3>1, <3>2, <3>3
  <2>3. ASSUME NEW q \in Proc, NEW v \in proc'[q].victims PROVE proc'[v].kind # "other"
    <3>1. v \in proc[q].victims /\ v \in Proc
      BY <1>1, <1>2, <1>3, <2>3 DEF Gone, Process
    <3>2. proc[v].kind # "other"
      BY <3>1 DEF Inv, Typed
    <3> QED BY <2>1, <3>1, <3>2 DEF Gone
  <2> QED BY <1>1, <1>4, <2>2, <2>3 DEF Inv, Typed, IsTray, At
<1>6. ASSUME NEW q \in Proc, NEW r \in Proc, Rivals(q, r)'
      PROVE  Hunts(q, r)' \/ Hunts(r, q)'
  <2>1. q \notin Left(p) /\ r \notin Left(p)
    BY <1>3, <1>6 DEF Rivals, IsTray, IsNode, Gone
  <2>2. Rivals(q, r) /\ Alive(q) /\ Alive(r)
    BY <1>2, <1>3, <1>6, <2>1 DEF Rivals, IsTray, IsNode, Alive
  <2>3. ~Hunts(p, q) /\ ~Hunts(p, r)
    BY <1>1, <2>1, <2>2 DEF Hunts, Left, At
  <2>4. \A i, k \in Proc : i # p /\ i \notin Left(p) /\ Hunts(i, k) => Hunts(i, k)'
    BY <1>3 DEF Hunts, At
  <2> QED BY <2>1, <2>2, <2>3, <2>4 DEF Inv, Hunted
<1>7. \A q \in Proc : IsTray(q)' /\ Serves(q)' => pidfile' = q
  BY <1>1, <1>2, <1>3 DEF Inv, Hunted, IsTray, Serves, At, Gone
<1> QED BY <1>1, <1>5, <1>6, <1>7 DEF Inv, Hunted, InnocentsSpared

LEMMA RecycleInv ==
  ASSUME Inv, NEW p \in Proc, Recycle(p)
  PROVE  Inv'
<1>1. /\ proc' = [proc EXCEPT ![p] = [Gone EXCEPT !.kind = "other", !.pc = "runs"]]
      /\ hit' = hit /\ pidfile' = pidfile /\ proc \in [Proc -> Process]
      /\ \A q \in Proc : p \notin proc[q].victims
  BY DEF Recycle, files, Inv, Typed
<1>2. /\ proc'[p].kind = "other" /\ proc'[p].pc = "runs" /\ proc'[p].victims = {}
      /\ \A q \in Proc \ {p} : proc'[q] = proc[q]
      /\ proc' \in [Proc -> Process]
  BY <1>1 DEF Gone, Process, Dirs
<1>3. Typed'
  BY <1>1, <1>2 DEF Inv, Typed, IsTray, IsNode, At, Alive
<1>4. \A q, r \in Proc : Rivals(q, r)' => q # p /\ r # p
  BY <1>2 DEF Rivals, IsTray, IsNode
<1>5. \A q, r \in Proc : Rivals(q, r)' => Hunts(q, r)' \/ Hunts(r, q)'
  BY <1>2, <1>4 DEF Inv, Hunted, Rivals, Hunts, At, IsTray, IsNode
<1>6. \A q \in Proc : IsTray(q)' /\ Serves(q)' => pidfile' = q
  BY <1>1, <1>2 DEF Inv, Hunted, IsTray, Serves, At
<1> QED BY <1>1, <1>3, <1>5, <1>6 DEF Inv, Hunted, InnocentsSpared

LEMMA NextInv ==
  ASSUME Inv, [Next]_vars
  PROVE  Inv'
<1>1. proc \in [Proc -> Process] /\ Gone \in Process
  BY DEF Inv, Typed, Gone, Process, Dirs
<1>2. ASSUME UNCHANGED <<proc, pidfile, hit>> PROVE Inv'
  BY <1>1, <1>2, GoingOnInv
<1>3. ASSUME NEW p \in Proc, Dies(p), hit' = hit, pidfile' = pidfile \/ (IsTray(p) /\ Serves(p) /\ pidfile' = 0)
      PROVE  Inv'
  <2>1. proc' = [proc EXCEPT ![p] = Gone]
    BY <1>3 DEF Dies
  <2>2. proc' \in [Proc -> Process] /\ proc'[p] = Gone /\ \A q \in Proc \ {p} : proc'[q] = proc[q]
    BY <1>1, <2>1
  <2> QED BY <1>3, <2>2, GoingOnInv
<1>4. ASSUME NEW p \in Proc, NEW c, Goto(p, c), hit' = hit,
             \/ At(p, "lock") /\ c = "scan" /\ pidfile' = pidfile
             \/ At(p, "signal") /\ c = "wait" /\ pidfile' = pidfile
             \/ At(p, "record") /\ c = "serve" /\ pidfile' = p
             \/ IsNode(p) /\ At(p, "serve") /\ c = "stopping" /\ pidfile' = pidfile
      PROVE  Inv'
  <2>1. proc' = [proc EXCEPT ![p].pc = c]
    BY <1>4 DEF Goto
  <2>2. c \in {"scan", "wait", "serve", "stopping"}
    BY <1>4
  <2>3. /\ proc' \in [Proc -> Process] /\ proc'[p].pc = c
        /\ proc'[p].kind = proc[p].kind /\ proc'[p].victims = proc[p].victims
        /\ \A q \in Proc \ {p} : proc'[q] = proc[q]
    BY <1>1, <2>1, <2>2 DEF Process
  <2> QED BY <1>4, <2>3, GoingOnInv
<1>5. ASSUME NEW p \in Proc, Runs(p) PROVE Inv'
  <2>1. CASE TakeLock(p)
    <3>1. Goto(p, "scan") \/ proc' = [proc EXCEPT ![p] = Gone]
      BY <2>1 DEF TakeLock
    <3>2. CASE proc' = [proc EXCEPT ![p] = Gone]
      <4>1. proc' \in [Proc -> Process] /\ proc'[p] = Gone /\ \A q \in Proc \ {p} : proc'[q] = proc[q]
        BY <1>1, <3>2
      <4> QED BY <2>1, <4>1, GoingOnInv DEF TakeLock
    <3> QED BY <1>4, <2>1, <3>1, <3>2 DEF TakeLock
  <2>2. CASE Signal(p)
    BY <1>4, <2>2, SparedBySweep DEF Signal, files
  <2>3. CASE Record(p)
    BY <1>4, <2>3 DEF Record
  <2>4. CASE Publish(p)
    BY <1>2, <2>4 DEF Publish, processes
  <2>5. CASE Stopped(p)
    BY <1>3, <2>5 DEF Stopped, Ends
  <2> QED BY <1>5, <2>1, <2>2, <2>3, <2>4, <2>5, ScanInv, WaitedInv DEF Runs
<1>6. ASSUME NEW p \in Proc, Deliver(p) \/ StopMesh(p) \/ Quit(p) \/ Crash(p) PROVE Inv'
  <2>1. CASE Deliver(p)
    <3>1. hit' = hit /\ pidfile' = pidfile /\ (Dies(p) \/ (IsNode(p) /\ Serves(p) /\ Goto(p, "stopping")))
      BY <2>1 DEF Deliver, Ends
    <3> QED BY <1>3, <1>4, <3>1 DEF Serves
  <2>2. CASE StopMesh(p)
    BY <1>4, <2>2 DEF StopMesh, Serves, files
  <2>3. CASE Quit(p)
    BY <1>3, <2>3 DEF Quit, Ends
  <2>4. CASE Crash(p)
    BY <1>3, <2>4 DEF Crash
  <2> QED BY <1>6, <2>1, <2>2, <2>3, <2>4
<1>7. ASSUME NEW p \in Proc, StartTray(p) \/ \E d \in Dirs : StartNode(p, d) PROVE Inv'
  <2>1. "new" \in Dirs
    BY DEF Dirs
  <2> QED BY <1>7, <2>1, LaunchedInv DEF StartTray, StartNode, Started, files
<1>8. CASE Updates
  <2>1. "new" \in Dirs
    BY DEF Dirs
  <2>2. ASSUME NEW p \in Proc, JobRelaunches(p) \/ \E q \in Proc : Relaunch(q, p) PROVE Inv'
    BY <2>1, <2>2, LaunchedInv DEF JobRelaunches, Relaunch, Started, files
  <2>3. \/ UNCHANGED <<proc, pidfile, hit>>
        \/ \E p \in Proc : JobRelaunches(p) \/ \E q \in Proc : Relaunch(q, p)
    BY <1>8 DEF Updates, OriginMoves, JobStarts, JobFails, JobBuilt, JobRelaunchFails, Refresh, Checked, Update,
                UpdateFails, processes, files
  <2> QED BY <1>2, <2>2, <2>3
<1>9. CASE UNCHANGED vars
  BY <1>2, <1>9 DEF vars, processes, files
<1> QED BY <1>5, <1>6, <1>7, <1>8, <1>9, RecycleInv DEF Next

LEMMA SpecInv ==
  Spec => []Inv
BY InitInv, NextInv, PTL DEF Spec

\* However many are started at once: whoever serves is the only one of its
\* kind, and a serving tray is on record (singleton.acquire_newest_wins,
\* terminate_other_nodes).
THEOREM MachineSoleInstance ==
  Spec => []SoleInstance
<1>1. Inv => SoleInstance
  <2>1. ASSUME Inv, NEW p \in Proc, NEW q \in Proc \ {p}, Serves(p), Serves(q),
               proc[q].kind = proc[p].kind
        PROVE  FALSE
    BY <2>1 DEF Inv, Typed, Hunted, Rivals, Hunts, Serves, At, IsTray, IsNode, Process
  <2> QED BY <2>1 DEF Inv, Hunted, SoleInstance
<1> QED BY <1>1, SpecInv, PTL

\* No sweep signals a process that has only got the pid of a tray that is gone.
THEOREM MachineInnocentsSpared ==
  Spec => []InnocentsSpared
<1>1. Inv => InnocentsSpared
  BY DEF Inv
<1> QED BY <1>1, SpecInv, PTL

----------------------------------------------------------------------------
(* The account's figures (Quota) *)

Progress == [pc : {"idle", "check", "fetch", "keep", "done"}, left : Int, real : BOOLEAN, good : Int]

FiguresTyped ==
  /\ now \in Nat /\ refreshed \in Int
  /\ account \in [left : Int, online : BOOLEAN]
  /\ cache \in [attempt : Int, good : Int, session : Int]
  /\ probe \in [Budget!Probers -> Progress]
  /\ node \in [left : Int, real : BOOLEAN, good : Int]

\* A probe that read the account is not older than Keep when it ends; time waits
\* for probes; and between two probes of the loop the node goes by a figure that
\* was not older than Keep at the last refresh.
Recent ==
  /\ \A w \in Budget!Probers : probe[w].pc = "done" /\ probe[w].real => now - probe[w].good <= Keep
  /\ probe["loop"].pc # "idle" => refreshed = now
  /\ node.real /\ probe["loop"].pc = "idle" => refreshed - node.good <= Keep

FiguresInv == FiguresTyped /\ Recent

\* A node that starts goes by no figure, and only the probe of the start is under way.
LEMMA AtStartFigures ==
  /\ Budget!AtStart \in [Budget!Probers -> Progress] /\ Budget!AtStart["loop"].pc = "idle"
  /\ \A w \in Budget!Probers : ~Budget!AtStart[w].real
  /\ Budget!NoFigures \in [attempt : Int, good : Int, session : Int] /\ Budget!Never \in Int
  /\ [left |-> 2, real |-> FALSE, good |-> Budget!Never] \in [left : Int, real : BOOLEAN, good : Int]
<1> DEFINE check == [Budget!NoProbe EXCEPT !.pc = "check"]
<1>1. Budget!NoProbe \in Progress /\ Budget!NoProbe.pc = "idle" /\ ~Budget!NoProbe.real
  BY DEF Progress, Budget!NoProbe, Budget!Never
<1>2. check \in Progress /\ ~check.real
  BY <1>1 DEF Progress
<1>3. /\ \A w \in Budget!Probers : Budget!AtStart[w] \in {check, Budget!NoProbe}
      /\ Budget!AtStart["loop"] = Budget!NoProbe /\ Budget!AtStart = [w \in Budget!Probers |-> Budget!AtStart[w]]
  BY DEF Budget!AtStart, Budget!Probers
<1>4. Budget!AtStart \in [Budget!Probers -> Progress]
  BY <1>1, <1>2, <1>3
<1>5. \A w \in Budget!Probers : ~Budget!AtStart[w].real
  BY <1>1, <1>2, <1>3
<1> QED BY <1>1, <1>3, <1>4, <1>5 DEF Budget!NoFigures, Budget!Never, Budget!Unknown

LEMMA InitFigures ==
  Budget!Init => FiguresInv
<1>1. ASSUME Budget!Init PROVE now \in Nat /\ account \in [left : Int, online : BOOLEAN]
  BY <1>1 DEF Budget!Init
<1> QED BY <1>1, AtStartFigures DEF Budget!Init, FiguresInv, FiguresTyped, Recent

\* Where a prober goes; the other one stays.
LEMMA ProbeGoes ==
  ASSUME FiguresTyped, NEW w \in Budget!Probers, NEW r \in Progress, probe' = [probe EXCEPT ![w] = r]
  PROVE  /\ probe' \in [Budget!Probers -> Progress] /\ probe'[w] = r
         /\ \A v \in Budget!Probers \ {w} : probe'[v] = probe[v]
BY DEF FiguresTyped

LEMMA ChecksFigures ==
  ASSUME FiguresInv, NEW w \in Budget!Probers, Budget!Checks(w)
  PROVE  FiguresInv'
<1>1. PICK pc \in {"fetch", "keep"} : probe' = [probe EXCEPT ![w].pc = pc]
  BY DEF Budget!Checks
<1>2. probe[w] \in Progress /\ probe[w].pc = "check"
  BY DEF FiguresInv, FiguresTyped, Budget!Checks
<1>3. [probe[w] EXCEPT !.pc = pc] \in Progress /\ [probe[w] EXCEPT !.pc = pc].pc = pc
  BY <1>2 DEF Progress
<1>4. /\ probe' \in [Budget!Probers -> Progress] /\ probe'[w].pc = pc
      /\ \A v \in Budget!Probers \ {w} : probe'[v] = probe[v]
  BY <1>1, <1>3, ProbeGoes DEF FiguresInv
<1>5. cache' \in [attempt : Int, good : Int, session : Int]
  BY DEF Budget!Checks, FiguresInv, FiguresTyped
<1> QED BY <1>2, <1>4, <1>5 DEF Budget!Checks, Budget!accounts, FiguresInv, FiguresTyped, Recent, Budget!Probers

LEMMA FetchesFigures ==
  ASSUME FiguresInv, NEW w \in Budget!Probers, Budget!Fetches(w)
  PROVE  FiguresInv'
<1>1. probe[w] \in Progress /\ probe[w].pc = "fetch" /\ probe' = [probe EXCEPT ![w].pc = "keep"]
  BY DEF FiguresInv, FiguresTyped, Budget!Fetches
<1>2. [probe[w] EXCEPT !.pc = "keep"] \in Progress /\ [probe[w] EXCEPT !.pc = "keep"].pc = "keep"
  BY <1>1 DEF Progress
<1>3. /\ probe' \in [Budget!Probers -> Progress] /\ probe'[w].pc = "keep"
      /\ \A v \in Budget!Probers \ {w} : probe'[v] = probe[v]
  BY <1>1, <1>2, ProbeGoes DEF FiguresInv
<1>4. cache' \in [attempt : Int, good : Int, session : Int]
  <2>1. now \in Int /\ account.left \in Int /\ cache \in [attempt : Int, good : Int, session : Int]
    BY DEF FiguresInv, FiguresTyped
  <2>2. cache' = cache \/ cache' = [cache EXCEPT !.good = now, !.session = account.left]
    BY DEF Budget!Fetches
  <2> QED BY <2>1, <2>2
<1> QED BY <1>1, <1>3, <1>4 DEF Budget!Fetches, Budget!accounts, FiguresInv, FiguresTyped, Recent, Budget!Probers

\* What is stale beyond trust is not kept.
LEMMA KeepsFigures ==
  ASSUME FiguresInv, NEW w \in Budget!Probers, Budget!Keeps(w)
  PROVE  FiguresInv'
<1>1. cache' \in [attempt : Int, good : Int, session : Int] /\ cache'.good = cache.good
      /\ (cache'.session # Budget!Unknown => cache' = cache /\ now - cache.good <= Keep)
  BY MachineConstants DEF Budget!Keeps, Budget!Stale, Budget!Unknown, FiguresInv, FiguresTyped
<1>2. PICK r \in Progress : /\ probe' = [probe EXCEPT ![w] = r] /\ r.pc = "done"
                            /\ r.real => now - r.good <= Keep
  <2>1. PICK guess \in Budget!Figures :
          probe' = [probe EXCEPT ![w] =
            IF cache'.session # Budget!Unknown THEN [pc |-> "done", left |-> cache'.session, real |-> TRUE, good |-> cache.good]
            ELSE [pc |-> "done", left |-> guess, real |-> FALSE, good |-> Budget!Never]]
    BY DEF Budget!Keeps
  <2>2. CASE cache'.session # Budget!Unknown
    <3> DEFINE r == [pc |-> "done", left |-> cache'.session, real |-> TRUE, good |-> cache.good]
    <3>1. r \in Progress
      BY <1>1 DEF Progress
    <3> QED BY <1>1, <2>1, <2>2, <3>1
  <2>3. CASE cache'.session = Budget!Unknown
    <3> DEFINE r == [pc |-> "done", left |-> guess, real |-> FALSE, good |-> Budget!Never]
    <3>1. r \in Progress
      BY DEF Progress, Budget!Figures, Budget!Never
    <3> QED BY <2>1, <2>3, <3>1
  <2> QED BY <2>2, <2>3
<1>3. /\ probe' \in [Budget!Probers -> Progress] /\ probe'[w] = r
      /\ \A v \in Budget!Probers \ {w} : probe'[v] = probe[v]
  <2>1. probe' = [probe EXCEPT ![w] = r]
    BY <1>2
  <2> QED BY <2>1, ProbeGoes DEF FiguresInv
<1>4. probe[w].pc = "keep" /\ UNCHANGED <<now, account, node, refreshed>>
  BY DEF Budget!Keeps
<1> QED BY <1>1, <1>2, <1>3, <1>4 DEF FiguresInv, FiguresTyped, Recent, Budget!Probers

LEMMA AdoptsFigures ==
  ASSUME FiguresInv, NEW w \in Budget!Probers, Budget!Adopts(w)
  PROVE  FiguresInv'
<1>1. Budget!NoProbe \in Progress /\ Budget!NoProbe.pc = "idle"
  BY DEF Budget!NoProbe, Budget!Never, Progress
<1>2. /\ probe' \in [Budget!Probers -> Progress] /\ probe'[w].pc = "idle"
      /\ \A v \in Budget!Probers \ {w} : probe'[v] = probe[v]
  BY <1>1, ProbeGoes DEF Budget!Adopts, FiguresInv
<1>3. /\ probe[w] \in Progress /\ probe[w].pc = "done"
      /\ node' = [left |-> probe[w].left, real |-> probe[w].real, good |-> probe[w].good]
  BY DEF Budget!Adopts, FiguresInv, FiguresTyped
<1>4. node' \in [left : Int, real : BOOLEAN, good : Int]
      /\ (node'.real => now - node'.good <= Keep)
  BY <1>3 DEF Progress, FiguresInv, Recent
<1>5. refreshed' \in Int /\ (refreshed' = now \/ refreshed' = refreshed)
      /\ (w = "start" => refreshed' = now) /\ (w = "loop" => refreshed = now)
  BY <1>3 DEF Budget!Adopts, FiguresInv, FiguresTyped, Recent
<1>6. UNCHANGED <<now, account, cache>>
  BY DEF Budget!Adopts
<1> QED BY <1>2, <1>3, <1>4, <1>5, <1>6 DEF FiguresInv, FiguresTyped, Recent, Budget!Probers

LEMMA LoopFigures ==
  ASSUME FiguresInv, Budget!Loop
  PROVE  FiguresInv'
<1>1. "loop" \in Budget!Probers /\ probe["loop"] \in Progress /\ UNCHANGED <<now, account, cache, node>>
  BY DEF Budget!Loop, Budget!Probers, FiguresInv, FiguresTyped
<1>2. CASE Budget!Due
  <2>1. [probe["loop"] EXCEPT !.pc = "check"] \in Progress /\ [probe["loop"] EXCEPT !.pc = "check"].pc = "check"
    BY <1>1 DEF Progress
  <2>2. probe' = [probe EXCEPT !["loop"].pc = "check"] /\ refreshed' = now
    BY <1>2 DEF Budget!Loop
  <2>3. /\ probe' \in [Budget!Probers -> Progress] /\ probe'["loop"].pc = "check"
        /\ \A v \in Budget!Probers \ {"loop"} : probe'[v] = probe[v]
    BY <1>1, <2>1, <2>2, ProbeGoes DEF FiguresInv
  <2> QED BY <1>1, <2>2, <2>3 DEF FiguresInv, FiguresTyped, Recent
<1>3. CASE ~Budget!Due
  BY <1>1, <1>3 DEF Budget!Loop, FiguresInv, FiguresTyped, Recent
<1> QED BY <1>2, <1>3

LEMMA NextFigures ==
  ASSUME FiguresInv, [Budget!Next]_(Budget!vars)
  PROVE  FiguresInv'
<1>1. CASE Budget!Elapse
  BY <1>1 DEF Budget!Elapse, Budget!figures, Budget!Running, Budget!Probers, FiguresInv, FiguresTyped, Recent
<1>2. ASSUME NEW left \in Budget!Figures, NEW online \in BOOLEAN, Budget!AccountChanges(left, online)
      PROVE  FiguresInv'
  BY <1>2 DEF Budget!AccountChanges, Budget!Figures, FiguresInv, FiguresTyped, Recent
<1>3. CASE Budget!Restart
  BY <1>3, AtStartFigures DEF Budget!Restart, FiguresInv, FiguresTyped, Recent
<1>4. CASE Budget!Books \/ (\E used \in 0..MaxJobs : Budget!Sets(used)) \/ UNCHANGED Budget!vars
  <2>1. UNCHANGED <<now, Budget!figures>>
    BY <1>4 DEF Budget!Books, Budget!Sets, Budget!vars
  <2> QED BY <2>1 DEF Budget!figures, FiguresInv, FiguresTyped, Recent
<1> QED BY <1>1, <1>2, <1>3, <1>4, LoopFigures, ChecksFigures, FetchesFigures, KeepsFigures, AdoptsFigures
        DEF Budget!Next

\* A node that goes by the account's figure, while it refreshes, read it no
\* longer ago than Keep and the time of a refresh (usage.windows, _refresh_tokens).
THEOREM BudgetRealIsFresh ==
  Budget!Spec => []RealIsFresh
<1>1. FiguresInv => RealIsFresh
  <2>1. SUFFICES ASSUME FiguresInv, node.real, Budget!Running = {}, now - refreshed <= Every
                 PROVE  now - node.good <= Keep + Every
    BY DEF RealIsFresh, Budget!RealIsFresh
  <2>2. probe["loop"].pc = "idle"
    BY <2>1 DEF Budget!Running, Budget!Probers
  <2> QED BY <2>1, <2>2, MachineConstants DEF FiguresInv, FiguresTyped, Recent
<1> QED BY <1>1, InitFigures, NextFigures, PTL DEF Budget!Spec

----------------------------------------------------------------------------
(* The ledger (Quota) *)

Ledgers == [used : Nat, start : Nat]

\* What a ledger counts, of the jobs and the edit there were.
Counted(l, jobs) == {t \in jobs : t >= l.start}
Edited(l, e) == IF e.at >= l.start THEN e.used ELSE 0

\* The one in memory and the one on disk are not older than the last edit, which
\* began a window of its own.
Accounts(l, time, jobs, e) ==
  /\ l \in Ledgers /\ e.at <= l.start /\ l.start <= time
  /\ l.used = Cardinality(Counted(l, jobs)) + Edited(l, e)
  /\ Span > 0 => \A t \in Counted(l, jobs) : t < l.start + Span

LedgerInv ==
  /\ now \in Nat /\ booked \in SUBSET (0..now)
  /\ edit \in [used : Nat, at : Nat]
  /\ Accounts(ledger, now, booked, edit) /\ Accounts(saved, now, booked, edit)

LEMMA BookedFinite ==
  ASSUME NEW time \in Nat, NEW S \in SUBSET (0..time)
  PROVE  IsFiniteSet(S) /\ Cardinality(S) \in Nat
<1>1. IsFiniteSet(0..time)
  BY FS_Interval
<1> QED BY <1>1, FS_Subset, FS_CardinalityType

Rolls(l, time) == Span > 0 /\ time - l.start >= Span

\* A window that begins now counts nothing yet.
LEMMA RollKept ==
  ASSUME NEW time \in Nat, NEW jobs \in SUBSET (0..time), NEW e \in [used : Nat, at : Nat],
         NEW l \in Ledgers, Accounts(l, time, jobs, e),
         NEW k, k = IF Rolls(l, time) THEN [used |-> 0, start |-> time] ELSE l
  PROVE  Accounts(k, time, jobs, e) /\ (Span > 0 => time < k.start + Span)
<1>1. /\ e.at <= l.start /\ l.start <= time /\ l.start \in Nat /\ e.at \in Nat
      /\ (Span > 0 => \A t \in jobs : t >= l.start => t < l.start + Span)
  BY DEF Accounts, Counted, Ledgers
<1>2. CASE Rolls(l, time)
  <2>1. k \in Ledgers /\ k.start = time /\ k.used = 0
    BY <1>2 DEF Ledgers
  <2>2. \A t \in jobs : t \in Nat /\ t < time
    <3>1. SUFFICES ASSUME NEW t \in jobs PROVE t < time
      OBVIOUS
    <3>2. t \in Nat /\ Span \in Int /\ Span > 0 /\ time - l.start >= Span
      BY <1>2, MachineConstants DEF Rolls
    <3> QED BY <1>1, <3>2
  <2>3. e.at < time /\ Span \in Int /\ Span > 0
    BY <1>1, <1>2, MachineConstants DEF Rolls
  <2>4. Counted(k, jobs) = {}
    <3>1. SUFFICES ASSUME NEW t \in jobs, t >= k.start PROVE FALSE
      BY DEF Counted
    <3>2. t \in Nat /\ t < time /\ t >= time /\ time \in Nat
      BY <2>1, <2>2, <3>1
    <3> QED BY <3>2
  <2>5. Cardinality(Counted(k, jobs)) = 0
    BY <2>4, FS_EmptySet
  <2>6. Edited(k, e) = 0
    BY <1>1, <2>1, <2>3 DEF Edited
  <2> QED BY <2>1, <2>3, <2>4, <2>5, <2>6 DEF Accounts
<1>3. CASE ~Rolls(l, time)
  <2>1. k = l
    BY <1>3
  <2> QED BY <1>1, <1>3, <2>1, MachineConstants DEF Rolls
<1> QED BY <1>2, <1>3

LEMMA BookKept ==
  ASSUME NEW time \in Nat, NEW jobs \in SUBSET (0..time), NEW e \in [used : Nat, at : Nat],
         NEW l \in Ledgers, Accounts(l, time, jobs, e), time \notin jobs,
         Span > 0 => time < l.start + Span,
         NEW k, k = [l EXCEPT !.used = @ + 1]
  PROVE  Accounts(k, time, jobs \cup {time}, e)
<1>1. k \in Ledgers /\ k.start = l.start /\ k.used = l.used + 1 /\ l.start \in Nat /\ l.start <= time
  BY DEF Ledgers, Accounts
<1>2. Counted(k, jobs \cup {time}) = Counted(l, jobs) \cup {time} /\ time \notin Counted(l, jobs)
  BY <1>1 DEF Counted
<1>3. IsFiniteSet(Counted(l, jobs)) /\ Cardinality(Counted(l, jobs)) \in Nat
  BY BookedFinite DEF Counted
<1>4. Cardinality(Counted(k, jobs \cup {time})) = Cardinality(Counted(l, jobs)) + 1
  BY <1>2, <1>3, FS_AddElement
<1>5. Edited(k, e) = Edited(l, e) /\ Edited(l, e) \in Int
  BY <1>1 DEF Edited
<1>6. l.used = Cardinality(Counted(l, jobs)) + Edited(l, e) /\ e.at <= l.start
  BY DEF Accounts
<1>7. k.used = Cardinality(Counted(k, jobs \cup {time})) + Edited(k, e)
  BY <1>1, <1>3, <1>4, <1>5, <1>6
<1>8. Span > 0 => \A t \in Counted(k, jobs \cup {time}) : t < k.start + Span
  BY <1>1, <1>2 DEF Accounts
<1> QED BY <1>1, <1>6, <1>7, <1>8 DEF Accounts

LEMMA DecayedRolls ==
  ASSUME NEW l
  PROVE  Budget!Decayed(l) = IF Rolls(l, now) THEN [used |-> 0, start |-> now] ELSE l
BY DEF Budget!Decayed, Rolls

LEMMA BooksLedger ==
  ASSUME LedgerInv, Budget!Books
  PROVE  LedgerInv'
<1>1. PICK old : old = Budget!Decayed(ledger)
  OBVIOUS
<1>2. /\ now \in Nat /\ booked \in SUBSET (0..now) /\ edit \in [used : Nat, at : Nat]
      /\ ledger \in Ledgers /\ Accounts(ledger, now, booked, edit) /\ now \notin booked
  BY DEF LedgerInv, Accounts, Budget!Books
<1>3. Accounts(old, now, booked, edit) /\ (Span > 0 => now < old.start + Span) /\ old \in Ledgers
  BY <1>1, <1>2, DecayedRolls, RollKept DEF Accounts
<1>4. PICK new : new = [old EXCEPT !.used = @ + 1]
  OBVIOUS
<1>5. Accounts(new, now, booked \cup {now}, edit)
  BY <1>2, <1>3, <1>4, BookKept
<1>6. ledger' = new /\ saved' = new /\ now' = now /\ edit' = edit /\ booked' = booked \cup {now}
  BY <1>1, <1>4 DEF Budget!Books, Budget!Record
<1>7. booked' \in SUBSET (0..now')
  BY <1>2, <1>6
<1> QED BY <1>2, <1>5, <1>6, <1>7 DEF LedgerInv

LEMMA SetsLedger ==
  ASSUME LedgerInv, NEW used \in 0..MaxJobs, Budget!Sets(used)
  PROVE  LedgerInv'
<1>1. PICK new : new = [used |-> used, start |-> now]
  OBVIOUS
<1>2. PICK e : e = [used |-> used, at |-> now]
  OBVIOUS
<1>3. ledger' = new /\ saved' = new /\ now' = now /\ booked' = {} /\ edit' = e
  BY <1>1, <1>2 DEF Budget!Sets
<1>4. /\ used \in Nat /\ now \in Nat /\ new \in Ledgers /\ new.used = used /\ new.start = now
      /\ e \in [used : Nat, at : Nat] /\ e.used = used /\ e.at = now
  BY <1>1, <1>2, MachineConstants DEF LedgerInv, Ledgers
<1>5. Cardinality(Counted(new, {})) = 0 /\ Counted(new, {}) = {} /\ Edited(new, e) = used
  BY <1>4, FS_EmptySet DEF Counted, Edited
<1>6. Accounts(new, now, {}, e)
  BY <1>4, <1>5 DEF Accounts
<1> QED BY <1>3, <1>4, <1>6 DEF LedgerInv

\* What is kept is read later, rolled or not.
LEMMA AgesLedger ==
  ASSUME LedgerInv, ledger' \in {ledger, Budget!Decayed(ledger), Budget!Decayed(saved)},
         UNCHANGED <<saved, booked, edit>>, now' \in {now, now + 1},
         now' = now \/ ledger' = ledger
  PROVE  LedgerInv'
<1>1. /\ now \in Nat /\ booked \in SUBSET (0..now) /\ edit \in [used : Nat, at : Nat]
      /\ ledger \in Ledgers /\ saved \in Ledgers
      /\ Accounts(ledger, now, booked, edit) /\ Accounts(saved, now, booked, edit)
  BY DEF LedgerInv, Accounts
<1>2. Accounts(ledger', now, booked, edit)
  BY <1>1, DecayedRolls, RollKept
<1>3. ASSUME NEW l, Accounts(l, now, booked, edit)
      PROVE  Accounts(l, now', booked, edit)
  BY <1>1, <1>3 DEF Accounts, Ledgers
<1>4. Accounts(ledger', now', booked, edit) /\ Accounts(saved, now', booked, edit)
  BY <1>1, <1>2, <1>3
<1>5. now' \in Nat /\ booked \in SUBSET (0..now')
  BY <1>1
<1> QED BY <1>1, <1>4, <1>5 DEF LedgerInv

LEMMA NextLedger ==
  ASSUME LedgerInv, [Budget!Next]_(Budget!vars)
  PROVE  LedgerInv'
<1>1. CASE Budget!Elapse \/ Budget!Loop \/ Budget!Restart \/ UNCHANGED Budget!vars
  BY <1>1, AgesLedger DEF Budget!Elapse, Budget!Loop, Budget!Restart, Budget!vars, Budget!accounts
<1>2. ASSUME NEW w \in Budget!Probers,
             Budget!Checks(w) \/ Budget!Fetches(w) \/ Budget!Keeps(w) \/ Budget!Adopts(w)
      PROVE  LedgerInv'
  BY <1>2, AgesLedger DEF Budget!Checks, Budget!Fetches, Budget!Keeps, Budget!Adopts, Budget!accounts
<1>3. ASSUME NEW left \in Budget!Figures, NEW online \in BOOLEAN, Budget!AccountChanges(left, online)
      PROVE  LedgerInv'
  BY <1>3, AgesLedger DEF Budget!AccountChanges, Budget!accounts
<1> QED BY <1>1, <1>2, <1>3, BooksLedger, SetsLedger DEF Budget!Next

\* What was booked in the current window is counted, once, over restarts and
\* rolls of the window, and nothing is booked to a window that is over
\* (stats.record, decayed, load).
THEOREM BudgetLedgerKept ==
  Budget!Spec => []LedgerKept
<1>1. Budget!Init => LedgerInv
  <2>1. SUFFICES ASSUME Budget!Init PROVE LedgerInv
    OBVIOUS
  <2>2. PICK l : l = [used |-> 0, start |-> 0]
    OBVIOUS
  <2>3. PICK e : e = [used |-> 0, at |-> 0]
    OBVIOUS
  <2>4. now = 0 /\ booked = {} /\ edit = e /\ ledger = l /\ saved = l
    BY <2>1, <2>2, <2>3 DEF Budget!Init
  <2>5. Counted(l, {}) = {} /\ Cardinality(Counted(l, {})) = 0
    BY FS_EmptySet DEF Counted
  <2>6. l \in Ledgers /\ l.used = 0 /\ l.start = 0 /\ e \in [used : Nat, at : Nat] /\ e.used = 0 /\ e.at = 0
    BY <2>2, <2>3 DEF Ledgers
  <2>7. Accounts(l, 0, {}, e)
    BY <2>5, <2>6 DEF Accounts, Edited
  <2> QED BY <2>4, <2>6, <2>7 DEF LedgerInv
<1>2. LedgerInv => LedgerKept
  <2>1. SUFFICES ASSUME LedgerInv PROVE Budget!LedgerKept
    BY DEF LedgerKept
  <2>2. /\ ledger.used = Cardinality({t \in booked : t >= ledger.start})
                         + (IF edit.at >= ledger.start THEN edit.used ELSE 0)
        /\ Span > 0 => \A t \in {s \in booked : s >= ledger.start} : t < ledger.start + Span
    BY <2>1 DEF LedgerInv, Accounts, Counted, Edited
  <2>3. Budget!Cardinality({t \in booked : t >= ledger.start}) = Cardinality({t \in booked : t >= ledger.start})
    BY DEF Budget!Cardinality, Cardinality
  <2> QED BY <2>2, <2>3 DEF Budget!LedgerKept
<1> QED BY <1>1, <1>2, NextLedger, PTL DEF Budget!Spec
----------------------------------------------------------------------------
(* The panes that the tray watches *)

\* The SMT backend knows nothing of powers: a set of n elements has 2^n subsets.
LEMMA PowerSets == ASSUME NEW n \in Nat PROVE IsFiniteSet(SUBSET (1..n)) /\ Cardinality(SUBSET (1..n)) = 2^n
<1>1. IsFiniteSet(1..n) /\ Cardinality(1..n) = n
  BY FS_Interval
<1> QED BY <1>1, FS_SUBSET

LEMMA PowerType == ASSUME NEW n \in Nat PROVE 2^n \in Nat
BY PowerSets, FS_CardinalityType

\* The subsets with n + 1 are as many as those without.
LEMMA PowerDoubles == ASSUME NEW n \in Nat PROVE 2^(n + 1) = 2 * 2^n
<1> DEFINE Less == SUBSET (1..n)
           All == SUBSET (1..(n + 1))
           More == All \ Less
           f == [s \in Less |-> s \cup {n + 1}]
<1>1. IsFiniteSet(Less) /\ Cardinality(Less) = 2^n /\ IsFiniteSet(All) /\ Cardinality(All) = 2^(n + 1)
  BY PowerSets
<1>2. ExistsBijection(Less, More)
  <2>1. f \in Injection(Less, More)
    <3>1. \A s \in Less : n + 1 \notin s /\ s \cup {n + 1} \in More
      OBVIOUS
    <3>2. \A s, t \in Less : s \cup {n + 1} = t \cup {n + 1} => s = t
      BY <3>1
    <3> QED BY <3>1, <3>2 DEF Injection, IsInjective
  <2>2. \A t \in More : \E s \in Less : f[s] = t
    <3> SUFFICES ASSUME NEW t \in More PROVE \E s \in Less : f[s] = t
      OBVIOUS
    <3>1. n + 1 \in t
      BY SMT
    <3>2. t \ {n + 1} \in Less
      BY SMT
    <3>3. f[t \ {n + 1}] = t
      BY <3>1, <3>2
    <3> QED BY <3>2, <3>3
  <2>3. f \in Bijection(Less, More)
    BY <2>1, <2>2 DEF Injection, Surjection, Bijection
  <2> QED BY <2>3 DEF ExistsBijection
<1>3. IsFiniteSet(More) /\ Cardinality(More) = 2^n
  BY <1>1, <1>2, FS_Bijection
<1>4. All = Less \cup More /\ Less \cap More = {}
  OBVIOUS
<1>5. Cardinality(All) = Cardinality(Less) + Cardinality(More) - Cardinality({})
  <2>1. Cardinality(Less \cup More) = Cardinality(Less) + Cardinality(More) - Cardinality(Less \cap More)
    BY <1>1, <1>3, FS_Union
  <2> QED BY <1>4, <2>1
<1> QED BY <1>1, <1>3, <1>5, FS_EmptySet, PowerType

\* By the least n that would not be less.
LEMMA PowerGrows == ASSUME NEW m \in Nat PROVE m < 2^m
<1> DEFINE T == {n \in Nat : ~(n < 2^n)}
<1> SUFFICES ASSUME ~(m < 2^m) PROVE FALSE
  OBVIOUS
<1>1. \E x \in T : \A y \in T : ~(<<y, x>> \in OpToRel(<, Nat))
  BY T # {}, T \subseteq Nat, WFMin, NatLessThanWellFounded
<1>2. PICK x \in T : \A y \in T : ~(y < x)
  BY <1>1 DEF OpToRel
<1>3. x \in Nat /\ ~(x < 2^x) /\ x # 0
  <2>1. ASSUME x = 0 PROVE 2^x = 1
    BY <2>1
  <2> QED BY <1>2, <2>1
<1>4. x - 1 \in Nat /\ x - 1 < 2^(x - 1) /\ 2^(x - 1) \in Nat
  BY <1>2, <1>3, PowerType
<1>5. 2^x = 2 * 2^(x - 1)
  BY <1>4, PowerDoubles, (x - 1) + 1 = x
<1> QED BY <1>3, <1>4, <1>5

----------------------------------------------------------------------------
Texts == Watch!Errors \cup {"works", "quota", "gone"}
Wait == [wait : 0..MaxBackoff, interval : 0..MaxBackoff]

PanesTyped ==
  /\ screen \in [Pane -> Texts]
  /\ poll \in [on : BOOLEAN, tail : [Pane -> Texts], left : SUBSET Pane]
  /\ seen \in [Pane -> Watch!Errors \cup {"none"}]
  /\ backoff \in [Pane -> Wait] /\ last \in [Pane -> Texts]
  /\ count \in [Pane -> 0..MaxBackoff] /\ since \in [Pane -> 0..MaxBackoff]

\* A pane that the scan has yet to judge, or has not captured, is remembered
\* with the error of the scan before, or with none; one that it has judged and
\* that shows an error, with that error.
Remembered ==
  \A p \in Pane :
    /\ p \in poll.left => poll.on /\ poll.tail[p] # "gone"
    /\ (~poll.on \/ p \in poll.left \/ poll.tail[p] = "gone") => seen[p] \in {"none", last[p]}
    /\ (poll.on /\ p \notin poll.left /\ poll.tail[p] \in Watch!Errors) => seen[p] = poll.tail[p]
    /\ (poll.on /\ p \notin poll.left /\ poll.tail[p] \notin Watch!Errors) => seen[p] \in {"none", last[p]}

\* The interval of a pane is what its nudges call for, and what is left of it
\* is at least what has not passed since the last of them.
Waiting(b, c, t) == b.interval = Watch!Due(c) /\ t + b.wait >= b.interval
Waits == \A p \in Pane : Waiting(backoff[p], count[p], since[p])

PanesInv == PanesTyped /\ Remembered /\ Waits

\* One more nudge doubles the interval, up to the longest.
LEMMA DueNext ==
  ASSUME NEW c \in 0..MaxBackoff
  PROVE  /\ Watch!Due(c) \in 0..MaxBackoff
         /\ Watch!NextBackoff(Watch!Due(c)) = Watch!Due(Watch!AtMost(c + 1, MaxBackoff))
<1>1. MaxBackoff \in Nat \ {0}
  BY MachineConstants
<1>2. CASE c = 0
  <2>1. 2^(1 - 1) = 1
    OBVIOUS
  <2>2. Watch!AtMost(c + 1, MaxBackoff) = 1 /\ Watch!Due(c) = 0 /\ Watch!NextBackoff(0) = 1
    BY <1>1, <1>2 DEF Watch!AtMost, Watch!Due, Watch!NextBackoff
  <2>3. Watch!Due(1) = Watch!AtMost(2^(1 - 1), MaxBackoff)
    BY DEF Watch!Due
  <2>4. Watch!AtMost(1, MaxBackoff) = 1
    BY <1>1 DEF Watch!AtMost
  <2> QED BY <1>1, <2>1, <2>2, <2>3, <2>4
<1>3. CASE c # 0
  <2> DEFINE pow == 2^(c - 1)
             due == IF pow < MaxBackoff THEN pow ELSE MaxBackoff
  <2>1. c - 1 \in Nat /\ pow \in Nat /\ c - 1 < pow
    BY <1>3, PowerType, PowerGrows
  <2>2. 2^c = 2 * pow
    BY <2>1, PowerDoubles, (c - 1) + 1 = c
  <2>3. Watch!Due(c) = due
    BY <1>3 DEF Watch!Due, Watch!AtMost
  <2>4. due \in 1..MaxBackoff
    BY <1>1, <2>1
  <2>5. Watch!NextBackoff(due) = IF 2 * due < MaxBackoff THEN 2 * due ELSE MaxBackoff
    BY <2>4 DEF Watch!NextBackoff, Watch!AtMost
  <2>6. CASE c < MaxBackoff
    <3>1. Watch!AtMost(c + 1, MaxBackoff) = c + 1
      BY <1>1, <2>6 DEF Watch!AtMost
    <3>2. Watch!Due(c + 1) = IF 2^c < MaxBackoff THEN 2^c ELSE MaxBackoff
      <4>1. 2^((c + 1) - 1) = 2^c
        BY (c + 1) - 1 = c
      <4>2. Watch!Due(c + 1) = Watch!AtMost(2^((c + 1) - 1), MaxBackoff)
        BY DEF Watch!Due
      <4> QED BY <4>1, <4>2 DEF Watch!AtMost
    <3> HIDE DEF pow
    <3> QED BY <1>1, <2>1, <2>2, <2>3, <2>4, <2>5, <3>1, <3>2
  <2>7. CASE c = MaxBackoff
    <3>1. Watch!AtMost(c + 1, MaxBackoff) = c
      BY <1>1, <2>7 DEF Watch!AtMost
    <3> HIDE DEF pow
    <3> QED BY <1>1, <2>1, <2>3, <2>4, <2>5, <2>7, <3>1
  <2> QED BY <1>1, <2>6, <2>7
<1> QED BY <1>2, <1>3

LEMMA InitPanes == Watch!Init => PanesInv
<1> SUFFICES ASSUME Watch!Init PROVE PanesInv
  OBVIOUS
<1>1. MaxBackoff \in Nat \ {0}
  BY MachineConstants
<1>2. PanesTyped
  BY <1>1 DEF Watch!Init, PanesTyped, Texts, Wait, Watch!Idle, Watch!None, Watch!Errors
<1>3. Remembered
  BY DEF Watch!Init, Remembered, Watch!Idle
<1>4. Waits
  BY <1>1 DEF Watch!Init, Waits, Waiting, Watch!None, Watch!Due
<1> QED BY <1>2, <1>3, <1>4 DEF PanesInv

LEMMA JudgedPanes ==
  ASSUME PanesInv, NEW p \in Pane, Watch!Judged(p)
  PROVE  /\ Remembered' /\ UNCHANGED last
         /\ poll' \in [on : BOOLEAN, tail : [Pane -> Texts], left : SUBSET Pane]
         /\ seen' \in [Pane -> Watch!Errors \cup {"none"}]
<1>1. /\ poll' = [poll EXCEPT !.left = @ \ {p}] /\ last' = last /\ p \in poll.left
      /\ seen' = [seen EXCEPT ![p] = IF poll.tail[p] \in Watch!Errors THEN poll.tail[p] ELSE @]
  BY DEF Watch!Judged, Watch!LooksLikeApiError
<1>2. /\ poll'.on = poll.on /\ poll'.tail = poll.tail /\ poll'.left = poll.left \ {p}
      /\ poll' \in [on : BOOLEAN, tail : [Pane -> Texts], left : SUBSET Pane]
  BY <1>1 DEF PanesInv, PanesTyped
<1>3. \A q \in Pane : seen'[q] = IF q = p /\ poll.tail[p] \in Watch!Errors THEN poll.tail[p] ELSE seen[q]
  BY <1>1 DEF PanesInv, PanesTyped
<1>4. Remembered'
  BY <1>1, <1>2, <1>3 DEF PanesInv, Remembered
<1>5. seen' \in [Pane -> Watch!Errors \cup {"none"}]
  BY <1>1 DEF PanesInv, PanesTyped
<1> QED BY <1>1, <1>2, <1>4, <1>5

LEMMA NudgesPanes ==
  ASSUME PanesInv, NEW p \in Pane, Watch!Nudges(p)
  PROVE  /\ PanesInv' /\ last[p] = poll.tail[p] /\ since[p] >= Watch!Due(count[p])
         /\ \A q \in Pane \ {p} : since'[q] = since[q]
<1> DEFINE next == Watch!NextBackoff(backoff[p].interval)
<1>1. /\ Watch!Judged(p) /\ poll.tail[p] \in Watch!Errors /\ seen[p] = poll.tail[p] /\ backoff[p].wait = 0
      /\ backoff' = [backoff EXCEPT ![p] = [wait |-> next, interval |-> next]]
      /\ \E s \in Watch!Screens : screen' = [screen EXCEPT ![p] = s]
      /\ count' = [count EXCEPT ![p] = Watch!AtMost(@ + 1, MaxBackoff)]
      /\ since' = [since EXCEPT ![p] = 0]
  BY DEF Watch!Nudges, Watch!IsConfirmedStall, Watch!LooksLikeApiError
<1>2. /\ MaxBackoff \in Nat \ {0} /\ count[p] \in 0..MaxBackoff /\ since[p] \in 0..MaxBackoff
      /\ backoff[p].interval = Watch!Due(count[p]) /\ since[p] + backoff[p].wait >= backoff[p].interval
  BY MachineConstants DEF PanesInv, PanesTyped, Waits, Waiting
<1>3. next = Watch!Due(Watch!AtMost(count[p] + 1, MaxBackoff)) /\ Watch!AtMost(count[p] + 1, MaxBackoff) \in 0..MaxBackoff
  BY <1>2, DueNext DEF Watch!AtMost
<1>4. next \in 0..MaxBackoff
  BY <1>3, DueNext
<1> HIDE DEF next
<1>5. PanesTyped'
  <2>1. screen' \in [Pane -> Texts]
    BY <1>1 DEF PanesInv, PanesTyped, Watch!Screens, Texts
  <2>2. backoff' \in [Pane -> Wait]
    BY <1>1, <1>4 DEF PanesInv, PanesTyped, Wait
  <2>3. count' \in [Pane -> 0..MaxBackoff] /\ since' \in [Pane -> 0..MaxBackoff]
    BY <1>1, <1>2, <1>3 DEF PanesInv, PanesTyped
  <2> QED BY <1>1, <2>1, <2>2, <2>3, JudgedPanes DEF PanesInv, PanesTyped
<1>6. Waits'
  <2> SUFFICES ASSUME NEW q \in Pane PROVE Waiting(backoff[q], count[q], since[q])'
    BY DEF Waits
  <2>1. CASE q = p
    <3>1. backoff'[p] = [wait |-> next, interval |-> next] /\ since'[p] = 0
          /\ count'[p] = Watch!AtMost(count[p] + 1, MaxBackoff)
      BY <1>1 DEF PanesInv, PanesTyped
    <3> QED BY <1>3, <1>4, <2>1, <3>1 DEF Waiting
  <2>2. CASE q # p
    <3>1. backoff'[q] = backoff[q] /\ since'[q] = since[q] /\ count'[q] = count[q]
      BY <1>1, <2>2 DEF PanesInv, PanesTyped
    <3> QED BY <3>1 DEF PanesInv, Waits, Waiting
  <2> QED BY <2>1, <2>2
<1>7. last[p] = poll.tail[p]
  <2>1. p \in poll.left
    BY <1>1 DEF Watch!Judged
  <2>2. seen[p] \in {"none", last[p]} /\ seen[p] # "none"
    BY <1>1, <2>1 DEF PanesInv, Remembered, Watch!Errors
  <2> QED BY <1>1, <2>2
<1>8. \A q \in Pane \ {p} : since'[q] = since[q]
  BY <1>1 DEF PanesInv, PanesTyped
<1> QED BY <1>1, <1>2, <1>5, <1>6, <1>7, <1>8, JudgedPanes DEF PanesInv

LEMMA ElapsePanes ==
  ASSUME PanesInv, Watch!Elapse
  PROVE  PanesInv' /\ \A p \in Pane : since'[p] >= since[p]
<1>1. MaxBackoff \in Nat \ {0} /\ UNCHANGED <<screen, poll, seen, last, count>>
  BY MachineConstants DEF Watch!Elapse
<1>2. ASSUME NEW p \in Pane
      PROVE  /\ backoff'[p] \in Wait /\ since'[p] \in 0..MaxBackoff /\ since'[p] >= since[p]
             /\ Waiting(backoff'[p], count[p], since'[p])
  <2> DEFINE left == IF backoff[p].wait = 0 THEN 0 ELSE backoff[p].wait - 1
  <2>1. /\ backoff[p] \in Wait /\ since[p] \in 0..MaxBackoff /\ Waiting(backoff[p], count[p], since[p])
        /\ since'[p] = IF since[p] + 1 < MaxBackoff THEN since[p] + 1 ELSE MaxBackoff
    BY DEF Watch!Elapse, PanesInv, PanesTyped, Watch!AtMost, Waits
  <2>2. /\ backoff[p].wait \in 0..MaxBackoff /\ backoff[p].interval \in 0..MaxBackoff
        /\ backoff[p].interval = Watch!Due(count[p])
        /\ since[p] + backoff[p].wait >= backoff[p].interval
    BY <2>1 DEF Wait, Waiting
  <2>3. backoff'[p] = [wait |-> left, interval |-> backoff[p].interval]
    BY <2>1 DEF Watch!Elapse, Wait
  <2>4. left \in 0..MaxBackoff /\ since'[p] \in 0..MaxBackoff /\ since'[p] >= since[p]
    BY <1>1, <2>1, <2>2
  <2>5. since'[p] + left >= backoff[p].interval
    <3>1. CASE since[p] + 1 < MaxBackoff
      BY <2>1, <2>2, <3>1
    <3>2. CASE ~(since[p] + 1 < MaxBackoff)
      <4>1. since'[p] = MaxBackoff
        BY <2>1, <3>2
      <4> HIDE DEF left
      <4> QED BY <1>1, <2>2, <2>4, <4>1
    <3> QED BY <3>1, <3>2
  <2> HIDE DEF left
  <2>6. backoff'[p] \in Wait /\ backoff'[p].wait = left /\ backoff'[p].interval = backoff[p].interval
    BY <2>2, <2>3, <2>4 DEF Wait
  <2> QED BY <2>2, <2>4, <2>5, <2>6 DEF Waiting
<1>3. backoff' \in [Pane -> Wait] /\ since' \in [Pane -> 0..MaxBackoff]
  <2>1. backoff' = [p \in Pane |-> backoff'[p]] /\ since' = [p \in Pane |-> since'[p]]
    BY DEF Watch!Elapse
  <2> QED BY <1>2, <2>1
<1> QED BY <1>1, <1>2, <1>3 DEF PanesInv, PanesTyped, Remembered, Waits

LEMMA ScanPanes ==
  ASSUME PanesInv, (\E captured \in SUBSET Pane : Watch!ScanBegins(captured)) \/ Watch!ScanEnds
  PROVE  PanesInv' /\ UNCHANGED since
<1>1. ASSUME NEW captured \in SUBSET Pane, Watch!ScanBegins(captured) PROVE PanesInv' /\ UNCHANGED since
  <2>1. /\ ~poll.on /\ \A p \in captured : screen[p] # "gone"
        /\ poll' = [on |-> TRUE, left |-> captured,
                     tail |-> [p \in Pane |-> IF p \in captured THEN screen[p] ELSE "gone"]]
        /\ UNCHANGED <<screen, seen, backoff, last, count, since>>
    BY <1>1 DEF Watch!ScanBegins
  <2>2. poll' \in [on : BOOLEAN, tail : [Pane -> Texts], left : SUBSET Pane]
    BY <2>1 DEF PanesInv, PanesTyped, Texts
  <2>3. Remembered'
    BY <2>1 DEF PanesInv, Remembered, Watch!Errors
  <2> QED BY <2>1, <2>2, <2>3 DEF PanesInv, PanesTyped, Waits
<1>2. ASSUME Watch!ScanEnds PROVE PanesInv' /\ UNCHANGED since
  <2>1. /\ poll.on /\ poll.left = {} /\ poll' = Watch!Idle /\ last' = poll.tail
        /\ backoff' = [p \in Pane |-> IF poll.tail[p] \in Watch!Errors THEN backoff[p] ELSE Watch!None]
        /\ seen' = [p \in Pane |-> IF poll.tail[p] \in Watch!Errors THEN seen[p] ELSE "none"]
        /\ count' = [p \in Pane |-> IF poll.tail[p] \in Watch!Errors THEN count[p] ELSE 0]
        /\ UNCHANGED <<screen, since>>
    BY <1>2 DEF Watch!ScanEnds, Watch!Kept, Watch!Erroring, Watch!LooksLikeApiError
  <2>2. MaxBackoff \in Nat \ {0} /\ Watch!None \in Wait
    BY MachineConstants DEF Watch!None, Wait
  <2>3. PanesTyped'
    BY <2>1, <2>2 DEF PanesInv, PanesTyped, Watch!Idle, Texts
  <2>4. Remembered'
    BY <2>1 DEF PanesInv, PanesTyped, Remembered, Watch!Idle
  <2>5. Waits'
    <3> SUFFICES ASSUME NEW p \in Pane PROVE Waiting(backoff[p], count[p], since[p])'
      BY DEF Waits
    <3>1. CASE poll.tail[p] \in Watch!Errors
      BY <2>1, <3>1 DEF PanesInv, Waits
    <3>2. CASE poll.tail[p] \notin Watch!Errors
      BY <2>1, <2>2, <3>2 DEF PanesInv, PanesTyped, Waiting, Watch!None, Watch!Due
    <3> QED BY <3>1, <3>2
  <2> QED BY <2>1, <2>3, <2>4, <2>5 DEF PanesInv
<1> QED BY <1>1, <1>2

\* What a step does to the panes' record, and to the time since their nudges.
LEMMA NextPanes ==
  ASSUME PanesInv, [Watch!Next]_(Watch!vars)
  PROVE  /\ PanesInv'
         /\ \A p \in Pane : since'[p] < since[p] => (last[p] = poll.tail[p] /\ since[p] >= Watch!Due(count[p]))
<1>0. \A p \in Pane : since[p] \in 0..MaxBackoff
  BY DEF PanesInv, PanesTyped
<1> DEFINE Same == PanesInv' /\ UNCHANGED since
<1>1. CASE UNCHANGED <<poll, seen, backoff, last, count, since>> /\ screen' \in [Pane -> Texts]
  BY <1>0, <1>1 DEF PanesInv, PanesTyped, Remembered, Waits
<1>2. CASE Watch!Toggle \/ UNCHANGED Watch!vars
  BY <1>1, <1>2 DEF Watch!Toggle, Watch!vars, Watch!watch, PanesInv, PanesTyped
<1>3. ASSUME NEW p \in Pane, NEW s \in Watch!Screens \cup {"gone"}, Watch!Prints(p, s) PROVE screen' \in [Pane -> Texts]
  BY <1>3 DEF Watch!Prints, PanesInv, PanesTyped, Watch!Screens, Texts
<1>4. CASE \E p \in Pane : \E s \in Watch!Screens \cup {"gone"} : Watch!Prints(p, s)
  BY <1>1, <1>3, <1>4 DEF Watch!Prints, Watch!watch
<1>5. ASSUME NEW p \in Pane, Watch!Passes(p) PROVE Same
  <2>1. Watch!Judged(p) /\ UNCHANGED <<screen, backoff, count, since>>
    BY <1>5 DEF Watch!Passes
  <2>2. PanesTyped'
    BY <2>1, JudgedPanes DEF PanesInv, PanesTyped
  <2> QED BY <2>1, <2>2, JudgedPanes DEF PanesInv, Waits
<1>6. CASE \E p \in Pane : Watch!Nudges(p)
  BY <1>0, <1>6, NudgesPanes
<1>7. CASE Watch!Elapse
  <2>1. \A p \in Pane : since'[p] \in 0..MaxBackoff
    BY <1>7, ElapsePanes DEF PanesInv, PanesTyped
  <2> QED BY <1>0, <1>7, <2>1, ElapsePanes
<1>8. CASE (\E captured \in SUBSET Pane : Watch!ScanBegins(captured)) \/ Watch!ScanEnds
  BY <1>0, <1>8, ScanPanes
<1> QED BY <1>0, <1>2, <1>4, <1>5, <1>6, <1>7, <1>8 DEF Watch!Next

\* A pane is nudged only if it showed the same error at the scan before, and
\* one that goes on erring no sooner than a cooldown, two, four later, up to
\* the longest (store.py:1060-1105).
THEOREM NudgesAreDue == Watch!Spec => NudgeIsDue
<1>1. PanesInv /\ [Watch!Next]_(Watch!vars) => PanesInv'
  BY NextPanes
<1>2. PanesInv /\ [Watch!Next]_(Watch!vars) =>
        [\A p \in Pane : since'[p] < since[p] => (last[p] = poll.tail[p] /\ since[p] >= Watch!Due(count[p]))]_(Watch!vars)
  BY NextPanes
<1> QED BY <1>1, <1>2, InitPanes, PTL DEF Watch!Spec, NudgeIsDue, Watch!NudgeIsDue
=============================================================================
