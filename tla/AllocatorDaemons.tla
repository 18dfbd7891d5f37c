-------------------------- MODULE AllocatorDaemons --------------------------
(***************************************************************************)
(* The processes around the device allocator: MCP servers that start a     *)
(* daemon when none answers (mcp.js), daemons that take the socket over    *)
(* from one another or leave it (daemon.js from line 788, state.js), and   *)
(* the reports of prompt injections and their ban list (daemon.js from     *)
(* line 647).  What a serving daemon does with devices is DeviceAllocator. *)
(*                                                                         *)
(* Abstracted: a probe of the socket is one step, answered or not; a       *)
(* daemon answers unless it is down or blocked on its way out; evidence is *)
(* a stage of a report.  A change of banned.json is a read and a write:    *)
(* nothing comes between them in one daemon, but another daemon may.       *)
(***************************************************************************)
EXTENDS Integers, FiniteSets

CONSTANTS
  Daemon,      \* process ids of daemons, never used again
  Client,      \* agents, each with its MCP server
  Login,       \* authors that are reported
  Faults,      \* what may go wrong (a bound)
  MaxFaults    \* how often the list is damaged or misread, or a call slow (a bound)

VARIABLES
  daemon,      \* daemon -> where it is
  socket,      \* the daemon that bound daemon.sock, or 0
  discovery,   \* the daemon in daemon.json, or 0
  client,      \* client -> [pc, login]
  report,      \* client -> [stage, at, list]: its report, at a daemon
  panel,       \* [at, login, list]: an author being un-banned, at a daemon
  banned,      \* banned.json: [text, logins]
  aside,       \* logins in the copies of unreadable lists
  lifted,      \* logins un-banned from the panel
  unread,      \* a list was taken for empty, and no copy was kept
  split,       \* a daemon bound the socket while another served
  faults

processes == <<daemon, socket, discovery>>
bans == <<panel, banned, aside, lifted, unread, faults>>
vars == <<processes, split, client, report, bans>>

Off == [stage |-> "none", at |-> 0, list |-> {}]
NoEdit == [at |-> 0, login |-> CHOOSE l \in Login : TRUE, list |-> {}]
Absent == [text |-> "list", logins |-> {}]

Init ==
  /\ daemon = [p \in Daemon |-> "off"] /\ socket = 0 /\ discovery = 0
  /\ client = [c \in Client |-> [pc |-> "idle", login |-> CHOOSE l \in Login : TRUE]]
  /\ report = [c \in Client |-> Off] /\ panel = NoEdit
  /\ banned = Absent /\ aside = {} /\ lifted = {} /\ unread = FALSE /\ split = FALSE /\ faults = 0

Is(p, pcs) == p # 0 /\ daemon[p] \in pcs
Goto(p, pc) == daemon' = [daemon EXCEPT ![p] = pc]
Step(c, pc) == client' = [client EXCEPT ![c].pc = pc]

\* /health over the socket file: whoever bound it answers, if it serves.
Healthy == Is(socket, {"serve"})

Fault(kind) == kind \in Faults /\ faults < MaxFaults /\ faults' = faults + 1

----------------------------------------------------------------------------
(* A daemon takes the socket *)

\* start: a healthy daemon is left alone.
Probe(p) ==
  /\ Is(p, {"probe"}) /\ Goto(p, IF Healthy THEN "deferred" ELSE "listen")
  /\ UNCHANGED <<socket, discovery, split, client, report, bans>>

\* onListening: the daemon is found by its discovery file.
Bound(p) ==
  /\ socket' = p /\ discovery' = p /\ Goto(p, "serve")
  /\ split' = (split \/ \E q \in Daemon : Is(q, {"serve"}))

\* Variant: the path is unlinked before the first listen.
ListenUnlinking(p) ==
  /\ Is(p, {"listen"}) /\ Bound(p)
  /\ UNCHANGED <<client, report, bans>>

\* server.listen: EADDRINUSE if the path exists, whoever left it.
Listen(p) ==
  /\ Is(p, {"listen"})
  /\ IF socket = 0 THEN Bound(p) ELSE Goto(p, "taken") /\ UNCHANGED <<socket, discovery, split>>
  /\ UNCHANGED <<client, report, bans>>

\* The error handler probes again: a stale path is to be unlinked.
Taken(p) ==
  /\ Is(p, {"taken"}) /\ Goto(p, IF Healthy THEN "deferred" ELSE "unlink")
  /\ UNCHANGED <<socket, discovery, split, client, report, bans>>

Unlink(p) ==
  /\ Is(p, {"unlink"}) /\ socket' = 0 /\ Goto(p, "again")
  /\ UNCHANGED <<discovery, split, client, report, bans>>

\* The one retry; if the path is there once more, the daemon defers.
Again(p) ==
  /\ Is(p, {"again"})
  /\ IF socket = 0 THEN Bound(p) ELSE Goto(p, "deferred") /\ UNCHANGED <<socket, discovery, split>>
  /\ UNCHANGED <<client, report, bans>>

\* Daemon p is between the read and the write of banned.json.
Busy(p) == panel.at = p \/ \E c \in Client : report[c].at = p /\ report[c].stage = "write"

\* SIGTERM, handled as soon as listen was called: bye blocks on the devices it
\* shuts down, then unlinks the path and the discovery file, whosever they are.
Leave(p) ==
  /\ "leave" \in Faults /\ Is(p, {"taken", "unlink", "again", "serve"}) /\ ~Busy(p) /\ Goto(p, "leaving")
  /\ UNCHANGED <<socket, discovery, split, client, report, bans>>

\* What it was doing for its callers is over.
Lost(p) ==
  /\ report' = [c \in Client |-> IF report[c].at = p THEN Off ELSE report[c]]
  /\ panel' = IF panel.at = p THEN NoEdit ELSE panel

Bye(p) ==
  /\ Is(p, {"leaving"}) /\ Goto(p, "ended") /\ socket' = 0 /\ discovery' = 0 /\ Lost(p)
  /\ UNCHANGED <<split, client, banned, aside, lifted, unread, faults>>

Crash(p) ==
  /\ "crash" \in Faults /\ Is(p, {"probe", "listen", "taken", "unlink", "again", "serve", "leaving"})
  /\ Goto(p, "ended") /\ Lost(p)
  /\ UNCHANGED <<socket, discovery, split, client, banned, aside, lifted, unread, faults>>

----------------------------------------------------------------------------
(* The MCP server of an agent *)

\* daemonAlive: the pid on record runs and the socket file exists.
DaemonAlive == Is(discovery, {"serve", "leaving"}) /\ socket # 0

\* One report of a client at a time.
Calls(c, l) ==
  /\ client[c].pc = "idle" /\ report[c] = Off
  /\ client' = [client EXCEPT ![c] = [pc |-> IF DaemonAlive /\ Healthy THEN "send" ELSE "spawn", login |-> l]]
  /\ UNCHANGED <<processes, split, report, bans>>

\* ensureDaemon
SpawnDaemon(c, p) ==
  /\ client[c].pc = "spawn" /\ Is(p, {"off"}) /\ \A q \in Daemon : Is(q, {"off"}) => p <= q
  /\ Goto(p, "probe") /\ Step(c, "poll")
  /\ UNCHANGED <<socket, discovery, split, report, bans>>

\* Twelve seconds of polls.
Polls(c) ==
  /\ client[c].pc = "poll" /\ Step(c, IF Healthy THEN "send" ELSE "idle")
  /\ UNCHANGED <<processes, split, report, bans>>

\* callDaemon: a report begins, unless nobody answers.
Sends(c) ==
  /\ client[c].pc = "send"
  /\ IF Healthy
     THEN Step(c, "wait") /\ report' = [report EXCEPT ![c] = [Off EXCEPT !.stage = "evidence", !.at = socket]]
     ELSE Step(c, "idle") /\ report' = report
  /\ UNCHANGED <<processes, split, bans>>

\* The answer, or the end of the daemon or of the ninety seconds.
Answered(c) ==
  /\ client[c].pc = "wait" /\ report[c].stage = "done"
  /\ Step(c, "told") /\ report' = [report EXCEPT ![c] = Off]
  /\ UNCHANGED <<processes, split, bans>>

CallFails(c) ==
  /\ client[c].pc = "wait"
  /\ \/ report[c] = Off /\ faults' = faults
     \/ report[c].stage = "evidence" /\ Fault("slow")
  /\ Step(c, "idle")
  /\ UNCHANGED <<processes, split, report, panel, banned, aside, lifted, unread>>

\* scheduleAgentTermination: the agent that reported is killed.
Killed(c) ==
  /\ client[c].pc = "told" /\ Step(c, "killed")
  /\ UNCHANGED <<processes, split, report, bans>>

----------------------------------------------------------------------------
(* The ban list *)

\* handleReportInjection up to the lock.
Evidence(c) ==
  /\ report[c].stage = "evidence" /\ Is(report[c].at, {"serve"})
  /\ report' = [report EXCEPT ![c].stage = "lock"]
  /\ UNCHANGED <<processes, split, client, bans>>

\* Variant: a list that cannot be parsed counts as empty.
ReadBannedReset(list) ==
  \/ banned.text = "list" /\ list = banned.logins /\ UNCHANGED <<banned, aside, unread, faults>>
  \/ banned.text = "torn" /\ list = {} /\ banned' = Absent /\ UNCHANGED <<aside, unread, faults>>

\* readBanned: the list; or none, when the file cannot be parsed, which is then
\* moved aside.  But there is none either, and no copy, when the file cannot be
\* read at all or not be moved, or when what it holds is not a list.
ReadBanned(list) ==
  \/ banned.text = "list" /\ list = banned.logins /\ UNCHANGED <<banned, aside, unread, faults>>
  \/ /\ banned.text = "torn" /\ list = {}
     /\ aside' = aside \cup banned.logins /\ banned' = Absent /\ UNCHANGED <<unread, faults>>
  \/ Fault("misread") /\ list = {} /\ unread' = TRUE /\ UNCHANGED <<banned, aside>>

\* The change of a report begins, in the turn of its daemon ...
ReadsBans(c) ==
  /\ report[c].stage = "lock" /\ Is(report[c].at, {"serve"}) /\ ~Busy(report[c].at)
  /\ \E list \in SUBSET Login :
       ReadBanned(list) /\ report' = [report EXCEPT ![c].stage = "write", ![c].list = list]
  /\ UNCHANGED <<processes, split, client, panel, lifted>>

\* ... and ends: the author is on the list.
Ban(c) ==
  /\ report[c].stage = "write" /\ Is(report[c].at, {"serve"})
  /\ banned' = [text |-> "list", logins |-> report[c].list \cup {client[c].login}]
  /\ report' = [report EXCEPT ![c] = IF client[c].pc = "wait"
                                    THEN [Off EXCEPT !.stage = "done", !.at = report[c].at] ELSE Off]
  /\ UNCHANGED <<processes, split, client, panel, aside, lifted, unread, faults>>

\* handleUnban, for the panel; what is not listed is not written.
UnbanReads(l) ==
  /\ "unban" \in Faults /\ Healthy /\ ~Busy(socket) /\ panel = NoEdit /\ l \notin lifted
  /\ \E list \in SUBSET Login :
       /\ ReadBanned(list)
       /\ panel' = IF l \in list THEN [at |-> socket, login |-> l, list |-> list] ELSE NoEdit
  /\ UNCHANGED <<processes, split, client, report, lifted>>

UnbanWrites ==
  /\ Is(panel.at, {"serve"}) /\ panel' = NoEdit
  /\ banned' = [text |-> "list", logins |-> panel.list \ {panel.login}]
  /\ lifted' = lifted \cup {panel.login}
  /\ UNCHANGED <<processes, split, client, report, aside, unread, faults>>

\* The file is damaged by a torn write or the disk.
Tear ==
  /\ Fault("tear") /\ banned.text = "list" /\ banned' = [banned EXCEPT !.text = "torn"]
  /\ UNCHANGED <<processes, split, client, report, panel, aside, lifted, unread>>

----------------------------------------------------------------------------
Takes(p) == Probe(p) \/ Listen(p) \/ Taken(p) \/ Unlink(p) \/ Again(p)

Next ==
  \/ \E p \in Daemon : Takes(p) \/ Leave(p) \/ Bye(p) \/ Crash(p)
  \/ \E c \in Client : \/ Polls(c) \/ Sends(c) \/ Answered(c) \/ CallFails(c) \/ Killed(c)
                       \/ Evidence(c) \/ ReadsBans(c) \/ Ban(c)
                       \/ \E l \in Login : Calls(c, l)
                       \/ \E p \in Daemon : SpawnDaemon(c, p)
  \/ \E l \in Login : UnbanReads(l)
  \/ UnbanWrites \/ Tear

Spec == Init /\ [][Next]_vars

----------------------------------------------------------------------------
(* Properties *)

Sole == \A p, q \in Daemon : (Is(p, {"serve"}) /\ Is(q, {"serve"})) => p = q

\* Daemons that are started together settle on one, as long as none of them
\* has ended other than by deferring to another.
SoleDaemon == (\A p \in Daemon : daemon[p] \notin {"leaving", "ended"}) => Sole

\* "a pre-emptive unlink (which would clobber a live peer's socket and
\* split-brain the allocator)" (daemon.js:878-879): no two daemons serve.
NoSplitBrain == Sole

\* The authors that agents were told are banned, and killed for it, are banned
\* ever since, or in a copy of an unreadable list, or un-banned.
TellsTruth ==
  \A c \in Client : client[c].pc \in {"told", "killed"} =>
    client[c].login \in banned.logins \cup aside \cup lifted

\* Reports, un-bans, damaged files and daemons that come, go and die lose no ban
\* that an agent was killed for, as long as no daemon took over from one that
\* served, and every list it had was read, or else moved aside.
BansKept == (~split /\ ~unread) => TellsTruth

\* "Read the ban list, NEVER silently resetting it ... otherwise one bad read
\* plus one new ban wipes every ban" (daemon.js:715-717).
NoBanWiped == TellsTruth
=============================================================================
