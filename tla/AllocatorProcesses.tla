-------------------------- MODULE AllocatorProcesses --------------------------
(***************************************************************************)
(* The processes around the device allocator: the daemons and MCP servers  *)
(* with the ban list, and the threads of the applet that install it or     *)
(* take it away.  In the code they meet only where an installed allocator  *)
(* is started, so each has variables of its own here.                      *)
(***************************************************************************)

CONSTANTS
  Daemon, Client, Login, DaemonFaults, MaxBanFaults,            \* of AllocatorDaemons
  Thread, SetupTraffic, MaxWrites, MaxSetupFaults, MaxStarts    \* of AllocatorSetup

VARIABLES daemon, socket, discovery, split, client, report, panel, banned, aside, lifted, unread, faults
around == <<daemon, socket, discovery, split, client, report, panel, banned, aside, lifted, unread, faults>>

VARIABLES claude, files, old, deps, running, done, job, code, settled, gap, failures, starts
setup == <<claude, files, old, deps, running, done, job, code, settled, gap, failures, starts>>

D == INSTANCE AllocatorDaemons WITH Faults <- DaemonFaults, MaxFaults <- MaxBanFaults
S == INSTANCE AllocatorSetup WITH
  Job <- Thread, Traffic <- SetupTraffic, MaxFaults <- MaxSetupFaults, daemon <- running, faults <- failures

\* AllocatorDaemons: daemons started together settle on one.
SoleDaemon == D!SoleDaemon

\* AllocatorDaemons: a ban that an agent was killed for is not lost by daemons
\* that come and go, or by a list that cannot be parsed.
BansKept == D!BansKept

\* AllocatorSetup: the settings of Claude Code survive the installers, but for
\* one that finds the file empty.
ConfigKept == S!ConfigKept

\* AllocatorSetup: what the user uninstalled is not put back.
ChoiceStands == S!ChoiceStands
=============================================================================
