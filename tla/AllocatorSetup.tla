---------------------------- MODULE AllocatorSetup ----------------------------
(***************************************************************************)
(* Installing the device allocator (device-allocator/src/install.js), as   *)
(* the applet drives it: once by itself, and from its settings             *)
(* (linux/diplomat_app/store.py, deviceallocator.py), each in a thread     *)
(* with an installer process of its own.  The installer and Claude Code    *)
(* both read ~/.claude.json and write it back.                             *)
(*                                                                         *)
(* Abstracted: of ~/.claude.json the two registrations and how far Claude  *)
(* Code's own settings have come; Claude Code writes it in place, while    *)
(* the installer renames a copy over it; CLAUDE.md is read and written in  *)
(* one step; the backup; the state that is moved from ~/.argent.           *)
(***************************************************************************)
EXTENDS Integers

CONSTANTS
  Job,         \* installer threads (a bound)
  Traffic,     \* what may go wrong (a bound)
  MaxWrites, MaxFaults, MaxStarts   \* of Claude Code, failures, installers (bounds)

VARIABLES
  claude,    \* ~/.claude.json: [text, ours, legacy, own: 0 once started over]
  files,     \* what is installed of the skill, the rule and the block in CLAUDE.md
  old,       \* the same, of the installation under the former name
  deps,      \* node_modules is there
  daemon,    \* the daemon runs
  done,      \* allocator_setup_done
  job,       \* job -> [kind, pc, seen, mine: its thread lives, alone: no other ran with it]
  code,      \* Claude Code: [pc, seen]
  settled,   \* an uninstallation of the user's ended alone, and whole
  gap,       \* an installer found the file empty, as Claude Code began to write it
  faults, starts

machine == <<claude, files, old, deps, daemon>>
vars == <<machine, done, job, code, settled, gap, faults, starts>>

Layers == {"skill", "rule", "md"}
Fresh == [text |-> "whole", ours |-> FALSE, legacy |-> FALSE, own |-> 1]
Nothing == [Fresh EXCEPT !.own = 0]
NoJob == [kind |-> "none", pc |-> "off", seen |-> Fresh, mine |-> FALSE, alone |-> FALSE]

Init ==
  /\ claude \in {Fresh, [Fresh EXCEPT !.legacy = TRUE]}
  /\ files = {} /\ old = IF claude.legacy THEN Layers ELSE {}
  /\ deps = FALSE /\ daemon = FALSE /\ done = FALSE
  /\ job = [j \in Job |-> NoJob] /\ code = [pc |-> "idle", seen |-> Fresh]
  /\ settled = FALSE /\ gap = FALSE /\ faults = 0 /\ starts = 0

Fault(kind) == kind \in Traffic /\ faults < MaxFaults /\ faults' = faults + 1
At(j, kinds, pc) == job[j].kind \in kinds /\ job[j].pc = pc
Goto(j, pc) == job' = [job EXCEPT ![j].pc = pc]
Installs == {"auto", "install"}
Running == {j \in Job : job[j].kind # "none"}

----------------------------------------------------------------------------
(* Claude Code rewrites its configuration *)

CodeReads ==
  /\ code.pc = "idle" /\ claude.text = "whole" /\ claude.own <= MaxWrites
  /\ code' = [pc |-> "read", seen |-> claude]
  /\ UNCHANGED <<machine, done, job, settled, gap, faults, starts>>

CodeWrites ==
  /\ code.pc = "read" /\ code' = [code EXCEPT !.pc = "write"]
  /\ claude' = [claude EXCEPT !.text = "empty"]
  /\ UNCHANGED <<files, old, deps, daemon, done, job, settled, gap, faults, starts>>

\* It goes on in the file it truncated, unless that was replaced.
CodeFlushes ==
  /\ code.pc = "write" /\ code' = [code EXCEPT !.pc = "flush"]
  /\ claude' = IF claude.text = "empty" THEN [claude EXCEPT !.text = "partial"] ELSE claude
  /\ UNCHANGED <<files, old, deps, daemon, done, job, settled, gap, faults, starts>>

CodeWritten ==
  /\ code.pc = "flush" /\ code' = [code EXCEPT !.pc = "idle"]
  /\ claude' = IF claude.text = "partial" THEN [code.seen EXCEPT !.own = IF @ = 0 THEN 0 ELSE @ + 1]
               ELSE claude
  /\ UNCHANGED <<files, old, deps, daemon, done, job, settled, gap, faults, starts>>

----------------------------------------------------------------------------
(* Threads of the applet *)

\* ensure_allocator_installed_async at the start; the buttons of the settings.
Begin(j, kind) ==
  /\ job[j] = NoJob /\ starts < MaxStarts /\ starts' = starts + 1
  /\ kind = "auto" => ~done
  /\ job' = [i \in Job |-> IF i # j THEN [job[i] EXCEPT !.alone = FALSE]
              ELSE [NoJob EXCEPT !.kind = kind, !.mine = TRUE, !.alone = Running = {},
                    !.pc = CASE kind = "auto" -> "check" [] kind = "install" -> "deps" [] OTHER -> "stop"]]
  /\ settled' = (settled /\ kind # "install")
  /\ UNCHANGED <<machine, done, code, gap, faults>>

Installed == claude.text = "whole" /\ claude.ours /\ files = Layers

Check(j) ==
  /\ At(j, {"auto"}, "check")
  /\ IF Installed THEN done' = (done \/ job[j].mine) /\ job' = [job EXCEPT ![j] = NoJob]
     ELSE Goto(j, "deps") /\ done' = done
  /\ UNCHANGED <<machine, code, settled, gap, faults, starts>>

\* ensure_deps, whose failure stops nothing.
EnsureDeps(j) ==
  /\ At(j, Installs, "deps") /\ Goto(j, "legacy")
  /\ \/ deps' = TRUE /\ faults' = faults
     \/ deps' = deps /\ Fault("npm")
  /\ UNCHANGED <<claude, files, old, daemon, done, code, settled, gap, starts>>

\* Variant: an uninstallation leaves the setup to be done.
SettledByInstall(j, ok) == job[j].kind # "uninstall" /\ (job[j].kind = "install" \/ ok)

\* What marks the setup done: the user's choice, or an installation that landed.
Settled(j, ok) == job[j].kind # "auto" \/ ok

\* The thread ends with the installer, or did so with the applet.
Ends(j, ok) ==
  /\ done' = (done \/ (job[j].mine /\ Settled(j, ok)))
  /\ settled' = (settled \/ (ok /\ job[j].kind = "uninstall" /\ job[j].mine /\ job[j].alone))
  /\ job' = [job EXCEPT ![j] = NoJob]

\* The applet ends, and its threads with it; npm and the installers go on.
Restart ==
  /\ Fault("restart")
  /\ job' = [j \in Job |-> IF job[j].pc \in {"check", "deps"} THEN NoJob ELSE [job[j] EXCEPT !.mine = FALSE]]
  /\ deps' \in {deps} \cup {TRUE : j \in {i \in Job : job[i].pc = "deps"}}
  /\ UNCHANGED <<claude, files, old, daemon, done, code, settled, gap, starts>>

\* No node, or the ninety seconds.
Fails(j) ==
  /\ job[j].pc \notin {"off", "check", "deps"} /\ Fault("timeout") /\ Ends(j, FALSE)
  /\ UNCHANGED <<machine, code, gap, starts>>

----------------------------------------------------------------------------
(* The installer *)

Elsewhere == UNCHANGED <<deps, done, code, settled, gap, faults, starts>>

\* migrateLegacy reads the file before it writes it; what readJson cannot parse
\* it leaves alone.
MigrateReads(j) ==
  /\ At(j, Installs, "legacy")
  /\ job' = [job EXCEPT ![j].seen = claude,
                        ![j].pc = IF claude.text = "whole" /\ claude.legacy THEN "migrate" ELSE "strip"]
  /\ UNCHANGED <<claude, files, old, daemon>> /\ Elsewhere

Migrate(j) ==
  /\ At(j, Installs, "migrate") /\ Goto(j, "strip")
  /\ claude' = [job[j].seen EXCEPT !.legacy = FALSE]
  /\ UNCHANGED <<files, old, daemon>> /\ Elsewhere

Strip(j) ==
  /\ At(j, Installs, "strip") /\ Goto(j, "read") /\ old' = {}
  /\ UNCHANGED <<claude, files, daemon>> /\ Elsewhere

\* Variant: what cannot be parsed counts as empty.
ReadableAny(f) == TRUE

\* What registerMcp takes: JSON, or an empty file, which counts as {}.
Readable(f) == f.text # "partial"
Content(f) == IF f.text = "whole" THEN f ELSE Nothing

\* Not valid JSON: the installation is given up.
RegisterReads(j) ==
  /\ At(j, Installs, "read")
  /\ IF Readable(claude)
     THEN /\ job' = [job EXCEPT ![j].seen = Content(claude), ![j].pc = "write"]
          /\ gap' = (gap \/ claude.text = "empty") /\ UNCHANGED <<done, settled>>
     ELSE Ends(j, FALSE) /\ gap' = gap
  /\ UNCHANGED <<machine, code, faults, starts>>

Register(j) ==
  /\ At(j, Installs, "write") /\ Goto(j, "files")
  /\ claude' = [job[j].seen EXCEPT !.ours = TRUE]
  /\ UNCHANGED <<files, old, daemon>> /\ Elsewhere

InstallSkillAndRule(j) ==
  /\ At(j, Installs, "files") /\ Goto(j, "md") /\ files' = files \cup {"skill", "rule"}
  /\ UNCHANGED <<claude, old, daemon>> /\ Elsewhere

InjectClaudeMd(j) ==
  /\ At(j, Installs, "md") /\ Goto(j, "status") /\ files' = files \cup {"md"} /\ daemon' = TRUE
  /\ UNCHANGED <<claude, old>> /\ Elsewhere

StopDaemon(j) ==
  /\ At(j, {"uninstall"}, "stop") /\ Goto(j, "read") /\ daemon' = FALSE
  /\ UNCHANGED <<claude, files, old>> /\ Elsewhere

\* unregisterMcp: what cannot be read is left.
UnregisterReads(j) ==
  /\ At(j, {"uninstall"}, "read")
  /\ job' = [job EXCEPT ![j].seen = claude,
                        ![j].pc = IF claude.text = "whole" /\ claude.ours THEN "write" ELSE "remove"]
  /\ UNCHANGED <<claude, files, old, daemon>> /\ Elsewhere

Unregister(j) ==
  /\ At(j, {"uninstall"}, "write") /\ Goto(j, "remove")
  /\ claude' = [job[j].seen EXCEPT !.ours = FALSE]
  /\ UNCHANGED <<files, old, daemon>> /\ Elsewhere

Remove(j) ==
  /\ At(j, {"uninstall"}, "remove") /\ Goto(j, "status") /\ files' = {}
  /\ UNCHANGED <<claude, old, daemon>> /\ Elsewhere

\* The status is the answer of the installer.
Status(j) ==
  /\ job[j].pc = "status" /\ Ends(j, job[j].kind = "uninstall" \/ Installed)
  /\ UNCHANGED <<machine, code, gap, faults, starts>>

\* The MCP server of an agent starts a daemon (see AllocatorDaemons).
AgentStarts ==
  /\ claude.ours /\ deps /\ ~daemon /\ daemon' = TRUE
  /\ UNCHANGED <<claude, files, old, deps, done, job, code, settled, gap, faults, starts>>

----------------------------------------------------------------------------
Installer(j) ==
  \/ MigrateReads(j) \/ Migrate(j) \/ Strip(j) \/ RegisterReads(j) \/ Register(j)
  \/ InstallSkillAndRule(j) \/ InjectClaudeMd(j)
  \/ StopDaemon(j) \/ UnregisterReads(j) \/ Unregister(j) \/ Remove(j) \/ Status(j)

Next ==
  \/ CodeReads \/ CodeWrites \/ CodeFlushes \/ CodeWritten \/ Restart \/ AgentStarts
  \/ \E j \in Job : \/ Check(j) \/ EnsureDeps(j) \/ Fails(j) \/ Installer(j)
                    \/ \E kind \in {"auto", "install", "uninstall"} : Begin(j, kind)

Spec == Init /\ [][Next]_vars

----------------------------------------------------------------------------
(* Properties *)

\* Claude Code's settings are started over only if an installer found the file
\* empty, which registerMcp takes for {}: no half-written file is mistaken for
\* that, and nothing an installer or Claude Code read before and writes back
\* starts them over (an update of them may be lost).
ConfigKept == claude.own = 0 => gap

\* "An explicit uninstall is a settled choice - don't auto-reinstall": once the
\* user's uninstallation is over, with no other installer about, nothing is put
\* back unless the user asks for it (but for a registration in what Claude Code
\* had read before, which it writes back).
ChoiceStands == settled => (files = {} /\ \A j \in Running : job[j].kind = "uninstall")
=============================================================================
