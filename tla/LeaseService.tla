---------------------------- MODULE LeaseService ----------------------------
(***************************************************************************)
(* What the device allocator promises its clients, without saying how: a  *)
(* device is free, held by one agent, or quarantined.  It changes hands    *)
(* only by way of "free": it is never taken from one agent and given to    *)
(* another in one step, and a quarantined device is never handed out.  A   *)
(* device whose holder has died is eventually taken back.                  *)
(***************************************************************************)
CONSTANTS Device,        \* the simulators and emulators of this machine
          Agent,         \* the agents (owner pids) that may hold one
          Free,          \* holder of a device nobody holds
          Quarantine     \* holder of a device under repair

VARIABLES holder,        \* device -> agent, Free or Quarantine
          alive          \* agent -> is its process still running?

vars == <<holder, alive>>

Init ==
  /\ holder = [d \in Device |-> Free]
  /\ alive = [a \in Agent |-> TRUE]

\* The moves a single device may make in one step.
Legal(was, is) ==
  \/ is = was
  \/ was = Free /\ is \in Agent \cup {Quarantine}
  \/ was \in Agent /\ is \in {Free, Quarantine}
  \/ was = Quarantine /\ is = Free

\* One step of the service may move several devices (a reaper tick, a
\* restart), and an agent that exits gives its devices back as it goes.  A
\* process that has died never comes back under the same pid.
Next ==
  /\ holder' \in [Device -> Agent \cup {Free, Quarantine}]
  /\ \A d \in Device : Legal(holder[d], holder'[d])
  /\ alive' \in [Agent -> BOOLEAN]
  /\ \A a \in Agent : alive'[a] => alive[a]

Spec == Init /\ [][Next]_vars

\* Liveness of the service: the device of a dead agent is taken back.
Reclaim ==
  \A d \in Device, a \in Agent :
    (holder[d] = a /\ ~alive[a]) ~> (holder[d] # a)
=============================================================================
