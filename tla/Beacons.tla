------------------------------- MODULE Beacons -------------------------------
(***************************************************************************)
(* The beacon sockets of a mesh node (linux/diplomat_app/mesh/node.py,     *)
(* lines 516-739).  The operating system decides whether a process may     *)
(* reach the LAN when a socket is created, and the socket keeps that       *)
(* verdict; the network may also be down.  A node whose every send fails   *)
(* makes itself new sockets and tells its operator why.                    *)
(*                                                                         *)
(* Abstracted: multicast and broadcast of one tick are one send; the two   *)
(* sockets of the start are made at once; a socket of a denied process     *)
(* hears nothing; the network is down when sends fail otherwise than by    *)
(* the permission.                                                         *)
(***************************************************************************)
EXTENDS Integers

CONSTANTS MaxChanges, MaxFaults   \* of the permission and the network; failed rebuilds (bounds)

VARIABLES
  gate,      \* "open" or "denied": what a socket made now gets
  net,       \* "up" or "down"
  send, recv,   \* the verdicts of the sockets
  blocked,   \* _beacon_blocked
  reason,    \* _beacon_block_reason
  ticks,     \* ticks since the last change, up to 2
  deaf,      \* a rebuild failed, and left a receiving socket that hears nothing
  changes, faults

vars == <<gate, net, send, recv, blocked, reason, ticks, deaf, changes, faults>>

\* _start_udp
Init ==
  /\ gate \in {"open", "denied"} /\ net \in {"up", "down"}
  /\ send = gate /\ recv = gate /\ blocked = FALSE /\ reason = ""
  /\ ticks = 0 /\ deaf = FALSE /\ changes = 0 /\ faults = 0

Changes(g, n) ==
  /\ changes < MaxChanges /\ changes' = changes + 1 /\ <<g, n>> # <<gate, net>>
  /\ gate' = g /\ net' = n /\ ticks' = 0
  /\ UNCHANGED <<send, recv, blocked, reason, deaf, faults>>

\* _classify_beacon_block: the probe of the loopback is a socket of its own.
Classified == IF net = "up" THEN "local-network" ELSE "network-down"

\* Variant: diagnosed once, as the outage begins.
DiagnosedOnce == IF blocked THEN reason ELSE Classified

\* _note_beacon_sends, of a tick on which nothing was sent
Diagnosed == Classified

\* A tick of _beacon_loop: a blocked node makes a new sending socket, and on
\* recovery a receiving one; what cannot be made leaves the old one.
Tick(sendFails, recvFails) ==
  LET failed == blocked /\ (sendFails \/ recvFails)
      recovers == blocked /\ send' = "open" /\ net = "up"
  IN
  /\ faults' = IF failed THEN faults + 1 ELSE faults
  /\ faults' <= MaxFaults
  /\ send' = IF blocked /\ ~sendFails THEN gate ELSE send
  /\ recv' = IF recovers /\ ~recvFails THEN gate ELSE recv
  /\ deaf' = IF recovers THEN failed /\ recv' # "open" ELSE deaf
  /\ blocked' = ~(send' = "open" /\ net = "up")
  /\ reason' = IF blocked' THEN Diagnosed ELSE ""
  /\ ticks' = IF failed THEN 0 ELSE IF ticks < 2 THEN ticks + 1 ELSE ticks
  /\ UNCHANGED <<gate, net, changes>>

Next ==
  \/ \E sendFails, recvFails \in BOOLEAN : Tick(sendFails, recvFails)
  \/ \E g \in {"open", "denied"}, n \in {"up", "down"} : Changes(g, n)

Spec == Init /\ [][Next]_vars

----------------------------------------------------------------------------
(* Properties *)

\* Two ticks after the last change a node that may reach the LAN beacons, and
\* hears beacons too (unless the rebuild of a socket failed); and one that
\* cannot says why as things are now: "a downed network that recovers into a
\* Local Network gate ... must flip".
BeaconsSettle ==
  ticks = 2 =>
    /\ (gate = "open" /\ net = "up") => (~blocked /\ (recv = "open" \/ deaf))
    /\ blocked => reason = IF net = "up" THEN "local-network" ELSE "network-down"
=============================================================================
