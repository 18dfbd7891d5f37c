------------------------------ MODULE Overrides ------------------------------
(***************************************************************************)
(* Placement overrides of the mesh (linux/diplomat_app/mesh/node.py and    *)
(* config.py): one table of edits, duty by duty, gossiped last writer      *)
(* wins.  A node adopts an edit only from an editor whose key it knows,    *)
(* and keeps nothing of it on disk.                                        *)
(*                                                                         *)
(* Abstracted: a link is one step for both nodes, with the hellos that     *)
(* carry each other's overrides; adverts are gossiped at any time.  Where  *)
(* a wire already holds an edit, a second one is another message on it.    *)
(* The assignments a node recomputes with each change are a function of    *)
(* this state, the one of Placement.                                       *)
(***************************************************************************)
EXTENDS Integers, Sequences, FiniteSets

CONSTANTS
  Node,      \* node ids, compared to break ties
  Duty, Policy,
  Default,   \* the catalog's policy for a duty
  Traffic,   \* what may happen besides edits and deliveries (a bound)
  Unstable,  \* nodes that may restart or forget a peer (a bound)
  MaxEdits, MaxLinks    \* bounds

Kinds == {"unlink", "restart", "forget", "stranger"}

ASSUME OverridesConstants ==
  /\ Node \subseteq Nat /\ Default \notin Policy
  /\ Unstable \subseteq Node /\ Traffic \subseteq Kinds /\ MaxEdits \in Nat /\ MaxLinks \in Nat

VARIABLES
  ov,      \* node -> its overrides
  pins,    \* node -> the nodes whose key it knows
  links,   \* <<n, m>>, both ways
  wire,    \* node -> node -> overrides on their way
  made,    \* links made so far
  edits,   \* edits made so far
  refused, \* <<n, m>>: over this link n refused an edit, not knowing its editor
  rebooted \* nodes that restarted, and lost their edits

vars == <<ov, pins, links, wire, made, edits, refused, rebooted>>

Table == [Duty -> Policy \cup {Default}]
Override == [rev : Nat, by : Nat \cup {-1}, duties : Table]
NoEdit == [rev |-> 0, by |-> -1, duties |-> [d \in Duty |-> Default]]

\* Variant: at the same rev, what one holds stays.
WinsByRev(a, b) == a.rev > b.rev

\* PlacementOverrides.wins_over
WinsOver(a, b) == a.rev > b.rev \/ (a.rev = b.rev /\ a.by > b.by)

\* with_duty
WithDuty(o, d, p, n) == [rev |-> o.rev + 1, by |-> n, duties |-> [o.duties EXCEPT ![d] = p]]

Linked(n, m) == <<n, m>> \in links

\* _broadcast
Broadcast(q, n, o) ==
  [q EXCEPT ![n] = [m \in Node |-> IF Linked(n, m) THEN Append(q[n][m], o) ELSE q[n][m]]]

Init ==
  /\ ov = [n \in Node |-> NoEdit]
  /\ pins = [n \in Node |-> IF "stranger" \in Traffic THEN {n} ELSE Node]
  /\ links = {} /\ made = 0 /\ edits = 0 /\ refused = {} /\ rebooted = {}
  /\ wire = [n \in Node |-> [m \in Node |-> <<>>]]

\* set_overrides_duty: an edit at the panel of n.
Edit(n, d, p) ==
  /\ edits < MaxEdits /\ edits' = edits + 1
  /\ ov' = [ov EXCEPT ![n] = WithDuty(@, d, p, n)]
  /\ wire' = Broadcast(wire, n, ov'[n])
  /\ UNCHANGED <<pins, links, made, refused, rebooted>>

\* _overrides_authentic: the empty default, or signed by a known editor.
Authentic(n, o) == o.rev = 0 \/ o.by \in pins[n]

\* _merge_overrides of what m sent.
Merge(n, m) ==
  /\ wire[m][n] # <<>>
  /\ LET o == Head(wire[m][n])
         rest == [wire EXCEPT ![m][n] = Tail(@)] IN
     IF Authentic(n, o) /\ WinsOver(o, ov[n])
     THEN ov' = [ov EXCEPT ![n] = o] /\ wire' = Broadcast(rest, n, o)
     ELSE ov' = ov /\ wire' = rest
  /\ refused' = refused \cup {l \in {<<n, m>>} : ~Authentic(n, Head(wire[m][n]))}
  /\ UNCHANGED <<pins, links, made, edits, rebooted>>

\* The hellos: each side learns the other's key and is sent its overrides.
Link(n, m) ==
  /\ n < m /\ ~Linked(n, m) /\ made < MaxLinks
  /\ links' = links \cup {<<n, m>>, <<m, n>>} /\ made' = made + 1
  /\ pins' = [pins EXCEPT ![n] = @ \cup {m}, ![m] = @ \cup {n}]
  /\ wire' = [wire EXCEPT ![n][m] = <<ov[n]>>, ![m][n] = <<ov[m]>>]
  /\ UNCHANGED <<ov, edits, refused, rebooted>>

Unlink(n, m) ==
  /\ "unlink" \in Traffic /\ Linked(n, m)
  /\ links' = links \ {<<n, m>>, <<m, n>>}
  /\ wire' = [wire EXCEPT ![n][m] = <<>>, ![m][n] = <<>>]
  /\ refused' = refused \ {<<n, m>>, <<m, n>>}
  /\ UNCHANGED <<ov, pins, made, edits, rebooted>>

\* n hears of the key of x from m (the advert of x, relayed).
HearOf(n, m, x) ==
  /\ Linked(n, m) /\ x \in pins[m] \ pins[n]
  /\ pins' = [pins EXCEPT ![n] = @ \cup {x}]
  /\ UNCHANGED <<ov, links, wire, made, edits, refused, rebooted>>

\* A peer that has long been down is dropped from the table, its key with it.
Forget(n, m) ==
  /\ "forget" \in Traffic /\ n \in Unstable /\ n # m /\ m \in pins[n] /\ ~Linked(n, m)
  /\ pins' = [pins EXCEPT ![n] = @ \ {m}]
  /\ UNCHANGED <<ov, links, wire, made, edits, refused, rebooted>>

\* Nothing of the overrides is on disk.  A node restarts once (a bound).
Restart(n) ==
  /\ "restart" \in Traffic /\ n \in Unstable \ rebooted
  /\ ov' = [ov EXCEPT ![n] = NoEdit] /\ pins' = [pins EXCEPT ![n] = {n}]
  /\ links' = {l \in links : n \notin {l[1], l[2]}}
  /\ refused' = {l \in refused : n \notin {l[1], l[2]}}
  /\ wire' = [a \in Node |-> [b \in Node |-> IF n \in {a, b} THEN <<>> ELSE wire[a][b]]]
  /\ rebooted' = rebooted \cup {n}
  /\ UNCHANGED <<made, edits>>

Next ==
  \/ \E n \in Node, d \in Duty, p \in Policy : Edit(n, d, p)
  \/ \E n, m \in Node : Merge(n, m) \/ Link(n, m) \/ Unlink(n, m) \/ Forget(n, m)
  \/ \E n, m, x \in Node : HearOf(n, m, x)
  \/ \E n \in Node : Restart(n)

Spec == Init /\ [][Next]_vars

----------------------------------------------------------------------------
(* Properties *)

\* Every variable stays in its type.
TypeOK ==
  /\ ov \in [Node -> Override]
  /\ pins \in [Node -> SUBSET Node]
  /\ links \subseteq Node \X Node /\ refused \subseteq links
  /\ wire \in [Node -> [Node -> Seq(Override)]]
  /\ made \in Nat /\ edits \in Nat /\ rebooted \subseteq Node

\* With nothing on the wires between them, two linked nodes hold the same
\* overrides (what each computes the assignments from), unless one of them had
\* to refuse an edit of the other, or an editor restarted.
LinkedAgree ==
  \A n, m \in Node :
    (/\ Linked(n, m) /\ wire[n][m] = <<>> /\ wire[m][n] = <<>>
     /\ {<<n, m>>, <<m, n>>} \cap refused = {}
     /\ ov[n].by \notin rebooted) => ov[n] = ov[m]
=============================================================================
