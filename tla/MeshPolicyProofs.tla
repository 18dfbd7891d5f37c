-------------------------- MODULE MeshPolicyProofs --------------------------
(***************************************************************************)
(* What holds of Overrides for any nodes, duties and policies, any edits,  *)
(* and links that come, go and come back: with nothing under way between   *)
(* them, two linked nodes hold the same overrides.  Of NodeState, for any  *)
(* devices, commands, crashes and failed writes: the word the operator was *)
(* given, and what a linked peer was told.  Of Beacons, for any changes of *)
(* the permission and the network: where a node settles.                   *)
(***************************************************************************)
EXTENDS MeshPolicy, TLAPS

----------------------------------------------------------------------------
(* The overrides (Overrides) *)

\* Whatever is held or on a wire.
Sent(n, m) == {wire[n][m][i] : i \in DOMAIN wire[n][m]}
Around == {ov[n] : n \in Node} \cup UNION {UNION {Sent(n, m) : m \in Node} : n \in Node}

\* Links have two ends, and the last message on a wire is what its sender holds.
Wired ==
  \A n, m \in Node :
    /\ Linked(n, m) => n # m /\ Linked(m, n)
    /\ wire[n][m] # <<>> => Linked(n, m) /\ wire[n][m][Len(wire[n][m])] = ov[n]

\* Who has read all that a peer sent, and refused none of it, holds nothing older.
Told ==
  \A n, m \in Node :
    (Linked(n, m) /\ wire[n][m] = <<>> /\ <<m, n>> \notin refused) => ~WinsOver(ov[n], ov[m])

\* An editor that has not restarted holds nothing older than its own edits, so
\* that it gives no two of them the same rev.
Newest ==
  \A o \in Around :
    /\ o.by \in Node \cup {-1}
    /\ o.by = -1 => o = NoEdit
    /\ o.by \in Node \ rebooted => o.rev <= ov[o.by].rev

OneEdit ==
  \A o, p \in Around : (o.by = p.by /\ o.rev = p.rev /\ o.by \notin rebooted) => o = p

Inv == TypeOK /\ Wired /\ Told /\ Newest /\ OneEdit

\* <<a, b>> is not the link of n and m, in either direction.
Apart(a, b, n, m) == ~(a = n /\ b = m) /\ ~(a = m /\ b = n)

Wires == [Node -> [Node -> Seq(Override)]]

----------------------------------------------------------------------------
(* Edits, and sequences of them *)

LEMMA NoEditTyped == NoEdit \in Override
BY DEF NoEdit, Override, Table

\* WinsOver is a strict order, and two edits that do not win over each other
\* have the same rev and editor.
LEMMA Order ==
  ASSUME NEW a \in Override, NEW b \in Override
  PROVE  /\ ~WinsOver(a, a)
         /\ \A c \in Override : ~WinsOver(a, b) /\ WinsOver(c, b) => ~WinsOver(a, c)
         /\ ~WinsOver(a, b) /\ ~WinsOver(b, a) => a.rev = b.rev /\ a.by = b.by
         /\ WinsOver(a, b) => a.rev >= b.rev
BY OverridesConstants DEF WinsOver, Override, OverridesConstants

LEMMA LastSent ==
  ASSUME NEW S, NEW s \in Seq(S), NEW o \in S
  PROVE  LET t == Append(s, o) IN
         /\ t \in Seq(S) /\ t # <<>> /\ t[Len(t)] = o
         /\ \A i \in DOMAIN t : t[i] = o \/ (i \in DOMAIN s /\ t[i] = s[i])
OBVIOUS

LEMMA Read ==
  ASSUME NEW S, NEW s \in Seq(S), s # <<>>
  PROVE  LET t == Tail(s) IN
         /\ t \in Seq(S) /\ Head(s) \in S /\ 1 \in DOMAIN s /\ Head(s) = s[1]
         /\ \A i \in DOMAIN t : i + 1 \in DOMAIN s /\ t[i] = s[i + 1]
         /\ t # <<>> => t[Len(t)] = s[Len(s)]
         /\ t = <<>> => Head(s) = s[Len(s)]
<1>1. Len(s) \in Nat \ {0} /\ Len(Tail(s)) = Len(s) - 1 /\ Head(s) = s[1] /\ Tail(s) \in Seq(S)
  OBVIOUS
<1>2. \A i \in DOMAIN Tail(s) : i + 1 \in DOMAIN s /\ Tail(s)[i] = s[i + 1]
  BY <1>1
<1>3. Tail(s) # <<>> => Tail(s)[Len(Tail(s))] = s[Len(s)]
  BY <1>1, <1>2
<1>4. Tail(s) = <<>> => Len(s) = 1
  <2> SUFFICES ASSUME Tail(s) = <<>> PROVE Len(s) = 1
    OBVIOUS
  <2>1. Len(<<>>) = 0
    OBVIOUS
  <2>2. Len(Tail(s)) = Len(<<>>)
    OBVIOUS
  <2> QED BY <1>1, <2>1, <2>2
<1> QED BY <1>1, <1>2, <1>3, <1>4

\* What a broadcast puts on which wires.
LEMMA BroadcastTyped ==
  ASSUME NEW q \in Wires, NEW n \in Node, NEW o \in Override
  PROVE  /\ Broadcast(q, n, o) \in Wires
         /\ \A a, b \in Node : Broadcast(q, n, o)[a][b] = IF a = n /\ Linked(n, b) THEN Append(q[a][b], o)
                                                          ELSE q[a][b]
<1>1. \A b \in Node : q[n][b] \in Seq(Override) /\ Append(q[n][b], o) \in Seq(Override)
  BY DEF Wires
<1>2. [b \in Node |-> IF Linked(n, b) THEN Append(q[n][b], o) ELSE q[n][b]] \in [Node -> Seq(Override)]
  BY <1>1
<1> QED BY <1>2 DEF Broadcast, Wires

\* Both wires of a link are written.
Rewired(q, n, m, s, t) == [q EXCEPT ![n][m] = s, ![m][n] = t]

LEMMA OneWire ==
  ASSUME NEW q \in Wires, NEW n \in Node, NEW m \in Node, NEW s \in Seq(Override)
  PROVE  /\ [q EXCEPT ![n][m] = s] \in Wires
         /\ [q EXCEPT ![n][m] = s][n][m] = s
         /\ \A a, b \in Node : ~(a = n /\ b = m) => [q EXCEPT ![n][m] = s][a][b] = q[a][b]
BY DEF Wires

LEMMA TwoWires ==
  ASSUME NEW q \in Wires, NEW n \in Node, NEW m \in Node, n # m,
         NEW s \in Seq(Override), NEW t \in Seq(Override)
  PROVE  /\ Rewired(q, n, m, s, t) \in Wires
         /\ Rewired(q, n, m, s, t)[n][m] = s /\ Rewired(q, n, m, s, t)[m][n] = t
         /\ \A a, b \in Node : Apart(a, b, n, m) => Rewired(q, n, m, s, t)[a][b] = q[a][b]
<1> DEFINE u == [q EXCEPT ![n][m] = s]
           w == [u EXCEPT ![m][n] = t]
<1>1. u \in Wires /\ u[n][m] = s /\ \A a, b \in Node : ~(a = n /\ b = m) => u[a][b] = q[a][b]
  BY OneWire
<1>2. Rewired(q, n, m, s, t) = w
  BY DEF Rewired
<1> HIDE DEF u
<1>3. w \in Wires /\ w[m][n] = t /\ \A a, b \in Node : ~(a = m /\ b = n) => w[a][b] = u[a][b]
  BY <1>1, OneWire
<1> HIDE DEF w
<1>4. w[n][m] = s
  BY <1>1, <1>3
<1>5. \A a, b \in Node : Apart(a, b, n, m) => w[a][b] = q[a][b]
  BY <1>1, <1>3 DEF Apart
<1> QED BY <1>2, <1>3, <1>4, <1>5

\* What an operator of Around says, without the set.
LEMMA AroundIs ==
  ASSUME TypeOK
  PROVE  /\ Around \subseteq Override
         /\ \A n \in Node : ov[n] \in Around
         /\ \A n, m \in Node : \A i \in DOMAIN wire[n][m] : wire[n][m][i] \in Around
         /\ \A o \in Around : \/ \E n \in Node : o = ov[n]
                              \/ \E n, m \in Node : \E i \in DOMAIN wire[n][m] : o = wire[n][m][i]
<1>1. \A n, m \in Node : \A i \in DOMAIN wire[n][m] : wire[n][m][i] \in Override
  BY DEF TypeOK
<1>2. \A o \in Around : \/ \E n \in Node : o = ov[n]
                        \/ \E n, m \in Node : \E i \in DOMAIN wire[n][m] : o = wire[n][m][i]
  <2>1. \A n, m \in Node : \A o \in Sent(n, m) : \E i \in DOMAIN wire[n][m] : o = wire[n][m][i]
    BY DEF Sent
  <2> QED BY <2>1 DEF Around
<1>3. \A n, m \in Node : \A i \in DOMAIN wire[n][m] : wire[n][m][i] \in Around
  <2>1. \A n, m \in Node : \A i \in DOMAIN wire[n][m] : wire[n][m][i] \in Sent(n, m)
    BY DEF Sent
  <2> QED BY <2>1 DEF Around
<1>4. \A n \in Node : ov[n] \in Around
  BY DEF Around
<1>5. Around \subseteq Override
  BY <1>1, <1>2 DEF TypeOK
<1> QED BY <1>2, <1>3, <1>4, <1>5

\* What is around after a step.
LEMMA AroundNext ==
  ASSUME NEW S,
         \A n \in Node : ov'[n] \in S,
         \A n, m \in Node : \A i \in DOMAIN wire'[n][m] : wire'[n][m][i] \in S
  PROVE  Around' \subseteq S
<1>1. \A n, m \in Node : Sent(n, m)' \subseteq S
  BY DEF Sent
<1> QED BY <1>1 DEF Around

----------------------------------------------------------------------------
(* What every step of the table keeps *)

LEMMA InitInv ==
  ASSUME Init
  PROVE  Inv
<1>1. TypeOK
  BY NoEditTyped DEF Init, TypeOK
<1>2. \A o \in Around : o = NoEdit
  BY <1>1, AroundIs DEF Init
<1>3. \A n, m \in Node : wire[n][m] = <<>> /\ ~Linked(n, m)
  BY DEF Init, Linked
<1>4. -1 \notin Node
  BY OverridesConstants DEF OverridesConstants
<1> QED BY <1>1, <1>2, <1>3, <1>4 DEF Inv, Wired, Told, Newest, OneEdit, NoEdit

\* Nothing new is around, and nobody's overrides grow older: an editor still
\* holds nothing older than its edits.
LEMMA NothingNew ==
  ASSUME Inv, TypeOK', Around' \subseteq Around,
         rebooted' = rebooted, \A n \in Node : ov'[n].rev >= ov[n].rev
  PROVE  Newest' /\ OneEdit'
<1>1. Newest'
  <2> SUFFICES ASSUME NEW o \in Around'
               PROVE  /\ o.by \in Node \cup {-1}
                      /\ o.by = -1 => o = NoEdit
                      /\ o.by \in Node \ rebooted' => o.rev <= ov'[o.by].rev
    BY DEF Newest
  <2>1. o \in Around /\ o \in Override
    BY AroundIs DEF Inv
  <2>2. ASSUME o.by \in Node \ rebooted' PROVE o.rev <= ov'[o.by].rev
    <3>1. o.by \in Node \ rebooted
      BY <2>2
    <3>2. o.rev <= ov[o.by].rev
      BY <2>1, <3>1 DEF Inv, Newest
    <3>3. ov'[o.by].rev >= ov[o.by].rev
      BY <3>1
    <3>4. o.rev \in Nat /\ ov[o.by].rev \in Nat /\ ov'[o.by].rev \in Nat
      BY <2>1, <3>1 DEF Inv, TypeOK, Override
    <3> QED BY <3>2, <3>3, <3>4
  <2> QED BY <2>1, <2>2 DEF Inv, Newest
<1>2. OneEdit'
  BY DEF Inv, OneEdit
<1> QED BY <1>1, <1>2

\* r is the wires after some have been read: what is left on them was there,
\* and who has read all of a peer's refused some, or holds nothing older.
After(r) ==
  /\ r \in Wires
  /\ \A a, b \in Node :
       /\ \A i \in DOMAIN r[a][b] : r[a][b][i] \in Around
       /\ r[a][b] # <<>> => wire[a][b] # <<>> /\ r[a][b][Len(r[a][b])] = wire[a][b][Len(wire[a][b])]
       /\ r[a][b] = <<>> => \/ wire[a][b] = <<>>
                            \/ <<b, a>> \in refused'
                            \/ ~WinsOver(ov[a], ov'[b])

\* The overrides of n change to something newer, which goes to all it is linked to.
LEMMA Changed ==
  ASSUME Inv, NEW n \in Node, NEW o \in Override, NEW STATE r, After(r),
         WinsOver(o, ov[n]), ov' = [ov EXCEPT ![n] = o], wire' = Broadcast(r, n, o),
         links' = links, refused \subseteq refused'
  PROVE  /\ ov' \in [Node -> Override] /\ wire' \in Wires
         /\ Wired' /\ Told' /\ Around' \subseteq Around \cup {o}
         /\ \A m \in Node : ov'[m].rev >= ov[m].rev
<1>1. r \in Wires /\ ov \in [Node -> Override] /\ TypeOK
  BY DEF After, Inv, TypeOK
<1>2. /\ wire' \in Wires
      /\ \A a, b \in Node : wire'[a][b] = IF a = n /\ Linked(n, b) THEN Append(r[a][b], o) ELSE r[a][b]
  <2>1. r \in Wires
    BY <1>1
  <2>2. /\ Broadcast(r, n, o) \in Wires
        /\ \A a, b \in Node : Broadcast(r, n, o)[a][b] = IF a = n /\ Linked(n, b) THEN Append(r[a][b], o)
                                                         ELSE r[a][b]
    BY <2>1, BroadcastTyped
  <2> QED BY <2>2
<1>3. ov' \in [Node -> Override] /\ ov'[n] = o /\ \A m \in Node \ {n} : ov'[m] = ov[m]
  BY <1>1
<1>4. \A a, b \in Node : Linked(a, b)' <=> Linked(a, b)
  BY DEF Linked
<1>5. \A b \in Node : Linked(n, b) =>
        /\ wire'[n][b] # <<>> /\ wire'[n][b][Len(wire'[n][b])] = o
        /\ \A i \in DOMAIN wire'[n][b] : wire'[n][b][i] = o \/ wire'[n][b][i] \in Around
  <2> SUFFICES ASSUME NEW b \in Node, Linked(n, b)
               PROVE  /\ wire'[n][b] # <<>> /\ wire'[n][b][Len(wire'[n][b])] = o
                      /\ \A i \in DOMAIN wire'[n][b] : wire'[n][b][i] = o \/ wire'[n][b][i] \in Around
    OBVIOUS
  <2>1. r[n][b] \in Seq(Override) /\ wire'[n][b] = Append(r[n][b], o)
    BY <1>1, <1>2 DEF Wires
  <2>2. \A i \in DOMAIN r[n][b] : r[n][b][i] \in Around
    BY DEF After
  <2> QED BY <2>1, <2>2, LastSent
<1>6. Wired'
  <2> SUFFICES ASSUME NEW a \in Node, NEW b \in Node
               PROVE  /\ Linked(a, b)' => a # b /\ Linked(b, a)'
                      /\ wire'[a][b] # <<>> => Linked(a, b)' /\ wire'[a][b][Len(wire'[a][b])] = ov'[a]
    BY DEF Wired
  <2>1. CASE a = n /\ Linked(n, b)
    BY <1>3, <1>4, <1>5, <2>1 DEF Inv, Wired
  <2>2. CASE ~(a = n /\ Linked(n, b))
    <3>1. wire'[a][b] = r[a][b]
      BY <1>2, <2>2
    <3>2. ASSUME wire'[a][b] # <<>>
          PROVE  Linked(a, b) /\ a # n /\ wire'[a][b][Len(wire'[a][b])] = ov[a]
      <4>1. wire[a][b] # <<>> /\ r[a][b][Len(r[a][b])] = wire[a][b][Len(wire[a][b])]
        BY <3>1, <3>2 DEF After
      <4>2. Linked(a, b) /\ wire[a][b][Len(wire[a][b])] = ov[a]
        BY <4>1 DEF Inv, Wired
      <4> QED BY <2>2, <3>1, <4>1, <4>2
    <3>3. Linked(a, b) => a # b /\ Linked(b, a)
      BY DEF Inv, Wired
    <3> QED BY <1>3, <1>4, <3>2, <3>3
  <2> QED BY <2>1, <2>2
<1>7. Told'
  <2> SUFFICES ASSUME NEW a \in Node, NEW b \in Node, Linked(a, b)', wire'[a][b] = <<>>,
                      <<b, a>> \notin refused'
               PROVE  ~WinsOver(ov'[a], ov'[b])
    BY DEF Told
  <2>1. Linked(a, b) /\ a # n
    BY <1>4, <1>5
  <2>2. r[a][b] = <<>> /\ ov'[a] = ov[a]
    BY <1>2, <1>3, <2>1
  <2>3. CASE wire[a][b] = <<>>
    <3>1. ~WinsOver(ov[a], ov[b])
      BY <2>1, <2>3 DEF Inv, Told
    <3>2. ov[a] \in Override /\ ov[b] \in Override
      BY <1>1
    <3>3. CASE b = n
      BY <1>3, <2>2, <3>1, <3>2, <3>3, Order
    <3> QED BY <1>3, <2>2, <3>1, <3>3
  <2> QED BY <2>2, <2>3 DEF After
<1>8. Around' \subseteq Around \cup {o}
  <2>1. \A m \in Node : ov'[m] \in Around \cup {o}
    BY <1>1, <1>3, AroundIs
  <2>2. \A a, b \in Node : \A i \in DOMAIN wire'[a][b] : wire'[a][b][i] \in Around \cup {o}
    <3> SUFFICES ASSUME NEW a \in Node, NEW b \in Node, NEW i \in DOMAIN wire'[a][b]
                 PROVE  wire'[a][b][i] \in Around \cup {o}
      OBVIOUS
    <3>1. CASE a = n /\ Linked(n, b)
      BY <1>5, <3>1
    <3>2. CASE ~(a = n /\ Linked(n, b))
      <4>1. wire'[a][b] = r[a][b]
        BY <1>2, <3>2
      <4> QED BY <4>1 DEF After
    <3> QED BY <3>1, <3>2
  <2> QED BY <2>1, <2>2, AroundNext
<1>9. ASSUME NEW m \in Node PROVE ov'[m].rev >= ov[m].rev
  <2>1. o.rev >= ov[n].rev
    BY <1>1, Order
  <2>2. ov[m].rev \in Nat
    BY <1>1 DEF Override
  <2> QED BY <1>3, <2>1, <2>2
<1> QED BY <1>2, <1>3, <1>6, <1>7, <1>8, <1>9

----------------------------------------------------------------------------
(* The actions *)

LEMMA EditInv ==
  ASSUME Inv, NEW n \in Node, NEW d \in Duty, NEW p \in Policy, Edit(n, d, p)
  PROVE  Inv'
<1> DEFINE new == WithDuty(ov[n], d, p, n)
<1>1. /\ ov' = [ov EXCEPT ![n] = new] /\ wire' = Broadcast(wire, n, ov'[n])
      /\ UNCHANGED <<pins, links, made, refused, rebooted>> /\ edits' \in Nat /\ TypeOK
  BY DEF Edit, Inv, TypeOK
<1>2. /\ new \in Override /\ new.by = n /\ new.rev = ov[n].rev + 1
      /\ ov[n] \in Override /\ ov[n].rev \in Nat
  <2>1. ov[n] \in Override
    BY <1>1 DEF TypeOK
  <2>2. [ov[n].duties EXCEPT ![d] = p] \in Table
    BY <2>1 DEF Override, Table
  <2>3. n \in Nat
    BY OverridesConstants DEF OverridesConstants
  <2> QED BY <2>1, <2>2, <2>3 DEF WithDuty, Override
<1>3. WinsOver(new, ov[n])
  BY <1>2 DEF WinsOver
<1> HIDE DEF new
<1>4. wire' = Broadcast(wire, n, new)
  BY <1>1 DEF TypeOK
<1>5. After(wire)
  <2>1. wire \in Wires
    BY <1>1 DEF TypeOK, Wires
  <2> QED BY <1>1, <2>1, AroundIs DEF After
<1>6. /\ ov' \in [Node -> Override] /\ wire' \in Wires
      /\ Wired' /\ Told' /\ Around' \subseteq Around \cup {new}
      /\ \A m \in Node : ov'[m].rev >= ov[m].rev
  BY <1>1, <1>2, <1>3, <1>4, <1>5, Changed
<1>7. TypeOK'
  BY <1>1, <1>6 DEF TypeOK, Wires
<1>8. \A o \in Around : o.by = n /\ n \notin rebooted => o.rev < new.rev
  <2>1. \A o \in Around : o.rev \in Nat
    BY <1>1, AroundIs DEF Override
  <2> QED BY <1>2, <2>1 DEF Inv, Newest
<1>9. n # -1
  BY OverridesConstants DEF OverridesConstants
<1>10. Newest'
  <2> SUFFICES ASSUME NEW o \in Around'
               PROVE  /\ o.by \in Node \cup {-1}
                      /\ o.by = -1 => o = NoEdit
                      /\ o.by \in Node \ rebooted' => o.rev <= ov'[o.by].rev
    BY DEF Newest
  <2>1. CASE o = new
    BY <1>1, <1>2, <1>9, <2>1 DEF TypeOK
  <2>2. CASE o \in Around
    <3>1. ASSUME o.by \in Node \ rebooted PROVE o.rev <= ov'[o.by].rev
      <4>1. o.rev <= ov[o.by].rev /\ ov'[o.by].rev >= ov[o.by].rev
        BY <1>6, <2>2, <3>1 DEF Inv, Newest
      <4>2. o.rev \in Nat /\ ov[o.by].rev \in Nat /\ ov'[o.by].rev \in Nat
        BY <1>1, <1>7, <2>2, <3>1, AroundIs DEF TypeOK, Override
      <4> QED BY <4>1, <4>2
    <3> QED BY <1>1, <2>2, <3>1 DEF Inv, Newest
  <2> QED BY <1>6, <2>1, <2>2
<1>11. OneEdit'
  <2> SUFFICES ASSUME NEW o \in Around', NEW q \in Around', o.by = q.by, o.rev = q.rev,
                      o.by \notin rebooted
               PROVE  o = q
    BY <1>1 DEF OneEdit
  <2>1. CASE o \in Around /\ q \in Around
    BY <2>1 DEF Inv, OneEdit
  <2>2. \A x \in Around : x.rev \in Nat
    BY <1>1, AroundIs DEF Override
  <2>3. CASE o = new /\ q \in Around
    BY <1>2, <1>8, <2>2, <2>3
  <2>4. CASE q = new /\ o \in Around
    BY <1>2, <1>8, <2>2, <2>4
  <2> QED BY <1>6, <2>1, <2>3, <2>4
<1> QED BY <1>6, <1>7, <1>10, <1>11 DEF Inv

LEMMA MergeInv ==
  ASSUME Inv, NEW n \in Node, NEW m \in Node, Merge(n, m)
  PROVE  Inv'
<1> DEFINE o == Head(wire[m][n])
           rest == [wire EXCEPT ![m][n] = Tail(@)]
<1>1. /\ wire[m][n] # <<>> /\ UNCHANGED <<pins, links, made, edits, rebooted>> /\ TypeOK
      /\ refused' = refused \cup {l \in {<<n, m>>} : ~Authentic(n, o)}
  BY DEF Merge, Inv
<1>2. \/ /\ Authentic(n, o) /\ WinsOver(o, ov[n])
         /\ ov' = [ov EXCEPT ![n] = o] /\ wire' = Broadcast(rest, n, o)
      \/ ~(Authentic(n, o) /\ WinsOver(o, ov[n])) /\ ov' = ov /\ wire' = rest
  BY DEF Merge
<1>3. wire[m][n] \in Seq(Override) /\ wire \in Wires
  BY <1>1 DEF TypeOK, Wires
<1>4. /\ Tail(wire[m][n]) \in Seq(Override) /\ o \in Override /\ o = wire[m][n][1] /\ 1 \in DOMAIN wire[m][n]
      /\ \A i \in DOMAIN Tail(wire[m][n]) : /\ i + 1 \in DOMAIN wire[m][n]
                                            /\ Tail(wire[m][n])[i] = wire[m][n][i + 1]
      /\ Tail(wire[m][n]) # <<>> =>
           Tail(wire[m][n])[Len(Tail(wire[m][n]))] = wire[m][n][Len(wire[m][n])]
      /\ Tail(wire[m][n]) = <<>> => o = wire[m][n][Len(wire[m][n])]
  BY <1>1, <1>3, Read
<1>5. /\ rest \in Wires /\ rest[m][n] = Tail(wire[m][n])
      /\ \A a, b \in Node : ~(a = m /\ b = n) => rest[a][b] = wire[a][b]
  BY <1>3, <1>4 DEF Wires
<1>6. Linked(m, n) /\ Linked(n, m) /\ m # n /\ wire[m][n][Len(wire[m][n])] = ov[m]
  BY <1>1 DEF Inv, Wired
<1>7. o \in Around
  BY <1>1, <1>4, AroundIs
<1> HIDE DEF rest, o
<1>8. After(rest)
  <2> SUFFICES ASSUME NEW a \in Node, NEW b \in Node
               PROVE  /\ \A i \in DOMAIN rest[a][b] : rest[a][b][i] \in Around
                      /\ rest[a][b] # <<>> => /\ wire[a][b] # <<>>
                                              /\ rest[a][b][Len(rest[a][b])] = wire[a][b][Len(wire[a][b])]
                      /\ rest[a][b] = <<>> => \/ wire[a][b] = <<>>
                                              \/ <<b, a>> \in refused'
                                              \/ ~WinsOver(ov[a], ov'[b])
    BY <1>5 DEF After
  <2>1. CASE a = m /\ b = n
    <3>1. \A i \in DOMAIN rest[a][b] : rest[a][b][i] \in Around
      <4>1. \A i \in DOMAIN Tail(wire[m][n]) : Tail(wire[m][n])[i] \in Around
        BY <1>1, <1>4, AroundIs
      <4> QED BY <1>5, <2>1, <4>1
    <3>2. rest[a][b] # <<>> => /\ wire[a][b] # <<>>
                               /\ rest[a][b][Len(rest[a][b])] = wire[a][b][Len(wire[a][b])]
      BY <1>1, <1>4, <1>5, <2>1
    <3>3. ASSUME rest[a][b] = <<>> PROVE <<b, a>> \in refused' \/ ~WinsOver(ov[a], ov'[b])
      <4>1. o = ov[a]
        BY <1>4, <1>5, <1>6, <2>1, <3>3
      <4>2. ov \in [Node -> Override]
        BY <1>1 DEF TypeOK
      <4>3. CASE ~Authentic(n, o)
        BY <1>1, <2>1, <4>3
      <4>4. CASE Authentic(n, o) /\ WinsOver(o, ov[n])
        <5>1. ov'[b] = o
          BY <1>2, <2>1, <4>2, <4>4
        <5> QED BY <1>4, <4>1, <5>1, Order
      <4>5. CASE ~WinsOver(o, ov[n])
        BY <1>2, <2>1, <4>1, <4>5
      <4> QED BY <4>3, <4>4, <4>5
    <3> QED BY <3>1, <3>2, <3>3
  <2>2. CASE ~(a = m /\ b = n)
    BY <1>1, <1>5, <2>2, AroundIs
  <2> QED BY <2>1, <2>2
<1>9. links' = links /\ refused \subseteq refused' /\ refused' \subseteq links'
  BY <1>1, <1>6 DEF TypeOK, Linked
<1>10. CASE ov' = [ov EXCEPT ![n] = o] /\ wire' = Broadcast(rest, n, o) /\ WinsOver(o, ov[n])
  <2>1. /\ ov' \in [Node -> Override] /\ wire' \in Wires
        /\ Wired' /\ Told' /\ Around' \subseteq Around \cup {o}
        /\ \A x \in Node : ov'[x].rev >= ov[x].rev
    BY <1>4, <1>8, <1>9, <1>10, Changed
  <2>2. TypeOK'
    BY <1>1, <1>9, <2>1 DEF TypeOK, Wires
  <2>3. Around' \subseteq Around /\ rebooted' = rebooted
    BY <1>1, <1>7, <2>1
  <2> QED BY <2>1, <2>2, <2>3, NothingNew DEF Inv
<1>11. CASE ov' = ov /\ wire' = rest
  <2>1. TypeOK'
    BY <1>1, <1>5, <1>9, <1>11 DEF TypeOK, Wires
  <2>2. Around' \subseteq Around
    <3>1. \A a \in Node : ov'[a] \in Around
      BY <1>1, <1>11, AroundIs
    <3>2. \A a, b \in Node : \A i \in DOMAIN wire'[a][b] : wire'[a][b][i] \in Around
      BY <1>8, <1>11 DEF After
    <3> QED BY <3>1, <3>2, AroundNext
  <2>3. \A x \in Node : ov'[x].rev >= ov[x].rev
    BY <1>1, <1>11 DEF TypeOK, Override
  <2>4. Newest' /\ OneEdit'
    <3>1. rebooted' = rebooted
      BY <1>1
    <3> QED BY <2>1, <2>2, <2>3, <3>1, NothingNew
  <2>5. Wired'
    <3> SUFFICES ASSUME NEW a \in Node, NEW b \in Node
                 PROVE  /\ Linked(a, b)' => a # b /\ Linked(b, a)'
                        /\ wire'[a][b] # <<>> => Linked(a, b)' /\ wire'[a][b][Len(wire'[a][b])] = ov'[a]
      BY DEF Wired
    <3>1. Linked(a, b)' <=> Linked(a, b)
      BY <1>9 DEF Linked
    <3>2. Linked(b, a)' <=> Linked(b, a)
      BY <1>9 DEF Linked
    <3>3. wire'[a][b] # <<>> => /\ wire[a][b] # <<>>
                                /\ wire'[a][b][Len(wire'[a][b])] = wire[a][b][Len(wire[a][b])]
      BY <1>8, <1>11 DEF After
    <3>4. wire[a][b] # <<>> => Linked(a, b) /\ wire[a][b][Len(wire[a][b])] = ov[a]
      BY DEF Inv, Wired
    <3>5. Linked(a, b) => a # b /\ Linked(b, a)
      BY DEF Inv, Wired
    <3> QED BY <1>11, <3>1, <3>2, <3>3, <3>4, <3>5
  <2>6. Told'
    BY <1>8, <1>9, <1>11 DEF After, Inv, Told, Linked
  <2> QED BY <2>1, <2>4, <2>5, <2>6 DEF Inv
<1> QED BY <1>2, <1>10, <1>11

\* Links come and go; with them the messages on their wires.
LEMMA LinkInv ==
  ASSUME Inv, NEW n \in Node, NEW m \in Node, Link(n, m)
  PROVE  Inv'
<1>a. n # m /\ TypeOK
  BY OverridesConstants DEF Link, Inv, OverridesConstants
<1>b. made' \in Nat
  BY <1>a DEF Link, TypeOK
<1>c. wire' = Rewired(wire, n, m, <<ov[n]>>, <<ov[m]>>)
  BY DEF Link, Rewired
<1>d. pins' \in [Node -> SUBSET Node]
  BY <1>a DEF Link, TypeOK
<1>1. /\ UNCHANGED <<ov, edits, refused, rebooted>>
      /\ links' = links \cup {<<n, m>>, <<m, n>>}
  BY DEF Link
<1>2. /\ wire' \in Wires /\ wire'[n][m] = <<ov[n]>> /\ wire'[m][n] = <<ov[m]>>
      /\ \A a, b \in Node : Apart(a, b, n, m) => wire'[a][b] = wire[a][b]
  <2>1. ov[n] \in Override /\ ov[m] \in Override
    BY <1>a DEF TypeOK
  <2>2. <<ov[n]>> \in Seq(Override) /\ <<ov[m]>> \in Seq(Override)
    BY <2>1
  <2>3. wire \in Wires
    BY <1>a DEF TypeOK, Wires
  <2> DEFINE s == <<ov[n]>>
             t == <<ov[m]>>
  <2>4. s \in Seq(Override) /\ t \in Seq(Override) /\ wire' = Rewired(wire, n, m, s, t)
    BY <1>c, <2>2
  <2> HIDE DEF s, t
  <2>5. /\ wire' \in Wires /\ wire'[n][m] = s /\ wire'[m][n] = t
        /\ \A a, b \in Node : Apart(a, b, n, m) => wire'[a][b] = wire[a][b]
    BY <1>a, <2>3, <2>4, TwoWires
  <2> QED BY <2>5 DEF s, t
<1>4. \A a, b \in Node : Linked(a, b)' <=> Linked(a, b) \/ ~Apart(a, b, n, m)
  BY <1>1 DEF Linked, Apart
<1>5. TypeOK'
  <2>1. wire' \in [Node -> [Node -> Seq(Override)]]
    BY <1>2 DEF Wires
  <2>2. links' \subseteq Node \X Node /\ refused' \subseteq links'
    BY <1>a, <1>1 DEF TypeOK
  <2> QED BY <1>a, <1>b, <1>d, <1>1, <2>1, <2>2 DEF TypeOK
<1>6. ASSUME NEW a \in Node, NEW b \in Node, ~Apart(a, b, n, m)
      PROVE  wire'[a][b] = <<ov[a]>> /\ a # b /\ ~Apart(b, a, n, m)
  BY <1>a, <1>2, <1>6 DEF Apart
<1>7. \A e : <<e>> # <<>> /\ Len(<<e>>) = 1 /\ <<e>>[1] = e /\ DOMAIN <<e>> = {1}
  OBVIOUS
<1>8. Wired'
  <2> SUFFICES ASSUME NEW a \in Node, NEW b \in Node
               PROVE  /\ Linked(a, b)' => a # b /\ Linked(b, a)'
                      /\ wire'[a][b] # <<>> => Linked(a, b)' /\ wire'[a][b][Len(wire'[a][b])] = ov'[a]
    BY DEF Wired
  <2>1. CASE ~Apart(a, b, n, m)
    <3>1. wire'[a][b][Len(wire'[a][b])] = ov'[a]
      BY <1>1, <1>6, <1>7, <2>1
    <3> QED BY <1>4, <1>6, <2>1, <3>1
  <2>2. CASE Apart(a, b, n, m)
    <3>1. wire'[a][b] = wire[a][b] /\ ov'[a] = ov[a] /\ Apart(b, a, n, m)
      BY <1>1, <1>2, <2>2 DEF Apart
    <3>2. Linked(a, b) => a # b /\ Linked(b, a)
      BY DEF Inv, Wired
    <3>3. wire[a][b] # <<>> => Linked(a, b) /\ wire[a][b][Len(wire[a][b])] = ov[a]
      BY DEF Inv, Wired
    <3> QED BY <1>4, <2>2, <3>1, <3>2, <3>3
  <2> QED BY <2>1, <2>2
<1>9. Told'
  <2> SUFFICES ASSUME NEW a \in Node, NEW b \in Node, Linked(a, b)', wire'[a][b] = <<>>,
                      <<b, a>> \notin refused'
               PROVE  ~WinsOver(ov'[a], ov'[b])
    BY DEF Told
  <2>1. Apart(a, b, n, m)
    BY <1>6, <1>7
  <2>2. Linked(a, b) /\ wire[a][b] = <<>> /\ <<b, a>> \notin refused
    BY <1>1, <1>2, <1>4, <2>1
  <2> QED BY <1>1, <2>2 DEF Inv, Told
<1>10. Around' \subseteq Around
  <2>1. \A a \in Node : ov'[a] \in Around
    BY <1>a, <1>1, AroundIs
  <2>2. \A a, b \in Node : \A i \in DOMAIN wire'[a][b] : wire'[a][b][i] \in Around
    <3> SUFFICES ASSUME NEW a \in Node, NEW b \in Node, NEW i \in DOMAIN wire'[a][b]
                 PROVE  wire'[a][b][i] \in Around
      OBVIOUS
    <3>1. CASE ~Apart(a, b, n, m)
      <4>1. wire'[a][b][i] = ov[a]
        BY <1>6, <1>7, <3>1
      <4> QED BY <1>a, <4>1, AroundIs
    <3>2. CASE Apart(a, b, n, m)
      BY <1>a, <1>2, <3>2, AroundIs
    <3> QED BY <3>1, <3>2
  <2> QED BY <2>1, <2>2, AroundNext
<1>11. Newest' /\ OneEdit'
  <2>1. rebooted' = rebooted /\ \A x \in Node : ov'[x].rev >= ov[x].rev
    BY <1>a, <1>1 DEF TypeOK, Override
  <2> QED BY <1>5, <1>10, <2>1, NothingNew
<1> QED BY <1>5, <1>8, <1>9, <1>11 DEF Inv

\* Some nodes' links are cut, and X, which are among them, start afresh.
LEMMA CutInv ==
  ASSUME Inv, NEW X \in SUBSET Node, TypeOK', rebooted' = rebooted \cup X,
         \A a \in Node : ov'[a] = IF a \in X THEN NoEdit ELSE ov[a],
         \A a, b \in Node : /\ Linked(a, b)' => Linked(a, b)
                            /\ Linked(a, b)' <=> Linked(b, a)'
                            /\ Linked(a, b)' => /\ wire'[a][b] = wire[a][b] /\ a \notin X /\ b \notin X
                                                /\ <<a, b>> \in refused => <<a, b>> \in refused'
                            /\ ~Linked(a, b)' => wire'[a][b] = <<>>
  PROVE  Inv'
<1>1. TypeOK
  BY DEF Inv
<1>2. Wired'
  <2> SUFFICES ASSUME NEW a \in Node, NEW b \in Node
               PROVE  /\ Linked(a, b)' => a # b /\ Linked(b, a)'
                      /\ wire'[a][b] # <<>> => Linked(a, b)' /\ wire'[a][b][Len(wire'[a][b])] = ov'[a]
    BY DEF Wired
  <2>1. Linked(a, b) => a # b
    BY DEF Inv, Wired
  <2>2. wire[a][b] # <<>> => wire[a][b][Len(wire[a][b])] = ov[a]
    BY DEF Inv, Wired
  <2>3. wire'[a][b] # <<>> => Linked(a, b)' /\ wire'[a][b] = wire[a][b] /\ ov'[a] = ov[a]
    OBVIOUS
  <2>4. Linked(a, b)' => Linked(b, a)' /\ Linked(a, b)
    OBVIOUS
  <2> QED BY <2>1, <2>2, <2>3, <2>4
<1>3. Told'
  <2> SUFFICES ASSUME NEW a \in Node, NEW b \in Node, Linked(a, b)', wire'[a][b] = <<>>,
                      <<b, a>> \notin refused'
               PROVE  ~WinsOver(ov'[a], ov'[b])
    BY DEF Told
  <2>1. Linked(a, b) /\ wire[a][b] = <<>> /\ <<b, a>> \notin refused /\ ov'[a] = ov[a] /\ ov'[b] = ov[b]
    OBVIOUS
  <2> QED BY <2>1 DEF Inv, Told
<1>4. \A o \in Around' : o \in Around \/ o = NoEdit
  <2>1. \A a, b \in Node : \A i \in DOMAIN wire'[a][b] : wire'[a][b][i] \in Around
    <3> SUFFICES ASSUME NEW a \in Node, NEW b \in Node, NEW i \in DOMAIN wire'[a][b]
                 PROVE  wire'[a][b][i] \in Around
      OBVIOUS
    <3>1. DOMAIN <<>> = {}
      OBVIOUS
    <3> QED BY <1>1, <3>1, AroundIs
  <2>2. \A a \in Node : ov'[a] \in Around \cup {NoEdit}
    BY <1>1, AroundIs
  <2> DEFINE S == Around \cup {NoEdit}
  <2>3. \A a, b \in Node : \A i \in DOMAIN wire'[a][b] : wire'[a][b][i] \in S
    BY <2>1
  <2>4. \A a \in Node : ov'[a] \in S
    BY <2>2
  <2> HIDE DEF S
  <2>5. Around' \subseteq S
    BY <2>3, <2>4, AroundNext
  <2> QED BY <2>5 DEF S
<1>5. -1 \notin Node
  BY OverridesConstants DEF OverridesConstants
<1>6. Newest'
  <2> SUFFICES ASSUME NEW o \in Around'
               PROVE  /\ o.by \in Node \cup {-1}
                      /\ o.by = -1 => o = NoEdit
                      /\ o.by \in Node \ rebooted' => o.rev <= ov'[o.by].rev
    BY DEF Newest
  <2>1. CASE o = NoEdit
    BY <1>5, <2>1 DEF NoEdit
  <2>2. CASE o \in Around
    <3>1. ASSUME o.by \in Node \ rebooted' PROVE ov'[o.by] = ov[o.by] /\ o.by \in Node \ rebooted
      BY <3>1
    <3> QED BY <2>2, <3>1 DEF Inv, Newest
  <2> QED BY <1>4, <2>1, <2>2
<1>7. OneEdit'
  <2> SUFFICES ASSUME NEW o \in Around', NEW q \in Around', o.by = q.by, o.rev = q.rev,
                      o.by \notin rebooted
               PROVE  o = q
    BY DEF OneEdit
  <2>1. CASE o.by = -1
    <3>1. o = NoEdit /\ q = NoEdit
      BY <1>4, <2>1 DEF Inv, Newest
    <3> QED BY <3>1
  <2>2. CASE o.by # -1
    <3>1. o \in Around /\ q \in Around
      BY <1>4, <2>2 DEF NoEdit
    <3> QED BY <3>1 DEF Inv, OneEdit
  <2> QED BY <2>1, <2>2
<1> QED BY <1>2, <1>3, <1>6, <1>7 DEF Inv

LEMMA UnlinkInv ==
  ASSUME Inv, NEW n \in Node, NEW m \in Node, Unlink(n, m)
  PROVE  Inv'
<1>a. TypeOK /\ n # m
  BY DEF Unlink, Inv, Wired
<1>b. wire' = Rewired(wire, n, m, <<>>, <<>>)
  BY DEF Unlink, Rewired
<1>1. /\ UNCHANGED <<ov, pins, made, edits, rebooted>>
      /\ links' = links \ {<<n, m>>, <<m, n>>} /\ refused' = refused \ {<<n, m>>, <<m, n>>}
  BY DEF Unlink
<1>2. /\ wire' \in Wires /\ wire'[n][m] = <<>> /\ wire'[m][n] = <<>>
      /\ \A a, b \in Node : Apart(a, b, n, m) => wire'[a][b] = wire[a][b]
  <2>1. wire \in Wires
    BY <1>a DEF TypeOK, Wires
  <2> DEFINE s == <<>>
  <2>2. s \in Seq(Override) /\ wire' = Rewired(wire, n, m, s, s)
    BY <1>b
  <2> HIDE DEF s
  <2>3. /\ wire' \in Wires /\ wire'[n][m] = s /\ wire'[m][n] = s
        /\ \A a, b \in Node : Apart(a, b, n, m) => wire'[a][b] = wire[a][b]
    BY <1>a, <2>1, <2>2, TwoWires
  <2> QED BY <2>3 DEF s
<1>3. TypeOK'
  <2>1. wire' \in [Node -> [Node -> Seq(Override)]]
    BY <1>2 DEF Wires
  <2>2. links' \subseteq Node \X Node /\ refused' \subseteq links'
    BY <1>a, <1>1 DEF TypeOK
  <2> QED BY <1>a, <1>1, <2>1, <2>2 DEF TypeOK
<1>4. \A a, b \in Node : Linked(a, b)' <=> Linked(a, b) /\ Apart(a, b, n, m)
  BY <1>1 DEF Linked, Apart
<1>5. ASSUME NEW a \in Node, NEW b \in Node
      PROVE  /\ Linked(a, b)' => Linked(a, b)
             /\ Linked(a, b)' <=> Linked(b, a)'
             /\ Linked(a, b)' => /\ wire'[a][b] = wire[a][b] /\ a \notin {} /\ b \notin {}
                                 /\ <<a, b>> \in refused => <<a, b>> \in refused'
             /\ ~Linked(a, b)' => wire'[a][b] = <<>>
  <2>1. Linked(a, b) <=> Linked(b, a)
    BY DEF Inv, Wired
  <2>2. ~Linked(a, b) => wire[a][b] = <<>>
    BY DEF Inv, Wired
  <2>3. ~Linked(a, b)' => wire'[a][b] = <<>>
    BY <1>2, <1>4, <2>2 DEF Apart
  <2>4. Apart(a, b, n, m) /\ <<a, b>> \in refused => <<a, b>> \in refused'
    BY <1>1 DEF Apart
  <2> QED BY <1>2, <1>4, <2>1, <2>3, <2>4 DEF Apart
<1>6. /\ {} \in SUBSET Node /\ rebooted' = rebooted \cup {}
      /\ \A a \in Node : ov'[a] = IF a \in {} THEN NoEdit ELSE ov[a]
  BY <1>1
<1> QED BY <1>3, <1>5, <1>6, CutInv

LEMMA RestartInv ==
  ASSUME Inv, NEW n \in Node, Restart(n)
  PROVE  Inv'
<1>1. /\ UNCHANGED <<made, edits>> /\ TypeOK
      /\ ov' = [ov EXCEPT ![n] = NoEdit] /\ pins' = [pins EXCEPT ![n] = {n}]
      /\ links' = {l \in links : n \notin {l[1], l[2]}}
      /\ refused' = {l \in refused : n \notin {l[1], l[2]}}
      /\ wire' = [a \in Node |-> [b \in Node |-> IF n \in {a, b} THEN <<>> ELSE wire[a][b]]]
      /\ rebooted' = rebooted \cup {n}
  BY DEF Restart, Inv
<1>2. wire' \in Wires /\ \A a, b \in Node : wire'[a][b] = IF n \in {a, b} THEN <<>> ELSE wire[a][b]
  <2>1. \A a, b \in Node : wire[a][b] \in Seq(Override) /\ <<>> \in Seq(Override)
    BY <1>1 DEF TypeOK
  <2> QED BY <1>1, <2>1 DEF Wires
<1>3. TypeOK'
  BY <1>1, <1>2, NoEditTyped DEF TypeOK, Wires
<1>4. \A a, b \in Node : Linked(a, b)' <=> Linked(a, b) /\ n \notin {a, b}
  BY <1>1 DEF Linked
<1>5. ASSUME NEW a \in Node, NEW b \in Node
      PROVE  /\ Linked(a, b)' => Linked(a, b)
             /\ Linked(a, b)' <=> Linked(b, a)'
             /\ Linked(a, b)' => /\ wire'[a][b] = wire[a][b] /\ a \notin {n} /\ b \notin {n}
                                 /\ <<a, b>> \in refused => <<a, b>> \in refused'
             /\ ~Linked(a, b)' => wire'[a][b] = <<>>
  BY <1>1, <1>2, <1>4 DEF Inv, Wired
<1>6. \A a \in Node : ov'[a] = IF a \in {n} THEN NoEdit ELSE ov[a]
  BY <1>1 DEF TypeOK
<1>7. {n} \in SUBSET Node /\ rebooted' = rebooted \cup {n}
  BY <1>1
<1> QED BY <1>3, <1>5, <1>6, <1>7, CutInv

LEMMA NextInv ==
  ASSUME Inv, [Next]_vars
  PROVE  Inv'
<1>1. ASSUME UNCHANGED <<ov, links, wire, made, edits, refused, rebooted>>, pins' \in [Node -> SUBSET Node]
      PROVE  Inv'
  <2>a. TypeOK'
    BY <1>1 DEF Inv, TypeOK
  <2>b. \A a, b \in Node : Linked(a, b)' <=> Linked(a, b)
    BY <1>1 DEF Linked
  <2>c. Wired'
    BY <1>1, <2>b DEF Inv, Wired
  <2>1. TypeOK' /\ Wired' /\ Told'
    BY <1>1, <2>a, <2>b, <2>c DEF Inv, Told
  <2>2. Around' = Around
    BY <1>1 DEF Around, Sent
  <2>3. Newest'
    BY <1>1, <2>2 DEF Inv, Newest
  <2>4. OneEdit'
    BY <1>1, <2>2 DEF Inv, OneEdit
  <2> QED BY <2>1, <2>3, <2>4 DEF Inv
<1>2. ASSUME NEW n \in Node, NEW m \in Node, Forget(n, m) PROVE Inv'
  <2>1. pins' \in [Node -> SUBSET Node]
    BY <1>2 DEF Forget, Inv, TypeOK
  <2> QED BY <1>1, <1>2, <2>1 DEF Forget
<1>3. ASSUME NEW n \in Node, NEW m \in Node, NEW x \in Node, HearOf(n, m, x) PROVE Inv'
  <2>1. pins' \in [Node -> SUBSET Node]
    BY <1>3 DEF HearOf, Inv, TypeOK
  <2> QED BY <1>1, <1>3, <2>1 DEF HearOf
<1>4. CASE UNCHANGED vars
  BY <1>1, <1>4 DEF vars, Inv, TypeOK
<1> QED BY <1>2, <1>3, <1>4, EditInv, MergeInv, LinkInv, UnlinkInv, RestartInv DEF Next

\* Every variable stays in its type, so that no message of a wire is lost from
\* its end and no refusal outlives its link (_merge_overrides, _broadcast).
THEOREM OverridesTypes ==
  Spec => []TypeOK
<1>1. Inv => TypeOK
  BY DEF Inv
<1> QED BY <1>1, InitInv, NextInv, PTL DEF Spec

\* With nothing under way between them two linked nodes hold the same table,
\* whatever edits raced and however they were relayed (wins_over, with_duty,
\* _merge_overrides).
THEOREM OverridesAgree ==
  Spec => []LinkedAgree
<1>1. ASSUME Inv PROVE LinkedAgree
  <2> SUFFICES ASSUME NEW n \in Node, NEW m \in Node, Linked(n, m), wire[n][m] = <<>>, wire[m][n] = <<>>,
                      {<<n, m>>, <<m, n>>} \cap refused = {}, ov[n].by \notin rebooted
               PROVE  ov[n] = ov[m]
    BY DEF LinkedAgree
  <2>1. ~WinsOver(ov[n], ov[m]) /\ ~WinsOver(ov[m], ov[n])
    BY <1>1 DEF Inv, Told, Wired
  <2>2. ov[n] \in Override /\ ov[m] \in Override /\ ov[n] \in Around /\ ov[m] \in Around
    BY <1>1, AroundIs DEF Inv, TypeOK
  <2>3. ov[n].rev = ov[m].rev /\ ov[n].by = ov[m].by
    BY <2>1, <2>2, Order
  <2> QED BY <1>1, <2>2, <2>3 DEF Inv, OneEdit
<1> QED BY <1>1, InitInv, NextInv, PTL DEF Spec

----------------------------------------------------------------------------
(* The beacon sockets (Beacons) *)

BeaconsTyped ==
  /\ gate \in {"open", "denied"} /\ net \in {"up", "down"}
  /\ send \in {"open", "denied"} /\ recv \in {"open", "denied"}
  /\ blocked \in BOOLEAN /\ deaf \in BOOLEAN /\ ticks \in 0..2

Sends == send = "open" /\ net = "up"
Why == IF net = "up" THEN "local-network" ELSE "network-down"

\* From the first tick after a change on, a node knows whether its socket sends,
\* and if not, why; from the second on, its socket has the verdict of now.
BeaconsInv ==
  /\ BeaconsTyped
  /\ ticks >= 1 => (blocked <=> ~Sends)
  /\ (ticks >= 1 /\ blocked) => reason = Why
  /\ (~blocked /\ send = "open") => (recv = "open" \/ deaf)
  /\ (ticks = 2 /\ gate = "open" /\ net = "up") => ~blocked

LEMMA TickBeacons ==
  ASSUME BeaconsInv, NEW sendFails \in BOOLEAN, NEW recvFails \in BOOLEAN, B!Tick(sendFails, recvFails)
  PROVE  BeaconsInv'
<1> DEFINE failed == blocked /\ (sendFails \/ recvFails)
           recovers == blocked /\ send' = "open" /\ net = "up"
<1>1. gate' = gate /\ net' = net /\ ticks' = (IF failed THEN 0 ELSE IF ticks < 2 THEN ticks + 1 ELSE ticks)
  BY DEF B!Tick
<1>2. send' = (IF blocked /\ ~sendFails THEN gate ELSE send)
  BY DEF B!Tick
<1>3. recv' = (IF recovers /\ ~recvFails THEN gate ELSE recv)
  BY DEF B!Tick
<1>4. deaf' = (IF recovers THEN failed /\ recv' # "open" ELSE deaf)
  BY DEF B!Tick
<1>5. blocked' = ~(send' = "open" /\ net = "up")
  BY DEF B!Tick
<1>6. blocked' \in BOOLEAN /\ (blocked' <=> ~Sends')
  BY <1>1, <1>5 DEF Sends
<1>7. blocked' => reason' = Why'
  BY <1>1 DEF B!Tick, B!Diagnosed, B!Classified, Why
<1>8. deaf' \in BOOLEAN
  <2>1. CASE recovers
    BY <1>4, <2>1
  <2>2. CASE ~recovers
    BY <1>4, <2>2 DEF BeaconsInv, BeaconsTyped
  <2> QED BY <2>1, <2>2
<1>9. BeaconsTyped'
  <2>1. gate' \in {"open", "denied"} /\ net' \in {"up", "down"} /\ send' \in {"open", "denied"} /\ recv' \in {"open", "denied"}
    BY <1>1, <1>2, <1>3 DEF BeaconsInv, BeaconsTyped
  <2>2. ticks' \in 0..2
    BY <1>1 DEF BeaconsInv, BeaconsTyped
  <2> QED BY <1>6, <1>8, <2>1, <2>2 DEF BeaconsTyped
<1>10. (~blocked' /\ send' = "open") => (recv' = "open" \/ deaf')
  <2>1. SUFFICES ASSUME ~blocked', send' = "open", recv' # "open" PROVE deaf'
    OBVIOUS
  <2>2. net = "up"
    BY <1>1, <1>6, <2>1 DEF Sends, BeaconsInv, BeaconsTyped
  <2>3. CASE blocked
    <3>1. recovers
      BY <2>1, <2>2, <2>3
    <3>2. failed
      BY <1>2, <1>3, <2>1, <2>3, <3>1
    <3> QED BY <1>4, <2>1, <3>1, <3>2
  <2>4. CASE ~blocked
    <3>1. send = "open" /\ recv # "open" /\ deaf
      BY <1>2, <1>3, <2>1, <2>4 DEF BeaconsInv
    <3> QED BY <1>4, <2>4, <3>1
  <2> QED BY <2>3, <2>4
<1>11. (ticks' = 2 /\ gate' = "open" /\ net' = "up") => ~blocked'
  <2>1. SUFFICES ASSUME ticks' = 2, gate = "open", net = "up" PROVE send' = "open"
    BY <1>1, <1>6 DEF Sends
  <2>2. ticks >= 1 /\ ~failed
    BY <1>1, <2>1 DEF BeaconsInv, BeaconsTyped
  <2>3. CASE blocked
    BY <1>2, <2>1, <2>2, <2>3
  <2>4. CASE ~blocked
    BY <1>2, <2>2, <2>4 DEF BeaconsInv, Sends
  <2> QED BY <2>3, <2>4
<1> QED BY <1>6, <1>7, <1>9, <1>10, <1>11 DEF BeaconsInv

\* Two ticks after the last change a node that may reach the LAN beacons and
\* hears beacons, unless the rebuild of a socket failed, and one that cannot
\* gives the reason as of now (_note_beacon_sends, _rebuild_send_sock).
THEOREM BeaconsSettleSoon ==
  B!Spec => []BeaconsSettle
<1>1. B!Init => BeaconsInv
  <2>1. SUFFICES ASSUME B!Init PROVE BeaconsInv
    OBVIOUS
  <2>2. send = gate /\ recv = gate /\ blocked = FALSE /\ ticks = 0 /\ deaf = FALSE
        /\ gate \in {"open", "denied"} /\ net \in {"up", "down"}
    BY <2>1 DEF B!Init
  <2>3. BeaconsTyped /\ ~(ticks >= 1) /\ ~(ticks = 2)
    <3>1. ticks \in 0..2 /\ ~(ticks >= 1) /\ ~(ticks = 2)
      BY <2>2
    <3>2. blocked \in BOOLEAN /\ deaf \in BOOLEAN
      BY Zenon, <2>2
    <3> QED BY <2>2, <3>1, <3>2 DEF BeaconsTyped
  <2>4. ~blocked /\ (send = "open" => recv = "open")
    BY <2>2
  <2> QED BY <2>3, <2>4 DEF BeaconsInv
<1>2. BeaconsInv /\ [B!Next]_(B!vars) => BeaconsInv'
  <2>1. SUFFICES ASSUME BeaconsInv, [B!Next]_(B!vars) PROVE BeaconsInv'
    OBVIOUS
  <2>2. CASE UNCHANGED B!vars
    BY <2>1, <2>2 DEF B!vars, BeaconsInv, BeaconsTyped, Sends, Why
  <2>3. ASSUME NEW g \in {"open", "denied"}, NEW n \in {"up", "down"}, B!Changes(g, n)
        PROVE  BeaconsInv'
    <3>1. /\ gate' = g /\ net' = n /\ ticks' = 0 /\ send' = send /\ recv' = recv
          /\ blocked' = blocked /\ deaf' = deaf
      BY <2>3 DEF B!Changes
    <3>2. BeaconsTyped' /\ ~(ticks' >= 1) /\ ~(ticks' = 2)
      BY <2>1, <3>1 DEF BeaconsInv, BeaconsTyped
    <3> QED BY <2>1, <3>1, <3>2 DEF BeaconsInv
  <2> QED BY <2>1, <2>2, <2>3, TickBeacons DEF B!Next
<1>3. BeaconsInv => BeaconsSettle
  <2>1. SUFFICES ASSUME BeaconsInv, ticks = 2 PROVE BeaconsSettle
    BY DEF BeaconsSettle, B!BeaconsSettle
  <2>2. (blocked <=> ~Sends) /\ (blocked => reason = Why)
    BY <2>1 DEF BeaconsInv, BeaconsTyped
  <2>3. (gate = "open" /\ net = "up") => ~blocked
    BY <2>1 DEF BeaconsInv
  <2>4. ~blocked => (recv = "open" \/ deaf)
    BY <2>1, <2>2 DEF BeaconsInv, Sends
  <2> QED BY <2>2, <2>3, <2>4 DEF BeaconsSettle, B!BeaconsSettle, Why
<1> QED BY <1>1, <1>2, <1>3, PTL DEF B!Spec

----------------------------------------------------------------------------
(* What a node keeps, and tells of its token budget (NodeState) *)

Files == {"trusted", "level", "banned", "tokens"}

\* All four are there, in memory and on disk.
Shaped(k) == k = [f \in Files |-> k[f]]

LEMMA SomeFiles ==
  ASSUME NEW k, Shaped(k), NEW file,
         NEW l, l = [f \in DOMAIN k |-> IF f \in DOMAIN file THEN file[f] ELSE k[f]]
  PROVE  Shaped(l) /\ \A f \in Files : l[f] = IF f \in DOMAIN file THEN file[f] ELSE k[f]
<1>1. DOMAIN k = Files
  BY DEF Shaped
<1> QED BY <1>1 DEF Shaped

\* What peers are told depends on the token state and the budget only.
LEMMA SameNews ==
  ASSUME NEW k, NEW l, k["tokens"] = l["tokens"], NEW b
  PROVE  Budget!Gossiped(k, b) = Budget!Gossiped(l, b)
BY DEF Budget!Gossiped, Budget!CurrentTokens

\* Linked, and told of every probe, a peer knows the budget; once the probes of
\* the start are over, the one of the loop began with the budget there still is.
BudgetInv ==
  /\ Shaped(mem) /\ Shaped(disk)
  /\ probing = [w \in Budget!Probes |-> probing[w]]
  /\ (up /\ linked /\ ~missed) => held = Budget!Gossiped(mem, budget)
  /\ ~seeding => probing["start"] = Budget!Idle
  /\ (~seeding /\ probing["loop"] # Budget!Idle) => probing["loop"][2] = budget

LEMMA BudgetSaved ==
  ASSUME Shaped(disk), NEW file, Budget!Saved(file)
  PROVE  Shaped(disk')
<1>1. CASE disk' = disk
  BY <1>1 DEF Shaped
<1>2. CASE disk' = [f \in DOMAIN disk |-> IF f \in DOMAIN file THEN file[f] ELSE disk[f]]
  <2>1. PICK l : l = [f \in DOMAIN disk |-> IF f \in DOMAIN file THEN file[f] ELSE disk[f]]
    OBVIOUS
  <2>2. Shaped(l) /\ disk' = l
    BY <1>2, <2>1, SomeFiles
  <2> QED BY <2>2 DEF Shaped
<1> QED BY <1>1, <1>2 DEF Budget!Saved

\* A step that leaves the token state and the advert alone.
LEMMA NoNews ==
  ASSUME BudgetInv, Shaped(mem'), Shaped(disk'), mem'["tokens"] = mem["tokens"],
         up' => up, UNCHANGED <<budget, probing, seeding, linked, held, missed>>
  PROVE  BudgetInv'
<1>1. Budget!Gossiped(mem', budget) = Budget!Gossiped(mem, budget)
  BY SameNews
<1>2. PICK m : m = mem'
  OBVIOUS
<1>3. Budget!Gossiped(m, budget) = Budget!Gossiped(mem, budget)
  BY <1>1, <1>2
<1>4. (Budget!Gossiped(mem, budget))' = Budget!Gossiped(mem, budget)
  BY <1>2, <1>3 DEF Budget!Gossiped, Budget!CurrentTokens, Budget!StateOf
<1> QED BY <1>4 DEF BudgetInv, Budget!Probes, Budget!Idle

\* A control command that edits the allowlist, the ban list or the level.
LEMMA EditNoNews ==
  ASSUME BudgetInv, NEW f \in Files, f # "tokens", NEW x,
         mem' = mem \/ mem' = [mem EXCEPT ![f] = x], Shaped(disk'),
         UNCHANGED <<up, budget, probing, seeding, linked, held, missed>>
  PROVE  BudgetInv'
<1>1. PICK m : m = mem'
  OBVIOUS
<1>2. Shaped(m) /\ m["tokens"] = mem["tokens"]
  <2>1. CASE m = mem
    BY <2>1 DEF BudgetInv
  <2>2. CASE m = [mem EXCEPT ![f] = x]
    <3>1. "tokens" \in Files /\ Shaped(mem)
      BY DEF BudgetInv, Files
    <3> QED BY <2>2, <3>1 DEF Shaped
  <2> QED BY <1>1, <2>1, <2>2
<1>3. Shaped(mem') /\ mem'["tokens"] = mem["tokens"]
  BY <1>1, <1>2 DEF Shaped
<1> QED BY <1>3, NoNews

\* A peer that is told now knows the budget.
LEMMA TellBudget ==
  ASSUME BudgetInv, Budget!Tell, Shaped(mem'), Shaped(disk'), probing' = [w \in Budget!Probes |-> probing'[w]],
         ~seeding' => probing'["start"] = Budget!Idle,
         (~seeding' /\ probing'["loop"] # Budget!Idle) => probing'["loop"][2] = budget'
  PROVE  BudgetInv'
<1>1. (up' /\ linked' /\ ~missed') => held' = Budget!Gossiped(mem', budget')
  BY DEF Budget!Tell
<1>2. PICK m, b : m = mem' /\ b = budget'
  OBVIOUS
<1>3. Budget!Gossiped(m, b) = (Budget!Gossiped(mem, budget))'
  BY <1>2 DEF Budget!Gossiped, Budget!CurrentTokens, Budget!StateOf
<1> QED BY <1>1, <1>2, <1>3 DEF BudgetInv, Budget!Probes, Budget!Idle

LEMMA BootBudget ==
  ASSUME BudgetInv, Budget!Boot
  PROVE  BudgetInv'
<1>1. PICK l, m : m = mem' /\ m = [disk EXCEPT !["level"] = l]
  BY DEF Budget!Boot
<1>2. "level" \in Files /\ Shaped(disk)
  BY DEF BudgetInv, Files
<1>3. Shaped(m)
  BY <1>1, <1>2 DEF Shaped
<1>4. Shaped(mem') /\ Shaped(disk')
  BY <1>1, <1>2, <1>3 DEF Shaped, Budget!Boot
<1>5. probing' = [w \in Budget!Probes |-> probing'[w]]
  BY DEF Budget!Boot
<1>6. ~linked' /\ seeding'
  BY DEF Budget!Boot
<1> QED BY <1>4, <1>5, <1>6 DEF BudgetInv, Budget!Probes

LEMMA CommandBudget ==
  ASSUME BudgetInv, NEW d, NEW l, NEW op, NEW byOperator \in BOOLEAN,
         Budget!Begins(op, d) \/ Budget!Untrust(d) \/ Budget!Unban(d) \/ Budget!SetDefault(l)
         \/ Budget!Finishes(byOperator)
  PROVE  BudgetInv'
<1> USE DEF Budget!Others
<1>1. {"trusted", "banned", "level"} \subseteq Files \ {"tokens"}
  BY DEF Files
<1>2. Shaped(disk')
  <2>1. disk' = disk \/ \E file : Budget!Saved(file)
    BY DEF Budget!Begins, Budget!Untrust, Budget!Unban, Budget!SetDefault, Budget!Finishes, Budget!Allow, Budget!Unsaved
  <2>2. ASSUME disk' = disk PROVE Shaped(disk')
    BY <2>2 DEF BudgetInv, Shaped
  <2> QED BY <2>1, <2>2, BudgetSaved DEF BudgetInv
<1>3. UNCHANGED <<up, budget, probing, seeding, linked, held, missed>>
  BY DEF Budget!Begins, Budget!Untrust, Budget!Unban, Budget!SetDefault, Budget!Finishes, Budget!adverts
<1>4. \/ mem' = mem
      \/ \E x : mem' = [mem EXCEPT !["trusted"] = x]
      \/ \E x : mem' = [mem EXCEPT !["banned"] = x]
      \/ \E x : mem' = [mem EXCEPT !["level"] = x]
  <2>1. CASE Budget!Begins(op, d) \/ Budget!Untrust(d)
    BY <2>1 DEF Budget!Begins, Budget!Untrust, Budget!Allow
  <2>2. CASE Budget!Unban(d) \/ Budget!Finishes(byOperator)
    BY <2>2 DEF Budget!Unban, Budget!Finishes, Budget!WithBan, Budget!WithoutBan
  <2>3. CASE Budget!SetDefault(l)
    BY <2>3 DEF Budget!SetDefault
  <2> QED BY <2>1, <2>2, <2>3
<1> QED BY <1>1, <1>2, <1>3, <1>4, EditNoNews

LEMMA SetTokensBudget ==
  ASSUME BudgetInv, NEW o, NEW byOperator \in BOOLEAN, Budget!SetTokens(o, byOperator)
  PROVE  BudgetInv'
<1>1. PICK m : m = mem' /\ m = [mem EXCEPT !["tokens"] = o]
  BY DEF Budget!SetTokens, Budget!Applied
<1>2. "tokens" \in Files /\ Shaped(mem)
  BY DEF BudgetInv, Files
<1>3. Shaped(m)
  BY <1>1, <1>2 DEF Shaped
<1>4. Shaped(mem')
  BY <1>1, <1>3 DEF Shaped
<1>5. Shaped(disk')
  <2>1. disk' = disk \/ \E file : Budget!Saved(file)
    BY DEF Budget!SetTokens, Budget!Unsaved
  <2>2. ASSUME disk' = disk PROVE Shaped(disk')
    BY <2>2 DEF BudgetInv, Shaped
  <2> QED BY <2>1, <2>2, BudgetSaved DEF BudgetInv
<1>6. UNCHANGED <<up, budget, probing, seeding, linked>>
  BY DEF Budget!SetTokens
<1>7. CASE mem' = mem
  BY <1>4, <1>5, <1>6, <1>7, NoNews DEF Budget!SetTokens
<1>8. CASE mem' # mem
  <2>1. Budget!Tell
    BY <1>8 DEF Budget!SetTokens
  <2>2. /\ probing' = [w \in Budget!Probes |-> probing'[w]]
        /\ ~seeding' => probing'["start"] = Budget!Idle
        /\ (~seeding' /\ probing'["loop"] # Budget!Idle) => probing'["loop"][2] = budget'
    BY <1>6 DEF BudgetInv
  <2> QED BY <1>4, <1>5, <2>1, <2>2, TellBudget
<1> QED BY <1>7, <1>8

LEMMA LinkBudget ==
  ASSUME BudgetInv, Budget!LinkUp \/ Budget!LinkDown
  PROVE  BudgetInv'
<1>1. Budget!Tell /\ UNCHANGED <<mem, disk, budget, probing, seeding>>
  BY DEF Budget!LinkUp, Budget!LinkDown, Budget!Quiet, Budget!files
<1>2. Shaped(mem') /\ Shaped(disk')
  BY <1>1 DEF BudgetInv, Shaped
<1>3. /\ probing' = [w \in Budget!Probes |-> probing'[w]]
      /\ ~seeding' => probing'["start"] = Budget!Idle
      /\ (~seeding' /\ probing'["loop"] # Budget!Idle) => probing'["loop"][2] = budget'
  BY <1>1 DEF BudgetInv
<1> QED BY <1>1, <1>2, <1>3, TellBudget

LEMMA ProbeBeginsBudget ==
  ASSUME BudgetInv, Budget!ProbeBegins
  PROVE  BudgetInv'
<1>1. /\ UNCHANGED <<up, mem, disk, budget, seeding, linked, held, missed>> /\ ~seeding
      /\ probing' = [probing EXCEPT !["loop"] = Budget!Gossiped(mem, budget)]
  BY DEF Budget!ProbeBegins, Budget!Quiet, Budget!files
<1>2. probing' = [w \in Budget!Probes |-> probing'[w]] /\ probing'["start"] = probing["start"]
      /\ probing'["loop"] = Budget!Gossiped(mem, budget)
  BY <1>1 DEF BudgetInv, Budget!Probes
<1>3. Budget!Gossiped(mem, budget)[2] = budget
  BY DEF Budget!Gossiped
<1>4. (Budget!Gossiped(mem, budget))' = Budget!Gossiped(mem, budget)
  BY <1>1 DEF Budget!Gossiped, Budget!CurrentTokens, Budget!StateOf
<1>5. Shaped(mem') /\ Shaped(disk')
  BY <1>1 DEF BudgetInv, Shaped
<1> QED BY <1>1, <1>2, <1>3, <1>4, <1>5 DEF BudgetInv, Budget!Probes, Budget!Idle

LEMMA ProbeEndsBudget ==
  ASSUME BudgetInv, NEW w \in Budget!Probes, NEW b, Budget!ProbeEnds(w, b)
  PROVE  BudgetInv'
<1>1. /\ UNCHANGED <<up, mem, disk, linked>> /\ probing[w] # Budget!Idle /\ budget' = b
      /\ probing' = [probing EXCEPT ![w] = Budget!Idle]
      /\ seeding' <=> (seeding /\ probing' # [v \in Budget!Probes |-> Budget!Idle])
  BY DEF Budget!ProbeEnds, Budget!Quiet, Budget!files
<1>2. probing' = [v \in Budget!Probes |-> probing'[v]] /\ probing'[w] = Budget!Idle
      /\ \A v \in Budget!Probes : v # w => probing'[v] = probing[v]
  BY <1>1 DEF BudgetInv
<1>3. Shaped(mem') /\ Shaped(disk')
  BY <1>1 DEF BudgetInv, Shaped
<1>4. ~seeding' => probing'["start"] = Budget!Idle /\ probing'["loop"] = Budget!Idle
  <2>1. CASE seeding
    BY <1>1, <2>1 DEF Budget!Probes
  <2>2. CASE ~seeding
    <3>1. probing["start"] = Budget!Idle /\ w = "loop"
      BY <1>1, <2>2 DEF BudgetInv, Budget!Probes
    <3> QED BY <1>2, <3>1 DEF Budget!Probes
  <2> QED BY <2>1, <2>2
<1>5. CASE w = "loop" /\ Budget!Gossiped(mem, b) # probing[w]
  <2>1. Budget!Tell
    BY <1>5 DEF Budget!ProbeEnds
  <2> QED BY <1>2, <1>3, <1>4, <2>1, TellBudget
<1>6. CASE ~(w = "loop" /\ Budget!Gossiped(mem, b) # probing[w])
  <2>1. held' = held /\ (missed' <=> (missed \/ (seeding /\ linked /\ held # Budget!Gossiped(mem, b))))
    BY <1>6 DEF Budget!ProbeEnds
  <2>2. ASSUME up, linked, ~missed, ~(seeding /\ held # Budget!Gossiped(mem, b))
        PROVE  held = Budget!Gossiped(mem, b)
    <3>1. CASE seeding
      BY <2>2, <3>1
    <3>2. CASE ~seeding
      <4>1. w = "loop"
        BY <1>1, <3>2 DEF BudgetInv, Budget!Probes
      <4>2. Budget!Gossiped(mem, b)[2] = budget
        BY <1>1, <1>6, <3>2, <4>1 DEF BudgetInv
      <4>3. b = budget
        BY <4>2 DEF Budget!Gossiped
      <4> QED BY <2>2, <4>3 DEF BudgetInv
    <3> QED BY <3>1, <3>2
  <2>3. Budget!Gossiped(mem, b) = (Budget!Gossiped(mem, budget))'
    BY <1>1 DEF Budget!Gossiped, Budget!CurrentTokens, Budget!StateOf
  <2>4. ((up /\ linked /\ ~missed) => held = Budget!Gossiped(mem, budget))'
    BY <1>1, <2>1, <2>2, <2>3
  <2> QED BY <1>2, <1>3, <1>4, <2>4 DEF BudgetInv, Budget!Probes, Budget!Idle
<1> QED BY <1>5, <1>6

\* Between probes, a peer that linked after the probes of the start, or was told
\* since, knows the token state and the budget of the node, whatever edits and
\* probes overlapped (_refresh_tokens, _bump_and_gossip).
THEOREM PeersKnowTheBudget ==
  Budget!Spec => []PeersKnowBudget
<1>1. Budget!Init => BudgetInv
  <2>1. SUFFICES ASSUME Budget!Init PROVE BudgetInv
    OBVIOUS
  <2>2. PICK k : k = [trusted |-> {}, level |-> "", banned |-> {}, tokens |-> "auto"]
    OBVIOUS
  <2>3. mem = k /\ disk = k /\ probing = [w \in Budget!Probes |-> Budget!Idle] /\ ~up /\ ~seeding
    BY <2>1, <2>2 DEF Budget!Init
  <2>4. Shaped(k)
    BY <2>2 DEF Shaped, Files
  <2> QED BY <2>3, <2>4 DEF BudgetInv, Budget!Probes
<1>2. BudgetInv /\ [Budget!Next]_(Budget!vars) => BudgetInv'
  <2>1. SUFFICES ASSUME BudgetInv, [Budget!Next]_(Budget!vars) PROVE BudgetInv'
    OBVIOUS
  <2>2. ASSUME UNCHANGED <<mem, disk, budget, probing, seeding, linked, held, missed>>, up' => up
        PROVE  BudgetInv'
    <3>1. Shaped(mem') /\ Shaped(disk') /\ mem'["tokens"] = mem["tokens"]
      BY <2>1, <2>2 DEF BudgetInv, Shaped
    <3> QED BY <2>1, <2>2, <3>1, NoNews
  <2>3. CASE UNCHANGED Budget!vars
    BY <2>2, <2>3 DEF Budget!vars, Budget!files, Budget!adverts, Budget!ghosts
  <2>4. CASE Budget!Crash \/ Budget!Snapshot \/ \E l \in Budget!Levels : Budget!Baseline(l)
    BY <2>2, <2>4 DEF Budget!Crash, Budget!Snapshot, Budget!Baseline, Budget!files, Budget!adverts, Budget!ghosts
  <2>5. ASSUME NEW d, NEW l, NEW op, NEW byOperator \in BOOLEAN,
               Budget!Begins(op, d) \/ Budget!Untrust(d) \/ Budget!Unban(d) \/ Budget!SetDefault(l)
               \/ Budget!Finishes(byOperator)
        PROVE  BudgetInv'
    BY <2>1, <2>5, CommandBudget
  <2> QED BY <2>1, <2>3, <2>4, <2>5, BootBudget, SetTokensBudget, LinkBudget, ProbeBeginsBudget, ProbeEndsBudget
          DEF Budget!Next
<1>3. BudgetInv => PeersKnowBudget
  BY DEF BudgetInv, PeersKnowBudget, Budget!PeersKnowBudget
<1> QED BY <1>1, <1>2, <1>3, PTL DEF Budget!Spec

----------------------------------------------------------------------------
(* The word the operator was given (NodeState) *)

\* What is on disk is what is in memory, but for what the last write failed of;
\* the level is that of the last toggle there, and in memory the baseline of
\* the start until there is one.
OnDisk ==
  /\ Shaped(mem) /\ Shaped(disk) /\ "boot" \in DOMAIN baseline
  /\ "trusted" \notin lost => disk["trusted"] = mem["trusted"]
  /\ "banned" \notin lost => disk["banned"] = mem["banned"]
  /\ "level" \notin lost => disk["level"] = chosen
  /\ "level" \in lost => chosen # ""
  /\ up => mem["level"] = IF chosen = "" THEN baseline.boot ELSE chosen

\* A device that no command is about stands as it was acknowledged, and between
\* its two files a command has done its part of the allowlist.
Settled(d) ==
  Trust!Standing(mem, d) = expect[d] /\ expect[d] # [trusted |-> TRUE, banned |-> TRUE]
Acknowledged ==
  /\ expect = [d \in Fingerprint |-> expect[d]]
  /\ \A d \in Fingerprint : (d \notin cut /\ (cmd = Trust!NoCmd \/ d # cmd.dev)) => Settled(d)
  /\ cmd # Trust!NoCmd => up /\ cmd.op \in {"trust", "ban"} /\ (cmd.op = "trust" <=> cmd.dev \in mem["trusted"])

Shows == (up /\ cmd = Trust!NoCmd) => (unshown \/ stateFile = mem)

WordInv == OnDisk /\ Acknowledged /\ Shows

\* What a write does to a file, and to what is lost of it.
LEMMA Written ==
  ASSUME Shaped(disk), NEW file, Trust!Saved(file)
  PROVE  /\ Shaped(disk')
         /\ \A f \in Files :
              /\ f \notin DOMAIN file => disk'[f] = disk[f] /\ (f \in lost' <=> f \in lost)
              /\ f \in DOMAIN file =>
                   \/ disk'[f] = file[f] /\ (f \in lost' <=> f \in lost /\ file[f] # mem'[f])
                   \/ disk'[f] = disk[f] /\ (f \in lost' <=> f \in lost \/ file[f] # disk[f])
<1>1. PICK k : k = disk'
  OBVIOUS
<1>2. CASE /\ disk' = [f \in DOMAIN disk |-> IF f \in DOMAIN file THEN file[f] ELSE disk[f]]
           /\ lost' = lost \ {f \in DOMAIN file : file[f] = mem'[f]}
  <2>1. Shaped(k) /\ \A f \in Files : k[f] = IF f \in DOMAIN file THEN file[f] ELSE disk[f]
    BY <1>1, <1>2, SomeFiles
  <2>2. Shaped(disk')
    BY <1>1, <2>1 DEF Shaped
  <2> QED BY <1>1, <1>2, <2>1, <2>2
<1>3. CASE disk' = disk /\ lost' = lost \cup {f \in DOMAIN file : file[f] # disk[f]}
  <2>1. Shaped(disk')
    BY <1>3 DEF Shaped
  <2> QED BY <1>3, <2>1
<1> QED BY <1>2, <1>3 DEF Trust!Saved

LEMMA FilesAre == {"trusted", "banned", "level", "tokens"} = Files
BY DEF Files

\* An edit of the allowlist, and of the level if need be, keeps the files.
LEMMA AllowOnDisk ==
  ASSUME OnDisk, up, NEW devs, NEW l, Trust!Saved([trusted |-> devs, level |-> l]),
         Shaped(mem'), mem'["trusted"] = devs, mem'["banned"] = mem["banned"],
         \/ l = disk["level"] /\ mem'["level"] = mem["level"] /\ chosen' = chosen
         \/ l # "" /\ mem'["level"] = l /\ chosen' = l,
         up' = up, baseline' = baseline
  PROVE  OnDisk'
<1> DEFINE file == [trusted |-> devs, level |-> l]
<1>1. DOMAIN file = {"trusted", "level"} /\ file["trusted"] = devs /\ file["level"] = l
  OBVIOUS
<1> HIDE DEF file
<1>2. Shaped(disk) /\ Trust!Saved(file)
  BY DEF OnDisk, file
<1>3. /\ Shaped(disk') /\ disk'["banned"] = disk["banned"] /\ ("banned" \in lost' <=> "banned" \in lost)
      /\ \/ disk'["trusted"] = devs /\ ("trusted" \in lost' <=> "trusted" \in lost /\ devs # mem'["trusted"])
         \/ disk'["trusted"] = disk["trusted"] /\ ("trusted" \in lost' <=> "trusted" \in lost \/ devs # disk["trusted"])
      /\ \/ disk'["level"] = l /\ ("level" \in lost' <=> "level" \in lost /\ l # mem'["level"])
         \/ disk'["level"] = disk["level"] /\ ("level" \in lost' <=> "level" \in lost \/ l # disk["level"])
  BY <1>1, <1>2, Written, FilesAre
<1>4. "trusted" \notin lost' => disk'["trusted"] = mem'["trusted"]
  BY <1>3
<1>5. "banned" \notin lost' => disk'["banned"] = mem'["banned"]
  BY <1>3 DEF OnDisk
<1>6. ("level" \notin lost' => disk'["level"] = chosen') /\ ("level" \in lost' => chosen' # "")
  BY <1>3 DEF OnDisk
<1>7. mem'["level"] = IF chosen' = "" THEN baseline.boot ELSE chosen'
  BY DEF OnDisk
<1>8. baseline'.boot = baseline.boot
  OBVIOUS
<1> QED BY <1>3, <1>4, <1>5, <1>6, <1>7, <1>8 DEF OnDisk

\* An edit of the ban list, or of the token state.
LEMMA OtherOnDisk ==
  ASSUME OnDisk, NEW file, Trust!Saved(file), Shaped(mem'), mem'["trusted"] = mem["trusted"], mem'["level"] = mem["level"],
         \/ DOMAIN file = {"banned"} /\ file["banned"] = mem'["banned"]
         \/ DOMAIN file = {"tokens"} /\ mem'["banned"] = mem["banned"],
         up' = up, baseline' = baseline, chosen' = chosen
  PROVE  OnDisk'
<1>1. Shaped(disk)
  BY DEF OnDisk
<1>2. /\ Shaped(disk') /\ disk'["trusted"] = disk["trusted"] /\ disk'["level"] = disk["level"]
      /\ ("trusted" \in lost' <=> "trusted" \in lost) /\ ("level" \in lost' <=> "level" \in lost)
  BY <1>1, Written, FilesAre
<1>3. "banned" \notin lost' => disk'["banned"] = mem'["banned"]
  BY <1>1, Written, FilesAre DEF OnDisk
<1>4. baseline'.boot = baseline.boot
  OBVIOUS
<1> QED BY <1>2, <1>3, <1>4 DEF OnDisk

LEMMA SameOnDisk ==
  ASSUME OnDisk, mem' = mem, disk' = disk, lost' = lost, chosen' = chosen, up' => up,
         baseline' = baseline \/ (baseline'.boot = baseline.boot /\ "boot" \in DOMAIN baseline')
  PROVE  OnDisk'
<1>1. Shaped(mem') /\ Shaped(disk')
  BY DEF OnDisk, Shaped
<1> QED BY <1>1 DEF OnDisk

LEMMA BeginsWord ==
  ASSUME WordInv, NEW op \in {"trust", "ban"}, NEW d \in Fingerprint, Trust!Begins(op, d)
  PROVE  WordInv'
<1> DEFINE devs == IF op = "trust" THEN mem["trusted"] \cup {d} ELSE mem["trusted"] \ {d}
<1>1. /\ up /\ up' = up /\ baseline' = baseline /\ chosen' = chosen /\ expect' = expect /\ cut' = cut
      /\ cmd = Trust!NoCmd /\ cmd' = [op |-> op, dev |-> d]
  BY DEF Trust!Begins, Trust!Command, Trust!Others
<1>2. \/ mem' = [mem EXCEPT !["trusted"] = devs] /\ Trust!Saved([trusted |-> devs, level |-> disk["level"]])
      \/ op = "ban" /\ d \notin mem["trusted"] /\ mem' = mem /\ disk' = disk /\ lost' = lost
  BY DEF Trust!Begins, Trust!Allow, Trust!Unsaved, Trust!SavedLevel
<1>3. Shaped(mem)
  BY DEF WordInv, OnDisk
<1>4. /\ Shaped(mem') /\ mem'["trusted"] = devs
      /\ mem'["banned"] = mem["banned"] /\ mem'["level"] = mem["level"]
  <2>1. CASE mem' = [mem EXCEPT !["trusted"] = devs]
    BY <1>3, <2>1, FilesAre DEF Shaped
  <2>2. CASE op = "ban" /\ d \notin mem["trusted"] /\ mem' = mem
    <3>1. mem["trusted"] = mem["trusted"] \ {d}
      BY <2>2
    <3> QED BY <1>3, <2>2, <3>1 DEF Shaped
  <2> QED BY <1>2, <2>1, <2>2
<1> HIDE DEF devs
<1>5. OnDisk'
  <2>1. CASE Trust!Saved([trusted |-> devs, level |-> disk["level"]])
    BY <1>1, <1>4, <2>1, AllowOnDisk DEF WordInv
  <2>2. CASE mem' = mem /\ disk' = disk /\ lost' = lost
    BY <1>1, <2>2, SameOnDisk DEF WordInv
  <2> QED BY <1>2, <2>1, <2>2
<1>6. cmd'.op = op /\ cmd'.dev = d /\ cmd' # Trust!NoCmd
  BY <1>1 DEF Trust!NoCmd
<1>7. (op = "trust" <=> d \in mem'["trusted"])
  BY <1>4 DEF devs
<1>8. ASSUME NEW e \in Fingerprint, e \notin cut, e # d
      PROVE  Settled(e)'
  <2>1. Settled(e)
    BY <1>1, <1>8 DEF WordInv, Acknowledged
  <2>2. (e \in mem'["trusted"] <=> e \in mem["trusted"]) /\ mem'["banned"] = mem["banned"]
    BY <1>4, <1>8 DEF devs
  <2>3. (e \in mem'["trusted"]) = (e \in mem["trusted"])
    BY <2>2
  <2> QED BY <1>1, <2>1, <2>2, <2>3 DEF Settled, Trust!Standing
<1>9. Trust!NoCmd' = Trust!NoCmd
  BY DEF Trust!NoCmd
<1>10. Acknowledged'
  BY <1>1, <1>6, <1>7, <1>8, <1>9 DEF WordInv, Acknowledged
<1> QED BY <1>5, <1>6, <1>9, <1>10 DEF WordInv, Shows

LEMMA NotBoth ==
  ASSUME NEW op
  PROVE  [trusted |-> op = "trust", banned |-> op = "ban"] # [trusted |-> TRUE, banned |-> TRUE]
<1> DEFINE r == [trusted |-> op = "trust", banned |-> op = "ban"]
           s == [trusted |-> TRUE, banned |-> TRUE]
<1>1. s.trusted /\ s.banned
  OBVIOUS
<1>2. (r.trusted = (op = "trust")) /\ (r.banned = (op = "ban"))
  OBVIOUS
<1>3. ~(op = "trust" /\ op = "ban")
  OBVIOUS
<1> HIDE DEF r, s
<1>4. r # s
  BY <1>1, <1>2, <1>3
<1> QED BY <1>4 DEF r, s

LEMMA FinishesWord ==
  ASSUME WordInv, NEW byOperator \in BOOLEAN, Trust!Finishes(byOperator)
  PROVE  WordInv'
<1> DEFINE d == cmd.dev
           bans == IF cmd.op = "ban" THEN mem["banned"] \cup {d} ELSE mem["banned"] \ {d}
<1>1. /\ cmd # Trust!NoCmd /\ cmd' = Trust!NoCmd /\ cut' = cut \ {d}
      /\ up' = up /\ baseline' = baseline /\ chosen' = chosen
      /\ expect' = [expect EXCEPT ![d] = [trusted |-> cmd.op = "trust", banned |-> cmd.op = "ban"]]
  BY DEF Trust!Finishes, Trust!Others
<1>2. mem' = [mem EXCEPT !["banned"] = bans]
  BY DEF Trust!Finishes, Trust!WithBan, Trust!WithoutBan
<1>3. (mem' = mem /\ disk' = disk /\ lost' = lost) \/ Trust!Saved([banned |-> mem'["banned"]])
  BY DEF Trust!Finishes, Trust!Unsaved
<1>4. Shaped(mem)
  BY DEF WordInv, OnDisk
<1>5. /\ Shaped(mem') /\ mem'["banned"] = bans
      /\ mem'["trusted"] = mem["trusted"] /\ mem'["level"] = mem["level"]
  BY <1>2, <1>4, FilesAre DEF Shaped
<1>6. up /\ cmd.op \in {"trust", "ban"} /\ (cmd.op = "trust" <=> d \in mem["trusted"])
  BY <1>1 DEF WordInv, Acknowledged
<1>7. cmd.op = "ban" <=> d \in bans
  BY <1>6
<1> HIDE DEF d, bans
<1>8. OnDisk'
  <2>1. CASE mem' = mem /\ disk' = disk /\ lost' = lost
    BY <1>1, <2>1, SameOnDisk DEF WordInv
  <2>2. CASE Trust!Saved([banned |-> mem'["banned"]])
    <3>1. PICK file : file = [banned |-> mem'["banned"]]
      OBVIOUS
    <3>2. DOMAIN file = {"banned"} /\ file["banned"] = mem'["banned"] /\ Trust!Saved(file)
      BY <2>2, <3>1
    <3> QED BY <1>1, <1>5, <3>2, OtherOnDisk DEF WordInv
  <2> QED BY <1>3, <2>1, <2>2
<1>9. Trust!NoCmd' = Trust!NoCmd
  BY DEF Trust!NoCmd
<1>10. ASSUME NEW e \in Fingerprint, e \notin cut'
       PROVE  Settled(e)'
  <2>1. CASE e = d
    <3>1. expect'[e] = [trusted |-> cmd.op = "trust", banned |-> cmd.op = "ban"]
      BY <1>1, <2>1 DEF WordInv, Acknowledged
    <3>2. (e \in mem'["trusted"]) = (cmd.op = "trust") /\ (e \in mem'["banned"]) = (cmd.op = "ban")
      BY <1>5, <1>6, <1>7, <2>1
    <3>3. expect'[e] # [trusted |-> TRUE, banned |-> TRUE]
      BY <3>1, NotBoth
    <3> QED BY <3>1, <3>2, <3>3 DEF Settled, Trust!Standing
  <2>2. CASE e # d
    <3>1. Settled(e)
      BY <1>1, <1>10, <2>2 DEF WordInv, Acknowledged, d
    <3>2. expect'[e] = expect[e]
      BY <1>1, <2>2 DEF WordInv, Acknowledged
    <3>3. (e \in bans <=> e \in mem["banned"])
      BY <2>2 DEF bans
    <3>4. (e \in mem'["banned"]) = (e \in mem["banned"]) /\ (e \in mem'["trusted"]) = (e \in mem["trusted"])
      BY <1>5, <3>3
    <3> QED BY <3>1, <3>2, <3>4 DEF Settled, Trust!Standing
  <2> QED BY <2>1, <2>2
<1>11. expect' = [e \in Fingerprint |-> expect'[e]]
  BY <1>1 DEF WordInv, Acknowledged
<1>12. Acknowledged'
  BY <1>1, <1>9, <1>10, <1>11 DEF Acknowledged
<1>13. unshown' \/ stateFile' = mem'
  BY DEF Trust!Finishes, Trust!Flush
<1> QED BY <1>8, <1>12, <1>13 DEF WordInv, Shows

\* A command that is over at once, with its answer.
LEMMA AnsweredWord ==
  ASSUME WordInv, cmd = Trust!NoCmd, cmd' = cmd, OnDisk', unshown' \/ stateFile' = mem',
         cut' = cut, expect' = [d \in Fingerprint |-> expect'[d]],
         \A d \in Fingerprint : (d \notin cut /\ Settled(d)) => Settled(d)'
  PROVE  WordInv'
<1>1. Trust!NoCmd' = Trust!NoCmd
  BY DEF Trust!NoCmd
<1>2. \A d \in Fingerprint : d \notin cut => Settled(d)'
  BY DEF WordInv, Acknowledged
<1>3. Acknowledged'
  BY <1>1, <1>2 DEF Acknowledged
<1> QED BY <1>3 DEF WordInv, Shows

LEMMA Withdrawn ==
  ASSUME NEW a, NEW b, NEW c
  PROVE  /\ [[trusted |-> a, banned |-> b] EXCEPT !.trusted = c] = [trusted |-> c, banned |-> b]
         /\ [[trusted |-> a, banned |-> b] EXCEPT !.banned = c] = [trusted |-> a, banned |-> c]
OBVIOUS

LEMMA UntrustWord ==
  ASSUME WordInv, NEW d \in Fingerprint, Trust!Untrust(d)
  PROVE  WordInv'
<1> DEFINE devs == mem["trusted"] \ {d}
<1>1. /\ up /\ up' = up /\ baseline' = baseline /\ chosen' = chosen /\ cut' = cut
      /\ cmd = Trust!NoCmd /\ cmd' = cmd /\ stateFile' = mem'
      /\ expect' = [expect EXCEPT ![d] = [expect[d] EXCEPT !.trusted = FALSE]]
  BY DEF Trust!Untrust, Trust!Command, Trust!Others, Trust!Flush
<1>2. \/ mem' = [mem EXCEPT !["trusted"] = devs] /\ Trust!Saved([trusted |-> devs, level |-> disk["level"]])
      \/ d \notin mem["trusted"] /\ mem' = mem /\ disk' = disk /\ lost' = lost
  BY DEF Trust!Untrust, Trust!Allow, Trust!Unsaved, Trust!SavedLevel
<1>3. Shaped(mem)
  BY DEF WordInv, OnDisk
<1>4. /\ Shaped(mem') /\ mem'["trusted"] = devs
      /\ mem'["banned"] = mem["banned"] /\ mem'["level"] = mem["level"]
  <2>1. CASE mem' = [mem EXCEPT !["trusted"] = devs]
    BY <1>3, <2>1, FilesAre DEF Shaped
  <2>2. CASE d \notin mem["trusted"] /\ mem' = mem
    <3>1. mem["trusted"] = mem["trusted"] \ {d}
      BY <2>2
    <3> QED BY <1>3, <2>2, <3>1 DEF Shaped
  <2> QED BY <1>2, <2>1, <2>2
<1> HIDE DEF devs
<1>5. OnDisk'
  <2>1. CASE Trust!Saved([trusted |-> devs, level |-> disk["level"]])
    BY <1>1, <1>4, <2>1, AllowOnDisk DEF WordInv
  <2>2. CASE mem' = mem /\ disk' = disk /\ lost' = lost
    BY <1>1, <2>2, SameOnDisk DEF WordInv
  <2> QED BY <1>2, <2>1, <2>2
<1>6. ASSUME NEW e \in Fingerprint, e \notin cut, Settled(e)
      PROVE  Settled(e)'
  <2>1. Trust!Standing(mem, e) = expect[e] /\ expect[e] # [trusted |-> TRUE, banned |-> TRUE]
    BY <1>6 DEF Settled
  <2>2. (e \in mem'["banned"]) = (e \in mem["banned"])
    BY <1>4
  <2>3. CASE e = d
    <3>1. expect'[e] = [trusted |-> FALSE, banned |-> e \in mem["banned"]]
      <4>1. expect'[e] = [expect[e] EXCEPT !.trusted = FALSE]
        BY <1>1, <2>3 DEF WordInv, Acknowledged
      <4>2. expect[e] = [trusted |-> e \in mem["trusted"], banned |-> e \in mem["banned"]]
        BY <2>1 DEF Trust!Standing
      <4>3. PICK a, b, c : a = (e \in mem["trusted"]) /\ b = (e \in mem["banned"]) /\ c = FALSE
        OBVIOUS
      <4>4. expect'[e] = [[trusted |-> a, banned |-> b] EXCEPT !.trusted = c]
        BY <4>1, <4>2, <4>3
      <4>5. expect'[e] = [trusted |-> c, banned |-> b]
        BY <4>4, Withdrawn
      <4> QED BY <4>3, <4>5
    <3>2. (e \in mem'["trusted"]) = FALSE
      BY <1>4, <2>3 DEF devs
    <3>3. Trust!Standing(mem, e)' = expect'[e]
      BY <2>2, <3>1, <3>2 DEF Trust!Standing
    <3>4. expect'[e].trusted = FALSE
      BY <3>1
    <3>5. expect'[e] # [trusted |-> TRUE, banned |-> TRUE]
      BY <3>4
    <3> QED BY <3>3, <3>5 DEF Settled
  <2>4. CASE e # d
    <3>1. expect'[e] = expect[e]
      BY <1>1, <2>4 DEF WordInv, Acknowledged
    <3>2. e \in mem'["trusted"] <=> e \in mem["trusted"]
      BY <1>4, <2>4 DEF devs
    <3>3. (e \in mem'["trusted"]) = (e \in mem["trusted"])
      BY <3>2
    <3> QED BY <2>1, <2>2, <3>1, <3>3 DEF Settled, Trust!Standing
  <2> QED BY <2>3, <2>4
<1>7. expect' = [e \in Fingerprint |-> expect'[e]]
  BY <1>1 DEF WordInv, Acknowledged
<1> QED BY <1>1, <1>5, <1>6, <1>7, AnsweredWord

LEMMA UnbanWord ==
  ASSUME WordInv, NEW d \in Fingerprint, Trust!Unban(d)
  PROVE  WordInv'
<1> DEFINE bans == mem["banned"] \ {d}
<1>1. /\ up /\ up' = up /\ baseline' = baseline /\ chosen' = chosen /\ cut' = cut
      /\ cmd = Trust!NoCmd /\ cmd' = cmd /\ stateFile' = mem'
      /\ expect' = [expect EXCEPT ![d] = [expect[d] EXCEPT !.banned = FALSE]]
  BY DEF Trust!Unban, Trust!Command, Trust!Others, Trust!Flush
<1>2. mem' = [mem EXCEPT !["banned"] = bans] /\ Trust!Saved([banned |-> mem'["banned"]])
  BY DEF Trust!Unban, Trust!WithoutBan
<1>3. Shaped(mem)
  BY DEF WordInv, OnDisk
<1>4. /\ Shaped(mem') /\ mem'["banned"] = bans
      /\ mem'["trusted"] = mem["trusted"] /\ mem'["level"] = mem["level"]
  BY <1>2, <1>3, FilesAre DEF Shaped
<1> HIDE DEF bans
<1>5. OnDisk'
  <2>1. PICK file : file = [banned |-> mem'["banned"]]
    OBVIOUS
  <2>2. DOMAIN file = {"banned"} /\ file["banned"] = mem'["banned"] /\ Trust!Saved(file)
    BY <1>2, <2>1
  <2> QED BY <1>1, <1>4, <2>2, OtherOnDisk DEF WordInv
<1>6. ASSUME NEW e \in Fingerprint, e \notin cut, Settled(e)
      PROVE  Settled(e)'
  <2>1. Trust!Standing(mem, e) = expect[e] /\ expect[e] # [trusted |-> TRUE, banned |-> TRUE]
    BY <1>6 DEF Settled
  <2>2. (e \in mem'["trusted"]) = (e \in mem["trusted"])
    BY <1>4
  <2>3. CASE e = d
    <3>1. expect'[e] = [trusted |-> e \in mem["trusted"], banned |-> FALSE]
      <4>1. expect'[e] = [expect[e] EXCEPT !.banned = FALSE]
        BY <1>1, <2>3 DEF WordInv, Acknowledged
      <4>2. expect[e] = [trusted |-> e \in mem["trusted"], banned |-> e \in mem["banned"]]
        BY <2>1 DEF Trust!Standing
      <4>3. PICK a, b, c : a = (e \in mem["trusted"]) /\ b = (e \in mem["banned"]) /\ c = FALSE
        OBVIOUS
      <4>4. expect'[e] = [[trusted |-> a, banned |-> b] EXCEPT !.banned = c]
        BY <4>1, <4>2, <4>3
      <4>5. expect'[e] = [trusted |-> a, banned |-> c]
        BY <4>4, Withdrawn
      <4> QED BY <4>3, <4>5
    <3>2. (e \in mem'["banned"]) = FALSE
      BY <1>4, <2>3 DEF bans
    <3>3. Trust!Standing(mem, e)' = expect'[e]
      BY <2>2, <3>1, <3>2 DEF Trust!Standing
    <3>4. expect'[e].banned = FALSE
      BY <3>1
    <3>5. expect'[e] # [trusted |-> TRUE, banned |-> TRUE]
      BY <3>4
    <3> QED BY <3>3, <3>5 DEF Settled
  <2>4. CASE e # d
    <3>1. expect'[e] = expect[e]
      BY <1>1, <2>4 DEF WordInv, Acknowledged
    <3>2. e \in mem'["banned"] <=> e \in mem["banned"]
      BY <1>4, <2>4 DEF bans
    <3>3. (e \in mem'["banned"]) = (e \in mem["banned"])
      BY <3>2
    <3> QED BY <2>1, <2>2, <3>1, <3>3 DEF Settled, Trust!Standing
  <2> QED BY <2>3, <2>4
<1>7. expect' = [e \in Fingerprint |-> expect'[e]]
  BY <1>1 DEF WordInv, Acknowledged
<1> QED BY <1>1, <1>5, <1>6, <1>7, AnsweredWord

\* Nobody's standing changes with what is not the two lists.
LEMMA SameStanding ==
  ASSUME mem'["trusted"] = mem["trusted"], mem'["banned"] = mem["banned"], expect' = expect
  PROVE  \A d \in Fingerprint : Settled(d) => Settled(d)'
<1>1. \A d \in Fingerprint : (d \in mem'["trusted"]) = (d \in mem["trusted"]) /\ (d \in mem'["banned"]) = (d \in mem["banned"])
  OBVIOUS
<1> QED BY <1>1 DEF Settled, Trust!Standing

LEMMA SetDefaultWord ==
  ASSUME WordInv, NEW l \in Trust!Levels, Trust!SetDefault(l)
  PROVE  WordInv'
<1>1. /\ up /\ up' = up /\ baseline' = baseline /\ cut' = cut /\ expect' = expect
      /\ cmd = Trust!NoCmd /\ cmd' = cmd /\ stateFile' = mem'
  BY DEF Trust!SetDefault, Trust!Command, Trust!Flush
<1>2. Shaped(mem)
  BY DEF WordInv, OnDisk
<1>3. CASE mem' = mem /\ disk' = disk /\ lost' = lost /\ chosen' = chosen
  <2>1. OnDisk'
    BY <1>1, <1>3, SameOnDisk DEF WordInv
  <2>2. expect' = [d \in Fingerprint |-> expect'[d]]
    BY <1>1 DEF WordInv, Acknowledged
  <2> QED BY <1>1, <1>3, <2>1, <2>2, SameStanding, AnsweredWord
<1>4. CASE /\ mem' = [mem EXCEPT !["level"] = l] /\ chosen' = l
           /\ Trust!Saved([trusted |-> mem["trusted"], level |-> l])
  <2>1. /\ Shaped(mem') /\ mem'["level"] = l
        /\ mem'["trusted"] = mem["trusted"] /\ mem'["banned"] = mem["banned"]
    BY <1>2, <1>4, FilesAre DEF Shaped
  <2>2. l # ""
    BY DEF Trust!Levels
  <2>3. OnDisk'
    BY <1>1, <1>4, <2>1, <2>2, AllowOnDisk DEF WordInv
  <2>4. expect' = [d \in Fingerprint |-> expect'[d]]
    BY <1>1 DEF WordInv, Acknowledged
  <2> QED BY <1>1, <2>1, <2>3, <2>4, SameStanding, AnsweredWord
<1> QED BY <1>3, <1>4 DEF Trust!SetDefault, Trust!Unsaved

LEMMA SetTokensWord ==
  ASSUME WordInv, NEW o, NEW byOperator \in BOOLEAN, Trust!SetTokens(o, byOperator)
  PROVE  WordInv'
<1>1. /\ up /\ up' = up /\ baseline' = baseline /\ cut' = cut /\ expect' = expect
      /\ cmd = Trust!NoCmd /\ cmd' = cmd /\ chosen' = chosen
      /\ mem' = [mem EXCEPT !["tokens"] = o]
  BY DEF Trust!SetTokens, Trust!Command, Trust!Applied
<1>2. (mem' = mem /\ disk' = disk /\ lost' = lost) \/ Trust!Saved([tokens |-> o])
  BY DEF Trust!SetTokens, Trust!Unsaved
<1>3. Shaped(mem)
  BY DEF WordInv, OnDisk
<1>4. /\ Shaped(mem') /\ mem'["level"] = mem["level"]
      /\ mem'["trusted"] = mem["trusted"] /\ mem'["banned"] = mem["banned"]
  BY <1>1, <1>3, FilesAre DEF Shaped
<1>5. OnDisk'
  <2>1. CASE mem' = mem /\ disk' = disk /\ lost' = lost
    BY <1>1, <2>1, SameOnDisk DEF WordInv
  <2>2. CASE Trust!Saved([tokens |-> o])
    <3>1. PICK file : file = [tokens |-> o]
      OBVIOUS
    <3>2. DOMAIN file = {"tokens"} /\ Trust!Saved(file)
      BY <2>2, <3>1
    <3> QED BY <1>1, <1>4, <3>2, OtherOnDisk DEF WordInv
  <2> QED BY <1>2, <2>1, <2>2
<1>6. unshown' \/ stateFile' = mem'
  BY <1>1 DEF Trust!SetTokens, Trust!Flush, WordInv, Shows
<1>7. expect' = [d \in Fingerprint |-> expect'[d]]
  BY <1>1 DEF WordInv, Acknowledged
<1> QED BY <1>1, <1>4, <1>5, <1>6, <1>7, SameStanding, AnsweredWord

\* A start takes what is on disk for what was acknowledged, but for what was lost.
LEMMA BootWord ==
  ASSUME WordInv, Trust!Boot
  PROVE  WordInv'
<1> DEFINE level == IF disk["level"] = "" THEN baseline.now ELSE disk["level"]
<1>1. /\ ~up /\ disk' = disk /\ cmd' = cmd /\ expect' = expect /\ lost' = {} /\ unshown'
      /\ baseline' = [baseline EXCEPT !.boot = baseline.now]
      /\ mem' = [disk EXCEPT !["level"] = level]
      /\ cut' = (IF lost \cap {"trusted", "banned"} = {} THEN cut ELSE Fingerprint)
      /\ chosen' = (IF "level" \in lost THEN disk["level"] ELSE chosen)
  BY DEF Trust!Boot
<1>2. Shaped(disk)
  BY DEF WordInv, OnDisk
<1>3. Shaped(mem') /\ Shaped(disk') /\ mem'["trusted"] = disk["trusted"] /\ mem'["banned"] = disk["banned"]
      /\ mem'["level"] = level
  BY <1>1, <1>2, FilesAre DEF Shaped
<1>4. cmd = Trust!NoCmd /\ Trust!NoCmd' = Trust!NoCmd
  BY <1>1 DEF WordInv, Acknowledged, Trust!NoCmd
<1>5. disk["level"] = chosen'
  BY <1>1 DEF WordInv, OnDisk
<1>6. baseline'.boot = baseline.now /\ "boot" \in DOMAIN baseline'
  BY <1>1 DEF WordInv, OnDisk
<1>7. OnDisk'
  BY <1>1, <1>3, <1>5, <1>6 DEF OnDisk
<1>8. \A d \in Fingerprint : d \notin cut' => Settled(d)'
  <2>1. CASE lost \cap {"trusted", "banned"} = {}
    <3>1. mem'["trusted"] = mem["trusted"] /\ mem'["banned"] = mem["banned"]
      BY <1>3, <2>1 DEF WordInv, OnDisk
    <3> QED BY <1>1, <1>4, <2>1, <3>1, SameStanding DEF WordInv, Acknowledged
  <2>2. CASE lost \cap {"trusted", "banned"} # {}
    BY <1>1, <2>2
  <2> QED BY <2>1, <2>2
<1>9. Acknowledged'
  BY <1>1, <1>4, <1>8 DEF WordInv, Acknowledged
<1> QED BY <1>1, <1>7, <1>9 DEF WordInv, Shows

\* A command cut by a crash leaves the standing of its device open.
LEMMA CrashWord ==
  ASSUME WordInv, Trust!Crash
  PROVE  WordInv'
<1>1. /\ ~up' /\ cmd' = Trust!NoCmd /\ mem' = mem /\ disk' = disk /\ lost' = lost /\ chosen' = chosen
      /\ baseline' = baseline /\ expect' = expect
      /\ cut' = (IF cmd = Trust!NoCmd THEN cut ELSE cut \cup {cmd.dev})
  BY DEF Trust!Crash, Trust!files
<1>2. Trust!NoCmd' = Trust!NoCmd
  BY DEF Trust!NoCmd
<1>3. OnDisk'
  BY <1>1, SameOnDisk DEF WordInv
<1>4. \A d \in Fingerprint : d \notin cut' => Settled(d)'
  BY <1>1, SameStanding DEF WordInv, Acknowledged
<1>5. Acknowledged'
  BY <1>1, <1>2, <1>4 DEF WordInv, Acknowledged
<1> QED BY <1>1, <1>3, <1>5 DEF WordInv, Shows

\* A step that keeps what is kept, and shows no other state than memory's.
LEMMA KeptWord ==
  ASSUME WordInv, UNCHANGED <<mem, disk, lost, chosen, cmd, expect, cut, up>>,
         baseline' = baseline \/ (~up /\ "boot" \in DOMAIN baseline' /\ baseline'.boot = baseline.boot),
         (unshown' = unshown /\ stateFile' = stateFile) \/ stateFile' = mem
  PROVE  WordInv'
<1>1. Trust!NoCmd' = Trust!NoCmd
  BY DEF Trust!NoCmd
<1>2. OnDisk'
  BY SameOnDisk DEF WordInv
<1>3. \A d \in Fingerprint : Settled(d) => Settled(d)'
  BY SameStanding
<1>4. Acknowledged'
  BY <1>1, <1>3 DEF WordInv, Acknowledged
<1> QED BY <1>1, <1>2, <1>4 DEF WordInv, Shows

\* An edit that was acknowledged holds in the node, in its state.json and after
\* any restart, unless its write failed or a crash cut a later one; and an edit
\* of the allowlist makes no choice of the level (trust.py, banned.py,
\* set_default_trust).
THEOREM OperatorsWordHolds ==
  Trust!Spec => []OperatorsWord
<1>1. Trust!Init => WordInv
  <2>1. SUFFICES ASSUME Trust!Init PROVE WordInv
    OBVIOUS
  <2>2. PICK k : k = [trusted |-> {}, level |-> "", banned |-> {}, tokens |-> "auto"]
    OBVIOUS
  <2>3. /\ mem = k /\ disk = k /\ ~up /\ cmd = Trust!NoCmd /\ lost = {} /\ chosen = ""
        /\ baseline = [now |-> "foreign", boot |-> "foreign"]
        /\ expect = [d \in Fingerprint |-> Trust!Standing(k, d)]
    BY <2>1, <2>2 DEF Trust!Init
  <2>4. Shaped(k) /\ k["level"] = "" /\ k["trusted"] = {} /\ k["banned"] = {}
    BY <2>2 DEF Shaped, Files
  <2>5. OnDisk
    BY <2>3, <2>4 DEF OnDisk
  <2>6. ASSUME NEW d \in Fingerprint PROVE Settled(d)
    <3>1. d \notin k["trusted"]
      BY <2>4
    <3>2. Trust!Standing(k, d).trusted = (d \in k["trusted"])
      BY DEF Trust!Standing
    <3>3. ~(Trust!Standing(k, d).trusted)
      BY <3>1, <3>2
    <3>4. Trust!Standing(k, d) # [trusted |-> TRUE, banned |-> TRUE]
      BY <3>3
    <3> QED BY <2>3, <3>4 DEF Settled
  <2>7. expect = [d \in Fingerprint |-> expect[d]]
    BY <2>3
  <2> QED BY <2>3, <2>5, <2>6, <2>7 DEF WordInv, Acknowledged, Shows
<1>2. WordInv /\ [Trust!Next]_(Trust!vars) => WordInv'
  <2>1. SUFFICES ASSUME WordInv, [Trust!Next]_(Trust!vars) PROVE WordInv'
    OBVIOUS
  <2>2. CASE UNCHANGED Trust!vars
    BY <2>1, <2>2, KeptWord DEF Trust!vars, Trust!files, Trust!ghosts
  <2>3. CASE Trust!Snapshot
    BY <2>1, <2>3, KeptWord DEF Trust!Snapshot, Trust!files
  <2>4. ASSUME NEW l \in Trust!Levels, Trust!Baseline(l)
        PROVE  WordInv'
    <3>1. "boot" \in DOMAIN baseline
      BY <2>1 DEF WordInv, OnDisk
    <3>2. ~up /\ "boot" \in DOMAIN baseline' /\ baseline'.boot = baseline.boot
      BY <2>4, <3>1 DEF Trust!Baseline
    <3> QED BY <2>1, <2>4, <3>2, KeptWord DEF Trust!Baseline, Trust!files, Trust!ghosts
  <2>5. CASE Trust!LinkUp \/ Trust!LinkDown \/ Trust!ProbeBegins
    BY <2>1, <2>5, KeptWord DEF Trust!LinkUp, Trust!LinkDown, Trust!ProbeBegins, Trust!Quiet, Trust!files
  <2>6. ASSUME NEW w \in Trust!Probes, NEW b \in 0..2, Trust!ProbeEnds(w, b)
        PROVE  WordInv'
    BY <2>1, <2>6, KeptWord DEF Trust!ProbeEnds, Trust!Quiet, Trust!files
  <2>7. CASE \E d \in Fingerprint : Trust!Begins("trust", d) \/ Trust!Begins("ban", d)
                                   \/ Trust!Untrust(d) \/ Trust!Unban(d)
    BY <2>1, <2>7, BeginsWord, UntrustWord, UnbanWord
  <2> QED BY <2>1, <2>2, <2>3, <2>4, <2>5, <2>6, <2>7, BootWord, CrashWord, FinishesWord, SetDefaultWord, SetTokensWord
          DEF Trust!Next
<1>3. WordInv => OperatorsWord
  <2>1. SUFFICES ASSUME WordInv, up, cmd = Trust!NoCmd
                 PROVE  /\ \A d \in Fingerprint : d \notin cut => Settled(d)
                        /\ mem["level"] = IF chosen = "" THEN baseline.boot ELSE chosen
                        /\ unshown \/ stateFile = mem
    BY DEF OperatorsWord, Trust!OperatorsWord, Settled
  <2> QED BY <2>1 DEF WordInv, OnDisk, Acknowledged, Shows
<1> QED BY <1>1, <1>2, <1>3, PTL DEF Trust!Spec
=============================================================================
