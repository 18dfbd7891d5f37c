--------------------------- MODULE PeerLinksProofs ---------------------------
(***************************************************************************)
(* Theorems about PeerLinks, for any nodes, secrets, allowlist and traffic. *)
(*                                                                         *)
(* A proof that a peer holds a key is taken as of a link, and the peer may *)
(* restart with another key at any time.  Two facts carry the argument.    *)
(* What is on its way on a connection was said by its other end, and names *)
(* the key that end holds for as long as the end is open (Signed).  And a  *)
(* peer is bound to a connection that the node is itself an end of, the    *)
(* peer being the other one, so that a connection number comes to be used  *)
(* again only after every table has let go of it (Bound).                  *)
(***************************************************************************)
EXTENDS PeerLinks, TLAPS

----------------------------------------------------------------------------
(* The inductive invariant *)

HelloMsg == [t : {"hello"}, about : Node, epoch : Nat, key : Key, secret : Nat]
NodeMsg == [t : {"node"}, about : Node, epoch : Nat, key : Key \cup {NoKey}]
AuthMsg == [t : {"auth"}, on : Conn, key : Key]
Msg == HelloMsg \cup NodeMsg \cup AuthMsg
Wires == [Conn -> [Node -> Seq(Msg)]]

Msgs(s) == {s[i] : i \in DOMAIN s}

\* Two different nodes are at a connection, and only they have an open end of
\* it; nothing is on its way to a closed end.
Tidy ==
  \A c \in Conn :
    /\ Used(c) => ends[c][1] # ends[c][2]
    /\ \A n \in Node : /\ stage[c][n] # "closed" => At(n, c)
                       /\ wire[c][n] # <<>> => stage[c][n] # "closed"

\* msg, on its way to n on c, was said by the other end.
Honest(c, n, msg) ==
  /\ msg.t = "hello" => msg.about = Other(n, c)
  /\ msg.t = "auth" => msg.on = c
  /\ (msg.t \in {"hello", "auth"} /\ stage[c][Other(n, c)] # "closed") => msg.key = key[Other(n, c)]

Signed == \A c \in Conn, n \in Node : \A msg \in Msgs(wire[c][n]) : Honest(c, n, msg)

\* n and m are the ends of c, and that of n is open.
BoundTo(n, m, c) == At(n, c) /\ m = Other(n, c) /\ stage[c][n] # "closed"
Bound == \A n, m \in Node, c \in Conn : peers[n][m].writer = c => BoundTo(n, m, c)

\* n has no proof of m, or that of the key m holds while its end is open.
ProofHolds(n, m, c) ==
  (peers[n][m].verified # NoKey /\ stage[c][m] # "closed") => peers[n][m].verified = key[m]
Proven == \A n, m \in Node, c \in Conn : peers[n][m].writer = c => ProofHolds(n, m, c)

Inv == TypeOK /\ wire \in Wires /\ Tidy /\ Signed /\ Bound /\ Proven

----------------------------------------------------------------------------
(* What holds of the operators *)

LEMMA MsgsRead ==
  ASSUME NEW S, NEW s \in Seq(S), s # <<>>
  PROVE  Tail(s) \in Seq(S) /\ Head(s) \in Msgs(s) /\ Head(s) \in S /\ Msgs(Tail(s)) \subseteq Msgs(s)
<1>1. Tail(s) \in Seq(S) /\ Len(s) \in Nat \ {0} /\ DOMAIN s = 1..Len(s)
  OBVIOUS
<1>2. Head(s) = s[1] /\ 1 \in DOMAIN s /\ s[1] \in S
  BY <1>1
<1>3. DOMAIN Tail(s) = 1..(Len(s) - 1) /\ \A i \in DOMAIN Tail(s) : Tail(s)[i] = s[i + 1] /\ i + 1 \in DOMAIN s
  BY <1>1
<1> QED BY <1>1, <1>2, <1>3 DEF Msgs

LEMMA MsgsSent ==
  ASSUME NEW S, NEW s \in Seq(S), NEW u \in Seq(S)
  PROVE  s \o u \in Seq(S) /\ Msgs(s \o u) \subseteq Msgs(s) \cup Msgs(u)
<1>1. s \o u \in Seq(S) /\ DOMAIN (s \o u) = 1..(Len(s) + Len(u)) /\ Len(s) \in Nat /\ Len(u) \in Nat
  OBVIOUS
<1>2. ASSUME NEW i \in DOMAIN (s \o u)
      PROVE  (s \o u)[i] \in Msgs(s) \cup Msgs(u)
  <2>1. CASE i <= Len(s)
    <3>1. (s \o u)[i] = s[i] /\ i \in DOMAIN s
      BY <1>1, <2>1
    <3> QED BY <3>1 DEF Msgs
  <2>2. CASE i > Len(s)
    <3>1. (s \o u)[i] = u[i - Len(s)] /\ i - Len(s) \in DOMAIN u
      BY <1>1, <2>2
    <3> QED BY <3>1 DEF Msgs
  <2> QED BY <1>1, <2>1, <2>2
<1> QED BY <1>1, <1>2 DEF Msgs

LEMMA MsgsOf == ASSUME NEW S, NEW a \in S PROVE <<a>> \in Seq(S) /\ Msgs(<<a>>) = {a}
<1>1. <<a>> \in Seq(S) /\ DOMAIN <<a>> = {1} /\ <<a>>[1] = a
  OBVIOUS
<1> QED BY <1>1 DEF Msgs

LEMMA MsgsNone == ASSUME NEW S PROVE <<>> \in Seq(S) /\ Msgs(<<>>) = {}
<1>1. <<>> \in Seq(S) /\ DOMAIN <<>> = {}
  OBVIOUS
<1> QED BY <1>1 DEF Msgs

\* A used connection, seen from one of its ends.
LEMMA Opposite ==
  ASSUME TypeOK, Tidy, NEW c \in Conn, NEW n \in Node, At(n, c)
  PROVE  /\ Other(n, c) \in Node /\ Other(n, c) # n /\ At(Other(n, c), c)
         /\ Other(Other(n, c), c) = n /\ Ends(c) = {n, Other(n, c)}
<1>1. ends[c] \in Node \X Node /\ ends[c][1] # ends[c][2]
  BY DEF TypeOK, Tidy, At, Used
<1> QED BY <1>1 DEF At, Ends, Other

LEMMA Sending ==
  ASSUME TypeOK, Tidy, NEW q \in Wires, NEW c \in Conn, NEW n \in Node, At(n, c), NEW msgs \in Seq(Msg)
  PROVE  /\ Send(q, n, c, msgs) \in Wires
         /\ \A b \in Conn, x \in Node :
              IF b = c /\ x = Other(n, c) /\ stage[c][x] # "closed"
              THEN Msgs(Send(q, n, c, msgs)[b][x]) \subseteq Msgs(q[b][x]) \cup Msgs(msgs)
              ELSE Send(q, n, c, msgs)[b][x] = q[b][x]
<1> DEFINE o == Other(n, c)
<1>1. o \in Node
  BY Opposite
<1>2. q[c][o] \in Seq(Msg)
  BY <1>1 DEF Wires
<1> HIDE DEF o
<1>3. q[c][o] \o msgs \in Seq(Msg) /\ Msgs(q[c][o] \o msgs) \subseteq Msgs(q[c][o]) \cup Msgs(msgs)
  BY <1>2, MsgsSent
<1> DEFINE r == q[c][o] \o msgs
<1>4. Send(q, n, c, msgs) = IF stage[c][o] = "closed" THEN q ELSE [q EXCEPT ![c][o] = r]
  BY DEF Send, o
<1>5. r \in Seq(Msg) /\ Msgs(r) \subseteq Msgs(q[c][o]) \cup Msgs(msgs)
  BY <1>3
<1> HIDE DEF r
<1>6. [q EXCEPT ![c][o] = r] \in Wires
  BY <1>1, <1>5 DEF Wires
<1>7. \A b \in Conn, x \in Node : [q EXCEPT ![c][o] = r][b][x] = IF b = c /\ x = o THEN r ELSE q[b][x]
  BY <1>1 DEF Wires
<1> QED BY <1>4, <1>5, <1>6, <1>7 DEF o

LEMMA Reading ==
  ASSUME wire \in Wires, NEW c \in Conn, NEW n \in Node, wire[c][n] # <<>>
  PROVE  /\ Rest(n, c) \in Wires /\ Head(wire[c][n]) \in Msgs(wire[c][n]) /\ Head(wire[c][n]) \in Msg
         /\ \A b \in Conn, x \in Node : Msgs(Rest(n, c)[b][x]) \subseteq Msgs(wire[b][x])
         /\ \A b \in Conn, x \in Node : b # c \/ x # n => Rest(n, c)[b][x] = wire[b][x]
<1>1. wire[c][n] \in Seq(Msg)
  BY DEF Wires
<1>2. /\ Tail(wire[c][n]) \in Seq(Msg) /\ Head(wire[c][n]) \in Msgs(wire[c][n]) /\ Head(wire[c][n]) \in Msg
      /\ Msgs(Tail(wire[c][n])) \subseteq Msgs(wire[c][n])
  BY <1>1, MsgsRead
<1>3. /\ Rest(n, c) \in Wires
      /\ \A b \in Conn, x \in Node : Rest(n, c)[b][x] = IF b = c /\ x = n THEN Tail(wire[c][n]) ELSE wire[b][x]
  BY <1>2 DEF Rest, Wires
<1> QED BY <1>2, <1>3

----------------------------------------------------------------------------
(* A step that lets nobody speak with a key that is not its own *)

\* Ends that are closed stay so; a key changes with every end of its holder closed.
Calm ==
  \A c \in Conn : Used(c) =>
    /\ ends'[c] \in {ends[c], <<>>}
    /\ \A x \in Node : stage'[c][x] # "closed" =>
         stage[c][x] # "closed" /\ key'[x] = key[x] /\ ends'[c] = ends[c]

\* What was said honestly remains so while the one it was said to is there.
LEMMA HonestStays ==
  ASSUME TypeOK, Tidy, Tidy', Calm, NEW c \in Conn, NEW n \in Node, NEW msg \in Msgs(wire[c][n]), Honest(c, n, msg),
         stage[c][n] # "closed", stage'[c][n] # "closed"
  PROVE  Honest(c, n, msg)'
<1>1. At(n, c) /\ ends'[c] = ends[c]
  BY DEF Tidy, Calm, At
<1>2. Other(n, c) \in Node
  BY <1>1, Opposite
<1>3. Other(n, c)' = Other(n, c)
  BY <1>1 DEF Other
<1>4. stage'[c][Other(n, c)] # "closed" => stage[c][Other(n, c)] # "closed" /\ key'[Other(n, c)] = key[Other(n, c)]
  BY <1>1, <1>2 DEF Calm, At
<1> QED BY <1>3, <1>4 DEF Honest

\* Old messages, and new ones that are honest.
LEMMA SignedStays ==
  ASSUME TypeOK, Tidy, Tidy', Signed, Calm, wire' \in Wires,
         \A c \in Conn, n \in Node : \A msg \in Msgs(wire'[c][n]) :
           msg \in Msgs(wire[c][n]) \/ Honest(c, n, msg)'
  PROVE  Signed'
<1> SUFFICES ASSUME NEW c \in Conn, NEW n \in Node, NEW msg \in Msgs(wire'[c][n]), msg \in Msgs(wire[c][n])
             PROVE  Honest(c, n, msg)'
  BY DEF Signed
<1>1. wire[c][n] # <<>> /\ wire'[c][n] # <<>>
  BY MsgsNone
<1>2. stage[c][n] # "closed" /\ stage'[c][n] # "closed"
  BY <1>1 DEF Tidy
<1> QED BY <1>2, HonestStays DEF Signed

\* n keeps its link with m, and what it knows of it.
Keeps(n, m, c) ==
  /\ peers[n][m].writer = c /\ peers'[n][m].verified = peers[n][m].verified
  /\ stage'[c][n] # "closed"

\* Links that are kept, given up, or bound anew.
LEMMA BoundStays ==
  ASSUME TypeOK, Tidy, Bound, Proven, Calm,
         \A n, m \in Node, c \in Conn : peers'[n][m].writer = c =>
           Keeps(n, m, c) \/ (BoundTo(n, m, c)' /\ ProofHolds(n, m, c)')
  PROVE  Bound' /\ Proven'
<1>1. ASSUME NEW n \in Node, NEW m \in Node, NEW c \in Conn, Keeps(n, m, c)
      PROVE  BoundTo(n, m, c)' /\ ProofHolds(n, m, c)'
  <2>1. At(n, c) /\ m = Other(n, c) /\ stage[c][n] # "closed"
    BY <1>1 DEF Keeps, Bound, BoundTo
  <2>2. ends'[c] = ends[c] /\ stage'[c][n] # "closed"
    BY <1>1, <2>1 DEF Calm, Keeps, At
  <2>3. BoundTo(n, m, c)'
    BY <2>1, <2>2 DEF BoundTo, At, Used, Ends, Other
  <2>4. stage'[c][m] # "closed" => stage[c][m] # "closed" /\ key'[m] = key[m]
    BY <2>1 DEF Calm, At
  <2>5. peers'[n][m].verified = peers[n][m].verified /\ ProofHolds(n, m, c)
    BY <1>1 DEF Keeps, Proven
  <2> QED BY <2>3, <2>4, <2>5 DEF ProofHolds
<1>2. \A n, m \in Node, c \in Conn : peers'[n][m].writer = c => BoundTo(n, m, c)' /\ ProofHolds(n, m, c)'
  BY <1>1
<1> QED BY <1>2 DEF Bound, Proven

----------------------------------------------------------------------------
(* The steps *)

LEMMA HelloTyped ==
  ASSUME TypeOK, NEW n \in Node
  PROVE  Hello(n) \in Msg /\ Hello(n).t = "hello" /\ Hello(n).about = n /\ Hello(n).key = key[n]
BY PeerConstants DEF Hello, TypeOK, Msg, HelloMsg

LEMMA DialStep ==
  ASSUME Inv, NEW n \in Node, NEW m \in Node, Dial(n, m), UNCHANGED <<epoch, key, peers, cache, faults>>
  PROVE  Inv'
<1> USE DEF Inv
<1>1. n # m
  BY PeerConstants DEF Dial, MayDial
<1>2. PICK c \in Conn :
        /\ ~Used(c)
        /\ ends' = [ends EXCEPT ![c] = <<n, m>>]
        /\ stage' = [stage EXCEPT ![c] = [x \in Node |-> IF x \in {n, m} THEN "fresh" ELSE "closed"]]
        /\ wire' = [wire EXCEPT ![c][m] = <<Hello(n)>>]
  BY DEF Dial
<1>3. dialing' = [dialing EXCEPT ![n] = @ \cup {m}]
  BY DEF Dial
<1>4. TypeOK'
  <2>1. ends' \in [Conn -> {<<>>} \cup (Node \X Node)]
    BY <1>2 DEF TypeOK
  <2>2. stage' \in [Conn -> [Node -> {"fresh", "open", "closing", "closed"}]]
    BY <1>2 DEF TypeOK
  <2>3. dialing' \in [Node -> SUBSET Node]
    BY <1>3 DEF TypeOK
  <2> QED BY <2>1, <2>2, <2>3 DEF TypeOK
<1>5. \A x \in Node : stage[c][x] = "closed" /\ wire[c][x] = <<>>
  BY <1>2 DEF Tidy, At
<1>6. wire' \in Wires /\ \A b \in Conn, x \in Node :
        wire'[b][x] = IF b = c /\ x = m THEN <<Hello(n)>> ELSE wire[b][x]
  <2> DEFINE w == <<Hello(n)>>
  <2>1. w \in Seq(Msg)
    BY HelloTyped, MsgsOf
  <2>2. wire' = [wire EXCEPT ![c][m] = w]
    BY <1>2
  <2> HIDE DEF w
  <2>3. wire' \in Wires /\ \A b \in Conn, x \in Node : wire'[b][x] = IF b = c /\ x = m THEN w ELSE wire[b][x]
    BY <2>1, <2>2 DEF Wires
  <2> QED BY <2>3 DEF w
<1>7. /\ ends'[c] = <<n, m>> /\ \A x \in Node : stage'[c][x] = IF x \in {n, m} THEN "fresh" ELSE "closed"
      /\ \A b \in Conn \ {c} : ends'[b] = ends[b] /\ stage'[b] = stage[b]
  BY <1>2 DEF TypeOK
<1>8. Tidy'
  <2> SUFFICES ASSUME NEW b \in Conn
               PROVE  /\ Used(b)' => ends'[b][1] # ends'[b][2]
                      /\ \A x \in Node : /\ stage'[b][x] # "closed" => At(x, b)'
                                         /\ wire'[b][x] # <<>> => stage'[b][x] # "closed"
    BY DEF Tidy
  <2>1. CASE b = c
    <3>1. Used(c)' /\ Ends(c)' = {n, m} /\ ends'[c][1] # ends'[c][2]
      BY <1>1, <1>7 DEF Used, Ends
    <3> QED BY <2>1, <3>1, <1>5, <1>6, <1>7 DEF At
  <2>2. CASE b # c
    <3>1. ends'[b] = ends[b] /\ stage'[b] = stage[b] /\ \A x \in Node : wire'[b][x] = wire[b][x]
      BY <2>2, <1>6, <1>7
    <3> QED BY <3>1 DEF Tidy, At, Used, Ends
  <2> QED BY <2>1, <2>2
<1>9. Calm
  BY <1>2, <1>7 DEF Calm
<1>10. Signed'
  <2>1. ASSUME NEW b \in Conn, NEW x \in Node, NEW msg \in Msgs(wire'[b][x])
        PROVE  msg \in Msgs(wire[b][x]) \/ Honest(b, x, msg)'
    <3>1. CASE b = c /\ x = m
      <4>1. msg = Hello(n)
        BY <1>6, <3>1, HelloTyped, MsgsOf
      <4>2. msg.t = "hello" /\ msg.about = n /\ msg.key = key[n]
        BY <4>1, HelloTyped
      <4>3. Other(m, c)' = n
        BY <1>1, <1>7 DEF Other
      <4>4. key' = key
        OBVIOUS
      <4> QED BY <3>1, <4>2, <4>3, <4>4 DEF Honest
    <3>2. CASE ~(b = c /\ x = m)
      BY <1>6, <3>2
    <3> QED BY <3>1, <3>2
  <2> QED BY <2>1, <1>6, <1>8, <1>9, SignedStays
<1>11. Bound' /\ Proven'
  <2>1. ASSUME NEW x \in Node, NEW y \in Node, NEW b \in Conn, peers'[x][y].writer = b
        PROVE  Keeps(x, y, b)
    <3>1. peers' = peers /\ stage[b][x] # "closed"
      BY <2>1 DEF Bound, BoundTo
    <3>2. b # c
      BY <3>1, <1>5
    <3> QED BY <2>1, <3>1, <3>2, <1>7 DEF Keeps
  <2> QED BY <2>1, <1>9, BoundStays
<1> QED BY <1>4, <1>6, <1>8, <1>10, <1>11

\* A link is given up by the node, its connection still to be closed.
LEMMA DropStep ==
  ASSUME Inv, NEW n \in Node, NEW m \in Node, Linked(n, m), Dropped(n, m),
         UNCHANGED <<epoch, key, ends, wire, dialing, cache, faults>>
  PROVE  Inv'
<1> USE DEF Inv
<1> DEFINE c == peers[n][m].writer
<1>1. c \in Conn /\ BoundTo(n, m, c)
  BY DEF Linked, TypeOK, Peer, Bound
<1> HIDE DEF c
<1>2. /\ stage' = [stage EXCEPT ![c][n] = "closing"] /\ peers' = [peers EXCEPT ![n][m].writer = NoConn]
      /\ stage[c][n] # "closed"
  BY <1>1 DEF Dropped, c, BoundTo
<1> DEFINE p == [peers[n][m] EXCEPT !.writer = NoConn]
<1>3. p \in Peer /\ p.writer = NoConn
  <2>1. peers[n][m] \in Peer
    BY DEF TypeOK
  <2> QED BY <2>1 DEF Peer
<1>4. peers' = [peers EXCEPT ![n][m] = p]
  BY <1>2 DEF TypeOK
<1> HIDE DEF p
<1>5. TypeOK'
  <2>1. peers' \in [Node -> [Node -> Peer]]
    BY <1>3, <1>4 DEF TypeOK
  <2>2. stage' \in [Conn -> [Node -> {"fresh", "open", "closing", "closed"}]]
    BY <1>1, <1>2 DEF TypeOK
  <2> QED BY <2>1, <2>2 DEF TypeOK
<1>6. /\ \A b \in Conn, x \in Node : stage'[b][x] # "closed" <=> stage[b][x] # "closed"
      /\ ends' = ends /\ wire' = wire /\ key' = key
  BY <1>1, <1>2 DEF TypeOK
<1>7. Tidy' /\ Calm
  <2>1. Tidy'
    BY <1>6 DEF Tidy, At, Used, Ends
  <2>2. Calm
    BY <1>6 DEF Calm
  <2> QED BY <2>1, <2>2
<1>8. Signed'
  BY <1>6, <1>7, SignedStays
<1>9. Bound' /\ Proven'
  <2>1. ASSUME NEW x \in Node, NEW y \in Node, NEW b \in Conn, peers'[x][y].writer = b
        PROVE  Keeps(x, y, b)
    <3>1. x # n \/ y # m
      BY <2>1, <1>3, <1>4, PeerConstants DEF TypeOK
    <3>2. peers'[x][y] = peers[x][y]
      BY <3>1, <1>4 DEF TypeOK
    <3>3. stage[b][x] # "closed"
      BY <2>1, <3>2 DEF Bound, BoundTo
    <3> QED BY <2>1, <3>2, <3>3, <1>6 DEF Keeps
  <2> QED BY <2>1, <1>7, BoundStays
<1> QED BY <1>5, <1>6, <1>7, <1>8, <1>9

LEMMA ReapStep ==
  ASSUME Inv, NEW n \in Node, NEW m \in Node, Reap(n, m)
  PROVE  Inv'
<1> USE DEF Inv
<1>1. peers' = [peers EXCEPT ![n][m] = Unknown] /\ UNCHANGED <<epoch, key, ends, stage, wire, dialing, cache, faults>>
  BY DEF Reap
<1>2. Unknown \in Peer /\ Unknown.writer = NoConn
  BY DEF Unknown, Peer
<1>3. TypeOK'
  <2>1. peers' \in [Node -> [Node -> Peer]]
    BY <1>1, <1>2 DEF TypeOK
  <2> QED BY <1>1, <2>1 DEF TypeOK
<1>4. Tidy' /\ Calm
  <2>1. Tidy'
    BY <1>1 DEF Tidy, At, Used, Ends
  <2>2. Calm
    BY <1>1 DEF Calm
  <2> QED BY <2>1, <2>2
<1>5. Signed'
  BY <1>1, <1>4, SignedStays
<1>6. Bound' /\ Proven'
  <2>1. ASSUME NEW x \in Node, NEW y \in Node, NEW b \in Conn, peers'[x][y].writer = b
        PROVE  Keeps(x, y, b)
    <3>1. x # n \/ y # m
      BY <2>1, <1>1, <1>2, PeerConstants DEF TypeOK
    <3>2. peers'[x][y] = peers[x][y]
      BY <3>1, <1>1 DEF TypeOK
    <3>3. stage[b][x] # "closed"
      BY <2>1, <3>2 DEF Bound, BoundTo
    <3> QED BY <2>1, <3>2, <3>3, <1>1 DEF Keeps
  <2> QED BY <2>1, <1>4, BoundStays
<1> QED BY <1>1, <1>3, <1>4, <1>5, <1>6

\* An end is closed for good, by whatever ended it.
LEMMA FinishStep ==
  ASSUME Inv, NEW n \in Node, NEW c \in Conn, Live(n, c), Finish(n, c),
         UNCHANGED <<epoch, key, cache>>, faults' \in Nat
  PROVE  Inv'
<1> USE DEF Inv
<1> DEFINE o == Other(n, c)
<1>1. At(n, c) /\ o \in Node /\ o # n /\ Ends(c) = {n, o}
  BY Opposite DEF Live
<1> HIDE DEF o
<1>2. /\ stage' = [stage EXCEPT ![c][n] = "closed"] /\ wire' = [wire EXCEPT ![c][n] = <<>>]
      /\ ends' = IF stage[c][o] = "closed" THEN [ends EXCEPT ![c] = <<>>] ELSE ends
      /\ dialing' = HandBack(n, c)
  BY DEF Finish, o
<1> DEFINE p(m) == [peers[n][m] EXCEPT !.writer = NoConn]
<1>3. ASSUME NEW m \in Node
      PROVE  p(m) \in Peer /\ p(m).writer = NoConn
  <2>1. peers[n][m] \in Peer
    BY DEF TypeOK
  <2> QED BY <2>1 DEF Peer
<1> DEFINE row == [m \in Node |-> IF peers[n][m].writer = c THEN p(m) ELSE peers[n][m]]
<1>4. peers' = [peers EXCEPT ![n] = row]
  BY DEF Finish, TypeOK
<1> HIDE DEF p
<1>5. /\ row \in [Node -> Peer]
      /\ \A m \in Node : peers[n][m].writer # c => row[m] = peers[n][m]
      /\ \A m \in Node : row[m].writer # c /\ (peers[n][m].writer = c => row[m].writer = NoConn)
  <2>1. NoConn # c
    BY PeerConstants
  <2> QED BY <1>3, <2>1 DEF TypeOK
<1> HIDE DEF row
<1>6. TypeOK'
  <2>1. peers' \in [Node -> [Node -> Peer]]
    BY <1>4, <1>5 DEF TypeOK
  <2>2. stage' \in [Conn -> [Node -> {"fresh", "open", "closing", "closed"}]]
    BY <1>2 DEF TypeOK
  <2>3. ends' \in [Conn -> {<<>>} \cup (Node \X Node)]
    BY <1>2 DEF TypeOK
  <2>4. dialing' \in [Node -> SUBSET Node]
    BY <1>2 DEF TypeOK, HandBack
  <2> QED BY <2>1, <2>2, <2>3, <2>4 DEF TypeOK
<1>7. /\ wire' \in Wires
      /\ \A b \in Conn, x \in Node : wire'[b][x] = IF b = c /\ x = n THEN <<>> ELSE wire[b][x]
  <2> DEFINE w == <<>>
  <2>1. w \in Seq(Msg)
    BY MsgsNone
  <2>2. wire' = [wire EXCEPT ![c][n] = w]
    BY <1>2
  <2> HIDE DEF w
  <2>3. wire' \in Wires /\ \A b \in Conn, x \in Node : wire'[b][x] = IF b = c /\ x = n THEN w ELSE wire[b][x]
    BY <2>1, <2>2 DEF Wires
  <2> QED BY <2>3 DEF w
<1>8. \A b \in Conn, x \in Node : stage'[b][x] = IF b = c /\ x = n THEN "closed" ELSE stage[b][x]
  BY <1>2 DEF TypeOK
<1>9. /\ \A b \in Conn : ends'[b] \in {ends[b], <<>>}
      /\ \A b \in Conn, x \in Node : stage'[b][x] # "closed" => ends'[b] = ends[b]
  <2>1. ASSUME NEW b \in Conn, NEW x \in Node, stage'[b][x] # "closed"
        PROVE  ends'[b] = ends[b]
    <3>1. CASE b = c
      <4>1. x # n /\ stage[c][x] # "closed"
        BY <2>1, <3>1, <1>8
      <4>2. x = o
        BY <4>1, <1>1 DEF Tidy, At
      <4> QED BY <4>1, <4>2, <1>2
    <3>2. CASE b # c
      BY <3>2, <1>2 DEF TypeOK
    <3> QED BY <3>1, <3>2
  <2>2. \A b \in Conn : ends'[b] \in {ends[b], <<>>}
    BY <1>2 DEF TypeOK
  <2> QED BY <2>1, <2>2
<1>10. Tidy'
  <2>1. ASSUME NEW b \in Conn, Used(b)' PROVE ends'[b][1] # ends'[b][2]
    BY <2>1, <1>9 DEF Used, Tidy
  <2>2. ASSUME NEW b \in Conn, NEW x \in Node, stage'[b][x] # "closed" PROVE At(x, b)'
    BY <2>2, <1>8, <1>9 DEF Tidy, At, Used, Ends
  <2>3. ASSUME NEW b \in Conn, NEW x \in Node, wire'[b][x] # <<>> PROVE stage'[b][x] # "closed"
    BY <2>3, <1>7, <1>8 DEF Tidy
  <2> QED BY <2>1, <2>2, <2>3 DEF Tidy
<1>11. Calm
  BY <1>8, <1>9 DEF Calm
<1>12. Signed'
  <2>1. \A b \in Conn, x \in Node : \A msg \in Msgs(wire'[b][x]) : msg \in Msgs(wire[b][x])
    BY <1>7, MsgsNone
  <2> QED BY <2>1, <1>7, <1>10, <1>11, SignedStays
<1>13. Bound' /\ Proven'
  <2>1. ASSUME NEW x \in Node, NEW y \in Node, NEW b \in Conn, peers'[x][y].writer = b
        PROVE  Keeps(x, y, b)
    <3>1. peers'[x][y] = peers[x][y] /\ (b # c \/ x # n)
      <4>1. CASE x = n
        <5>1. peers'[n] = row
          BY <1>4 DEF TypeOK
        <5>2. row[y].writer # c /\ (peers[n][y].writer # c => row[y] = peers[n][y])
          BY <1>5
        <5>3. row[y].writer = b
          BY <2>1, <4>1, <5>1
        <5>4. peers[n][y].writer # c
          BY <1>5, <5>3, PeerConstants
        <5> QED BY <4>1, <5>1, <5>2, <5>3, <5>4
      <4>2. CASE x # n
        BY <4>2, <1>4 DEF TypeOK
      <4> QED BY <4>1, <4>2
    <3>2. stage[b][x] # "closed"
      BY <2>1, <3>1 DEF Bound, BoundTo
    <3> QED BY <2>1, <3>1, <3>2, <1>8 DEF Keeps
  <2> QED BY <2>1, <1>11, BoundStays
<1> QED BY <1>6, <1>7, <1>10, <1>12, <1>13

LEMMA RestartStep ==
  ASSUME Inv, NEW n \in Node, NEW i \in 1..MaxEpoch, Restart(n, i)
  PROVE  Inv'
<1> USE DEF Inv
<1>1. /\ epoch' = [epoch EXCEPT ![n] = @ + 1] /\ key' = [key EXCEPT ![n] = <<n, i>>]
      /\ stage' = [c \in Conn |-> [stage[c] EXCEPT ![n] = "closed"]]
      /\ wire' = [c \in Conn |-> [wire[c] EXCEPT ![n] = <<>>]]
      /\ ends' = [c \in Conn |-> IF At(n, c) /\ stage[c][Other(n, c)] = "closed" THEN <<>> ELSE ends[c]]
      /\ dialing' = [dialing EXCEPT ![n] = {}]
      /\ peers' = [peers EXCEPT ![n] = [m \in Node |-> Unknown]]
      /\ UNCHANGED <<cache, faults>>
  BY DEF Restart
<1>2. Unknown \in Peer /\ Unknown.writer = NoConn
  BY DEF Unknown, Peer
<1>3. TypeOK'
  <2>1. peers' \in [Node -> [Node -> Peer]]
    BY <1>1, <1>2 DEF TypeOK
  <2>2. stage' \in [Conn -> [Node -> {"fresh", "open", "closing", "closed"}]]
    BY <1>1 DEF TypeOK
  <2>3. ends' \in [Conn -> {<<>>} \cup (Node \X Node)]
    BY <1>1 DEF TypeOK
  <2>4. dialing' \in [Node -> SUBSET Node]
    BY <1>1 DEF TypeOK
  <2>5. epoch' \in [Node -> Nat]
    BY <1>1 DEF TypeOK
  <2>6. key' \in [Node -> Key]
    <3>1. <<n, i>> \in Key
      BY DEF Key
    <3> QED BY <1>1, <3>1 DEF TypeOK
  <2> QED BY <1>1, <2>1, <2>2, <2>3, <2>4, <2>5, <2>6 DEF TypeOK
<1>4. /\ wire' \in Wires
      /\ \A b \in Conn, x \in Node : wire'[b][x] = IF x = n THEN <<>> ELSE wire[b][x]
  <2> DEFINE w == <<>>
  <2>1. w \in Seq(Msg)
    BY MsgsNone
  <2>2. wire' = [c \in Conn |-> [wire[c] EXCEPT ![n] = w]]
    BY <1>1
  <2> HIDE DEF w
  <2>3. wire' \in Wires /\ \A b \in Conn, x \in Node : wire'[b][x] = IF x = n THEN w ELSE wire[b][x]
    BY <2>1, <2>2 DEF Wires
  <2> QED BY <2>3 DEF w
<1>5. \A b \in Conn, x \in Node : stage'[b][x] = IF x = n THEN "closed" ELSE stage[b][x]
  BY <1>1 DEF TypeOK
<1>6. /\ \A b \in Conn : ends'[b] \in {ends[b], <<>>}
      /\ \A b \in Conn, x \in Node : stage'[b][x] # "closed" => ends'[b] = ends[b]
  <2>1. ASSUME NEW b \in Conn, NEW x \in Node, stage'[b][x] # "closed", At(n, b)
        PROVE  stage[b][Other(n, b)] # "closed"
    <3>1. x # n /\ stage[b][x] # "closed"
      BY <2>1, <1>5
    <3>2. x \in Ends(b)
      BY <3>1 DEF Tidy, At
    <3>3. x = Other(n, b)
      BY <3>1, <3>2, <2>1, Opposite
    <3> QED BY <3>1, <3>3
  <2> QED BY <2>1, <1>1
<1>7. Tidy'
  <2>1. ASSUME NEW b \in Conn, Used(b)' PROVE ends'[b][1] # ends'[b][2]
    BY <2>1, <1>6 DEF Used, Tidy
  <2>2. ASSUME NEW b \in Conn, NEW x \in Node, stage'[b][x] # "closed" PROVE At(x, b)'
    BY <2>2, <1>5, <1>6 DEF Tidy, At, Used, Ends
  <2>3. ASSUME NEW b \in Conn, NEW x \in Node, wire'[b][x] # <<>> PROVE stage'[b][x] # "closed"
    BY <2>3, <1>4, <1>5 DEF Tidy
  <2> QED BY <2>1, <2>2, <2>3 DEF Tidy
<1>8. Calm
  <2>1. \A x \in Node : x # n => key'[x] = key[x]
    BY <1>1 DEF TypeOK
  <2> QED BY <1>5, <1>6, <2>1 DEF Calm
<1>9. Signed'
  <2>1. \A b \in Conn, x \in Node : \A msg \in Msgs(wire'[b][x]) : msg \in Msgs(wire[b][x])
    BY <1>4, MsgsNone
  <2> QED BY <2>1, <1>4, <1>7, <1>8, SignedStays
<1>10. Bound' /\ Proven'
  <2>1. ASSUME NEW x \in Node, NEW y \in Node, NEW b \in Conn, peers'[x][y].writer = b
        PROVE  Keeps(x, y, b)
    <3>1. x # n /\ peers'[x][y] = peers[x][y]
      BY <2>1, <1>1, <1>2, PeerConstants DEF TypeOK
    <3>2. stage[b][x] # "closed"
      BY <2>1, <3>1 DEF Bound, BoundTo
    <3> QED BY <2>1, <3>1, <3>2, <1>5 DEF Keeps
  <2> QED BY <2>1, <1>8, BoundStays
<1> QED BY <1>3, <1>4, <1>7, <1>9, <1>10

LEMMA MsgsAppended ==
  ASSUME NEW S, NEW s \in Seq(S), NEW a \in S
  PROVE  Append(s, a) \in Seq(S) /\ Msgs(Append(s, a)) \subseteq Msgs(s) \cup {a}
<1>1. Append(s, a) \in Seq(S) /\ DOMAIN Append(s, a) = 1..(Len(s) + 1) /\ DOMAIN s = 1..Len(s) /\ Len(s) \in Nat
  OBVIOUS
<1>2. ASSUME NEW i \in DOMAIN Append(s, a)
      PROVE  Append(s, a)[i] = a \/ (i \in DOMAIN s /\ Append(s, a)[i] = s[i])
  BY <1>1
<1> QED BY <1>1, <1>2 DEF Msgs

\* What a node makes of an advert: gossip touches neither the link nor the
\* proof, and a hello keeps a proof only of the link it came on.
LEMMA LearnedSays ==
  ASSUME TypeOK, NEW n \in Node, NEW m \in Node, NEW e \in Nat, NEW k \in Key \cup {NoKey}, NEW c \in Conn \cup {NoConn}
  PROVE  LET p == peers[n][m]
             q == Learned(n, m, e, k, c) IN
         /\ q \in Peer
         /\ c = NoConn => q.writer = p.writer /\ q.verified = p.verified
         /\ c # NoConn => /\ q.writer = c
                          /\ q.verified = NoKey \/ (p.writer = c /\ q.verified = p.verified)
<1>1. peers[n][m] \in Peer
  BY DEF TypeOK
<1> QED BY <1>1 DEF Learned, Peer

\* A message that is read was honestly said, by the other end.
LEMMA ReadSays ==
  ASSUME Inv, NEW n \in Node, NEW c \in Conn, NEW t, Reads(n, c, t)
  PROVE  /\ At(n, c) /\ stage[c][n] # "closed" /\ wire[c][n] # <<>>
         /\ Head(wire[c][n]) \in Msg /\ Head(wire[c][n]).t = t
         /\ \E msg \in Msg : msg = Head(wire[c][n]) /\ msg.t = t /\ Honest(c, n, msg)
<1>1. At(n, c) /\ stage[c][n] # "closed" /\ wire[c][n] # <<>> /\ Head(wire[c][n]).t = t
  BY DEF Reads
<1>2. Head(wire[c][n]) \in Msg /\ Head(wire[c][n]) \in Msgs(wire[c][n])
  BY <1>1, Reading DEF Inv
<1>3. \A msg \in Msgs(wire[c][n]) : Honest(c, n, msg)
  BY DEF Inv, Signed
<1>4. PICK msg \in Msg : msg = Head(wire[c][n])
  BY <1>2
<1>5. Honest(c, n, msg)
  BY <1>2, <1>3, <1>4
<1> QED BY <1>1, <1>2, <1>4, <1>5

LEMMA NodeStep ==
  ASSUME Inv, NEW n \in Node, NEW c \in Conn, OnNode(n, c)
  PROVE  Inv'
<1> USE DEF Inv
<1>1. Reads(n, c, "node")
  BY DEF OnNode
<1>2. PICK msg \in Msg : msg = Head(wire[c][n]) /\ msg.t = "node"
  BY <1>1, ReadSays
<1>3. msg.about \in Node /\ msg.epoch \in Nat /\ msg.key \in Key \cup {NoKey}
  BY <1>2 DEF Msg, HelloMsg, NodeMsg, AuthMsg
<1> DEFINE m == msg.about
           p == Learned(n, m, msg.epoch, msg.key, NoConn)
<1>4. peers' = peers \/ peers' = [peers EXCEPT ![n][m] = p]
  BY <1>2 DEF OnNode
<1>5. wire' = Rest(n, c) /\ UNCHANGED <<epoch, key, ends, stage, dialing, cache, faults>>
  BY DEF OnNode
<1>6. p \in Peer /\ p.writer = peers[n][m].writer /\ p.verified = peers[n][m].verified
  BY <1>3, LearnedSays
<1> HIDE DEF p, m
<1>7. m \in Node
  BY <1>3 DEF m
<1>8. /\ peers' \in [Node -> [Node -> Peer]]
      /\ \A x, y \in Node : peers'[x][y].writer = peers[x][y].writer /\ peers'[x][y].verified = peers[x][y].verified
  <2>1. CASE peers' = peers
    BY <2>1 DEF TypeOK
  <2>2. CASE peers' = [peers EXCEPT ![n][m] = p]
    <3>1. peers' \in [Node -> [Node -> Peer]]
      BY <2>2, <1>6, <1>7 DEF TypeOK
    <3>2. ASSUME NEW x \in Node, NEW y \in Node
          PROVE  peers'[x][y] = IF x = n /\ y = m THEN p ELSE peers[x][y]
      BY <2>2, <1>7 DEF TypeOK
    <3> QED BY <3>1, <3>2, <1>6
  <2> QED BY <2>1, <2>2, <1>4
<1>9. TypeOK'
  BY <1>5, <1>8 DEF TypeOK
<1>10. /\ wire' \in Wires
       /\ \A b \in Conn, x \in Node : Msgs(wire'[b][x]) \subseteq Msgs(wire[b][x])
       /\ \A b \in Conn, x \in Node : b # c \/ x # n => wire'[b][x] = wire[b][x]
       /\ stage[c][n] # "closed"
  BY <1>1, <1>5, Reading, ReadSays
<1>11. Tidy' /\ Calm
  <2>1. Tidy'
    BY <1>5, <1>10 DEF Tidy, At, Used, Ends
  <2>2. Calm
    BY <1>5 DEF Calm
  <2> QED BY <2>1, <2>2
<1>12. Signed'
  BY <1>10, <1>11, SignedStays
<1>13. Bound' /\ Proven'
  <2>1. \A x, y \in Node, b \in Conn : peers'[x][y].writer = b => Keeps(x, y, b)
    BY <1>5, <1>8 DEF Keeps, Bound, BoundTo
  <2> QED BY <2>1, <1>11, BoundStays
<1> QED BY <1>9, <1>10, <1>11, <1>12, <1>13

LEMMA AuthStep ==
  ASSUME Inv, NEW n \in Node, NEW c \in Conn, OnAuth(n, c)
  PROVE  Inv'
<1> USE DEF Inv
<1>1. Reads(n, c, "auth")
  BY DEF OnAuth
<1>2. PICK msg \in Msg : msg = Head(wire[c][n]) /\ msg.t = "auth" /\ Honest(c, n, msg)
  BY <1>1, ReadSays
<1>3. msg.key \in Key
  BY <1>2 DEF Msg, HelloMsg, NodeMsg, AuthMsg
<1>4. wire' = Rest(n, c) /\ UNCHANGED <<epoch, key, ends, stage, dialing, cache, faults>>
  BY DEF OnAuth
<1> DEFINE p(m) == [peers[n][m] EXCEPT !.verified = msg.key]
           counts(m) == peers[n][m].writer = c /\ msg.on = c /\ msg.key = peers[n][m].key
           row == [m \in Node |-> IF counts(m) THEN p(m) ELSE peers[n][m]]
<1>5. peers' = [peers EXCEPT ![n] = row]
  BY <1>2 DEF OnAuth
<1>6. ASSUME NEW m \in Node
      PROVE  p(m) \in Peer /\ p(m).writer = peers[n][m].writer /\ p(m).verified = msg.key
  <2>1. peers[n][m] \in Peer
    BY DEF TypeOK
  <2> QED BY <1>3, <2>1 DEF Peer
<1> HIDE DEF p
<1>7. /\ row \in [Node -> Peer]
      /\ \A m \in Node : row[m].writer = peers[n][m].writer
      /\ \A m \in Node : row[m].verified = peers[n][m].verified
                         \/ (peers[n][m].writer = c /\ row[m].verified = msg.key)
  BY <1>6 DEF TypeOK
<1> HIDE DEF row
<1>8. TypeOK'
  <2>1. peers' \in [Node -> [Node -> Peer]]
    BY <1>5, <1>7 DEF TypeOK
  <2> QED BY <1>4, <2>1 DEF TypeOK
<1>9. /\ wire' \in Wires
      /\ \A b \in Conn, x \in Node : Msgs(wire'[b][x]) \subseteq Msgs(wire[b][x])
      /\ \A b \in Conn, x \in Node : b # c \/ x # n => wire'[b][x] = wire[b][x]
      /\ stage[c][n] # "closed"
  BY <1>1, <1>4, Reading, ReadSays
<1>10. Tidy' /\ Calm
  <2>1. Tidy'
    BY <1>4, <1>9 DEF Tidy, At, Used, Ends
  <2>2. Calm
    BY <1>4 DEF Calm
  <2> QED BY <2>1, <2>2
<1>11. Signed'
  BY <1>9, <1>10, SignedStays
<1>12. Bound' /\ Proven'
  <2>1. ASSUME NEW x \in Node, NEW y \in Node, NEW b \in Conn, peers'[x][y].writer = b
        PROVE  Keeps(x, y, b) \/ (BoundTo(x, y, b)' /\ ProofHolds(x, y, b)')
    <3>1. peers[x][y].writer = b
      BY <2>1, <1>5, <1>7 DEF TypeOK
    <3>2. BoundTo(x, y, b)
      BY <3>1 DEF Bound
    <3>3. CASE peers'[x][y].verified = peers[x][y].verified
      BY <3>1, <3>2, <3>3, <1>4 DEF Keeps, BoundTo
    <3>4. CASE peers'[x][y].verified # peers[x][y].verified
      <4>1. x = n /\ b = c /\ peers'[x][y].verified = msg.key
        BY <3>1, <3>4, <1>5, <1>7 DEF TypeOK
      <4>2. y = Other(n, c)
        BY <3>2, <4>1 DEF BoundTo
      <4>3. stage[c][y] # "closed" => msg.key = key[y]
        BY <1>2, <4>2 DEF Honest
      <4>4. ProofHolds(x, y, b)'
        BY <4>1, <4>3, <1>4 DEF ProofHolds
      <4>5. BoundTo(x, y, b)'
        BY <3>2, <1>4 DEF BoundTo, At, Used, Ends, Other
      <4> QED BY <4>4, <4>5
    <3> QED BY <3>3, <3>4
  <2> QED BY <2>1, <1>10, BoundStays
<1> QED BY <1>8, <1>9, <1>10, <1>11, <1>12

LEMMA GossipStep ==
  ASSUME Inv, NEW n \in Node, NEW x \in Node, NEW m \in Node, Gossip(n, x, m)
  PROVE  Inv'
<1> USE DEF Inv
<1> DEFINE a == IF m = n THEN Advert(n, epoch[n], key[n])
                ELSE Advert(m, peers[n][m].epoch, peers[n][m].key)
<1>1. PICK c \in Conn : c = peers[n][x].writer
  BY DEF Gossip, Linked, TypeOK, Peer
<1>2. At(n, c)
  BY <1>1 DEF Bound, BoundTo
<1>3. wire' = Send(wire, n, c, <<a>>) /\ UNCHANGED <<epoch, key, ends, stage, dialing, peers, cache, faults>>
  BY <1>1 DEF Gossip
<1>4. a \in Msg /\ a.t = "node"
  <2>1. peers[n][m] \in Peer /\ epoch[n] \in Nat /\ key[n] \in Key
    BY DEF TypeOK
  <2> QED BY <2>1 DEF Advert, Msg, NodeMsg, Peer
<1> HIDE DEF a
<1>5. <<a>> \in Seq(Msg) /\ Msgs(<<a>>) = {a}
  BY <1>4, MsgsOf
<1> DEFINE w == <<a>>
<1>6. w \in Seq(Msg) /\ Msgs(w) = {a} /\ wire' = Send(wire, n, c, w)
  BY <1>3, <1>5
<1> HIDE DEF w
<1>7. /\ wire' \in Wires
      /\ \A b \in Conn, y \in Node :
           IF b = c /\ y = Other(n, c) /\ stage[c][y] # "closed"
           THEN Msgs(wire'[b][y]) \subseteq Msgs(wire[b][y]) \cup {a}
           ELSE wire'[b][y] = wire[b][y]
  BY SMTT(20), <1>2, <1>6, Sending
<1>8. TypeOK'
  BY <1>3 DEF TypeOK
<1>9. Tidy' /\ Calm
  <2>1. Tidy'
    BY <1>3, <1>7 DEF Tidy, At, Used, Ends
  <2>2. Calm
    BY <1>3 DEF Calm
  <2> QED BY <2>1, <2>2
<1>10. Signed'
  <2>1. ASSUME NEW b \in Conn, NEW y \in Node, NEW msg \in Msgs(wire'[b][y])
        PROVE  msg \in Msgs(wire[b][y]) \/ Honest(b, y, msg)'
    <3>1. msg \in Msgs(wire[b][y]) \/ msg = a
      BY <1>7
    <3> QED BY <3>1, <1>4 DEF Honest
  <2> QED BY <2>1, <1>7, <1>9, SignedStays
<1>11. Bound' /\ Proven'
  <2>1. \A y, z \in Node, b \in Conn : peers'[y][z].writer = b => Keeps(y, z, b)
    BY <1>3 DEF Keeps, Bound, BoundTo
  <2> QED BY <2>1, <1>9, BoundStays
<1> QED BY <1>7, <1>8, <1>9, <1>10, <1>11

\* What a hello that is read does to the two tables it may change.
LEMMA HelloEffect ==
  ASSUME Inv, NEW n \in Node, NEW c \in Conn, OnHello(n, c)
  PROVE  /\ stage' \in [Conn -> [Node -> {"fresh", "open", "closing", "closed"}]]
         /\ \A b \in Conn, x \in Node : stage'[b][x] # "closed" <=> stage[b][x] # "closed"
         /\ peers' \in [Node -> [Node -> Peer]]
         /\ cache' \in [Node -> SUBSET Node]
         /\ \A x, y \in Node :
              \/ peers'[x][y] = peers[x][y]
              \/ /\ x = n /\ y = Other(n, c) /\ peers'[x][y].writer = c
                 /\ \/ peers'[x][y].verified = NoKey
                    \/ peers[x][y].writer = c /\ peers'[x][y].verified = peers[x][y].verified
<1> USE DEF Inv
<1>1. Reads(n, c, "hello")
  BY DEF OnHello
<1>2. PICK msg \in Msg : msg = Head(wire[c][n]) /\ msg.t = "hello" /\ Honest(c, n, msg)
  BY <1>1, ReadSays
<1>3. stage[c][n] # "closed"
  BY <1>1, ReadSays
<1>4. msg.epoch \in Nat /\ msg.key \in Key /\ msg.about \in Node /\ msg.about = Other(n, c)
  BY <1>2 DEF Msg, HelloMsg, NodeMsg, AuthMsg, Honest
<1> DEFINE m == msg.about
           p == Learned(n, m, msg.epoch, msg.key, c)
<1>5. \/ stage' = [stage EXCEPT ![c][n] = "closing"] /\ UNCHANGED <<peers, cache>>
      \/ stage' = [stage EXCEPT ![c][n] = "open"] /\ UNCHANGED <<peers, cache>>
      \/ /\ stage' = [b \in Conn |->
                        IF b = c THEN [stage[b] EXCEPT ![n] = "open"]
                        ELSE IF b \in Superseded(n, m, c) THEN [stage[b] EXCEPT ![n] = "closing"]
                        ELSE stage[b]]
         /\ peers' = [peers EXCEPT ![n][m] = p]
         /\ cache' = [cache EXCEPT ![n] = @ \cup {m}]
  BY <1>2 DEF OnHello
<1>6. /\ p \in Peer /\ p.writer = c
      /\ p.verified = NoKey \/ (peers[n][m].writer = c /\ p.verified = peers[n][m].verified)
  <2>1. TypeOK /\ c \in Conn \cup {NoConn} /\ c # NoConn
    BY PeerConstants
  <2>2. ASSUME NEW y \in Node, NEW e \in Nat, NEW k \in Key \cup {NoKey}
        PROVE  LET q == Learned(n, y, e, k, c) IN
               /\ q \in Peer /\ q.writer = c
               /\ q.verified = NoKey \/ (peers[n][y].writer = c /\ q.verified = peers[n][y].verified)
    BY <2>1, LearnedSays
  <2>3. msg.about \in Node /\ msg.epoch \in Nat /\ msg.key \in Key \cup {NoKey}
    BY <1>4
  <2> HIDE DEF Inv
  <2> QED BY <2>2, <2>3
<1> HIDE DEF p
<1>7. m \in Node /\ m = Other(n, c)
  BY <1>4
<1> HIDE DEF m
<1>8. \A b \in Superseded(n, m, c) : b \in Conn /\ stage[b][n] # "closed"
  BY <1>7 DEF Superseded, Bound, BoundTo
<1>9. CASE UNCHANGED <<peers, cache>> /\ \E v \in {"closing", "open"} : stage' = [stage EXCEPT ![c][n] = v]
  BY <1>3, <1>9 DEF TypeOK
<1>10. CASE /\ stage' = [b \in Conn |->
                        IF b = c THEN [stage[b] EXCEPT ![n] = "open"]
                        ELSE IF b \in Superseded(n, m, c) THEN [stage[b] EXCEPT ![n] = "closing"]
                        ELSE stage[b]]
            /\ peers' = [peers EXCEPT ![n][m] = p]
            /\ cache' = [cache EXCEPT ![n] = @ \cup {m}]
  <2>1. stage' \in [Conn -> [Node -> {"fresh", "open", "closing", "closed"}]]
    BY <1>10 DEF TypeOK
  <2>2. ASSUME NEW b \in Conn, NEW x \in Node
        PROVE  stage'[b][x] # "closed" <=> stage[b][x] # "closed"
    BY <1>10, <1>3, <1>8 DEF TypeOK
  <2>3. peers' \in [Node -> [Node -> Peer]]
    BY <1>10, <1>6, <1>7 DEF TypeOK
  <2>4. cache' \in [Node -> SUBSET Node]
    BY <1>10, <1>7 DEF TypeOK
  <2>5. ASSUME NEW x \in Node, NEW y \in Node
        PROVE  peers'[x][y] = IF x = n /\ y = m THEN p ELSE peers[x][y]
    BY <1>10, <1>7 DEF TypeOK
  <2> QED BY <2>1, <2>2, <2>3, <2>4, <2>5, <1>6, <1>7
<1> QED BY <1>5, <1>9, <1>10

\* What is answered to a hello.
LEMMA HelloAnswer ==
  ASSUME Inv, NEW n \in Node, NEW c \in Conn, OnHello(n, c)
  PROVE  /\ wire' \in Wires
         /\ \A b \in Conn, x \in Node : wire'[b][x] # <<>> => wire[b][x] # <<>> \/ stage[b][x] # "closed"
         /\ \A b \in Conn, x \in Node : \A msg \in Msgs(wire'[b][x]) :
              \/ msg \in Msgs(wire[b][x])
              \/ /\ b = c /\ x = Other(n, c)
                 /\ msg \in {Hello(n), Auth(c, key[n])}
<1> USE DEF Inv
<1>1. Reads(n, c, "hello")
  BY DEF OnHello
<1>2. At(n, c) /\ stage[c][n] # "closed" /\ wire[c][n] # <<>>
  BY <1>1, ReadSays
<1>3. /\ Rest(n, c) \in Wires
      /\ \A b \in Conn, x \in Node : Msgs(Rest(n, c)[b][x]) \subseteq Msgs(wire[b][x])
      /\ \A b \in Conn, x \in Node : b # c \/ x # n => Rest(n, c)[b][x] = wire[b][x]
  BY <1>2, Reading
<1> DEFINE mine == IF ends[c][2] = n THEN <<Hello(n)>> ELSE <<>>
           said == Append(mine, Auth(c, key[n]))
<1>4. wire' = Rest(n, c) \/ wire' = Send(Rest(n, c), n, c, said)
  BY DEF OnHello
<1>5. mine \in Seq(Msg) /\ Msgs(mine) \subseteq {Hello(n)}
  BY HelloTyped, MsgsOf, MsgsNone
<1>6. Auth(c, key[n]) \in Msg
  BY DEF Auth, Msg, AuthMsg, TypeOK
<1>7. said \in Seq(Msg) /\ Msgs(said) \subseteq {Hello(n), Auth(c, key[n])}
  BY <1>5, <1>6, MsgsAppended
<1> HIDE DEF said
<1>8. CASE wire' = Rest(n, c)
  BY <1>2, <1>3, <1>8
<1>9. CASE wire' = Send(Rest(n, c), n, c, said)
  <2>1. /\ wire' \in Wires
        /\ \A b \in Conn, x \in Node :
             IF b = c /\ x = Other(n, c) /\ stage[c][x] # "closed"
             THEN Msgs(wire'[b][x]) \subseteq Msgs(Rest(n, c)[b][x]) \cup Msgs(said)
             ELSE wire'[b][x] = Rest(n, c)[b][x]
    BY <1>2, <1>3, <1>7, <1>9, Sending
  <2>2. ASSUME NEW b \in Conn, NEW x \in Node, wire'[b][x] # <<>>
        PROVE  wire[b][x] # <<>> \/ stage[b][x] # "closed"
    BY <2>1, <2>2, <1>2, <1>3
  <2>3. ASSUME NEW b \in Conn, NEW x \in Node, NEW msg \in Msgs(wire'[b][x])
        PROVE  \/ msg \in Msgs(wire[b][x])
               \/ b = c /\ x = Other(n, c) /\ msg \in {Hello(n), Auth(c, key[n])}
    BY <2>1, <1>3, <1>7
  <2> QED BY <2>1, <2>2, <2>3
<1> QED BY <1>4, <1>8, <1>9

LEMMA HelloStep ==
  ASSUME Inv, NEW n \in Node, NEW c \in Conn, OnHello(n, c)
  PROVE  Inv'
<1> USE DEF Inv
<1>1. UNCHANGED <<epoch, key, ends, dialing, faults>>
  BY DEF OnHello
<1>2. At(n, c) /\ stage[c][n] # "closed"
  BY ReadSays DEF OnHello
<1>3. TypeOK'
  BY <1>1, HelloEffect DEF TypeOK
<1>4. \A b \in Conn, x \in Node : stage'[b][x] # "closed" <=> stage[b][x] # "closed"
  BY HelloEffect
<1>5. \A b \in Conn, x \in Node : wire'[b][x] # <<>> => wire[b][x] # <<>> \/ stage[b][x] # "closed"
  BY HelloAnswer
<1>6. Tidy' /\ Calm
  <2>1. Tidy'
    BY <1>1, <1>4, <1>5 DEF Tidy, At, Used, Ends
  <2>2. Calm
    BY <1>1, <1>4 DEF Calm
  <2> QED BY <2>1, <2>2
<1>7. wire' \in Wires
  BY HelloAnswer
<1>8. Signed'
  <2>1. ASSUME NEW b \in Conn, NEW x \in Node, NEW msg \in Msgs(wire'[b][x])
        PROVE  msg \in Msgs(wire[b][x]) \/ Honest(b, x, msg)'
    <3>1. CASE msg \notin Msgs(wire[b][x])
      <4>1. b = c /\ x = Other(n, c) /\ msg \in {Hello(n), Auth(c, key[n])}
        BY <3>1, HelloAnswer
      <4>2. Other(x, c)' = n
        <5>1. Other(x, c) = n
          BY <1>2, <4>1, Opposite
        <5> QED BY <5>1, <1>1 DEF Other
      <4>3. /\ msg.key = key[n]
            /\ msg.t = "hello" => msg.about = n
            /\ msg.t = "auth" => msg.on = c
        BY <4>1, HelloTyped DEF Auth
      <4> QED BY <4>1, <4>2, <4>3, <1>1 DEF Honest
    <3> QED BY <3>1
  <2> QED BY <2>1, <1>6, <1>7, SignedStays
<1>9. Bound' /\ Proven'
  <2>1. ASSUME NEW x \in Node, NEW y \in Node, NEW b \in Conn, peers'[x][y].writer = b
        PROVE  Keeps(x, y, b) \/ (BoundTo(x, y, b)' /\ ProofHolds(x, y, b)')
    <3>1. CASE peers'[x][y] = peers[x][y]
      BY <2>1, <3>1, <1>4 DEF Keeps, Bound, BoundTo
    <3>2. CASE peers'[x][y] # peers[x][y]
      <4>1. /\ x = n /\ y = Other(n, c) /\ b = c
            /\ \/ peers'[x][y].verified = NoKey
               \/ peers[x][y].writer = c /\ peers'[x][y].verified = peers[x][y].verified
        BY <2>1, <3>2, HelloEffect
      <4>2. BoundTo(x, y, b)'
        BY <4>1, <1>1, <1>2, <1>4 DEF BoundTo, At, Used, Ends, Other
      <4>3. peers[x][y].writer = c => ProofHolds(x, y, b)
        BY <4>1 DEF Proven
      <4>4. y \in Node /\ (stage'[b][y] # "closed" => stage[b][y] # "closed")
        BY <1>4
      <4>5. ProofHolds(x, y, b)'
        BY <4>1, <4>3, <4>4, <1>1 DEF ProofHolds
      <4> QED BY <4>2, <4>5
    <3> QED BY <3>1, <3>2
  <2> QED BY <2>1, <1>6, BoundStays
<1> QED BY <1>3, <1>6, <1>7, <1>8, <1>9

----------------------------------------------------------------------------
(* The theorems *)

LEMMA InvInit == Init => Inv
<1> SUFFICES ASSUME Init PROVE Inv
  OBVIOUS
<1>1. Unknown \in Peer /\ Unknown.writer = NoConn
  BY DEF Unknown, Peer
<1>2. TypeOK
  <2>1. peers \in [Node -> [Node -> Peer]]
    BY <1>1 DEF Init
  <2>2. key \in [Node -> Key]
    BY PeerConstants DEF Init, Key
  <2> QED BY <2>1, <2>2 DEF Init, TypeOK
<1>3. wire \in Wires /\ \A c \in Conn, n \in Node : wire[c][n] = <<>>
  BY MsgsNone DEF Init, Wires
<1>4. Tidy
  BY <1>3 DEF Init, Tidy, Used
<1>5. Signed
  BY <1>3, MsgsNone DEF Signed
<1>6. Bound /\ Proven
  BY <1>1, PeerConstants DEF Init, Bound, Proven
<1> QED BY <1>2, <1>3, <1>4, <1>5, <1>6 DEF Inv

LEMMA InvStep == Inv /\ [Next]_vars => Inv'
<1> SUFFICES ASSUME Inv, [Next]_vars PROVE Inv'
  OBVIOUS
<1>1. ASSUME NEW n \in Node, NEW m \in Node, Redial(n, m) \/ BeaconDial(n, m) PROVE Inv'
  BY <1>1, DialStep DEF Redial, BeaconDial
<1>2. ASSUME NEW n \in Node, NEW m \in Node, BeaconRestarted(n, m) \/ Silent(n, m) PROVE Inv'
  BY <1>2, DropStep DEF BeaconRestarted, Silent
<1>3. ASSUME NEW n \in Node, NEW m \in Node, Reap(n, m) PROVE Inv'
  BY <1>3, ReapStep
<1>4. ASSUME NEW n \in Node, NEW c \in Conn, OnHello(n, c) \/ OnNode(n, c) \/ OnAuth(n, c) PROVE Inv'
  BY <1>4, HelloStep, NodeStep, AuthStep
<1>5. ASSUME NEW n \in Node, NEW c \in Conn, Eof(n, c) \/ Fault(n, c) \/ HelloTimeout(n, c) PROVE Inv'
  <2>1. Live(n, c) /\ Finish(n, c) /\ UNCHANGED <<epoch, key, cache>>
    BY <1>5 DEF Eof, Fault, HelloTimeout
  <2>2. faults' \in Nat
    BY <1>5 DEF Eof, Fault, HelloTimeout, Inv, TypeOK
  <2> QED BY <2>1, <2>2, FinishStep
<1>6. ASSUME NEW n \in Node, NEW x \in Node, NEW m \in Node, Gossip(n, x, m) PROVE Inv'
  BY <1>6, GossipStep
<1>7. ASSUME NEW n \in Node, NEW i \in 1..MaxEpoch, Restart(n, i) PROVE Inv'
  BY <1>7, RestartStep
<1>8. CASE UNCHANGED vars
  BY <1>8 DEF vars, Inv, TypeOK, Tidy, Signed, Bound, Proven, Honest, BoundTo, ProofHolds, At, Used, Ends, Other
<1> QED BY <1>1, <1>2, <1>3, <1>4, <1>5, <1>6, <1>7, <1>8 DEF Next

LEMMA InvHolds == Spec => []Inv
BY InvInit, InvStep, PTL DEF Spec

\* Every variable of the links keeps its type, over any dials, messages,
\* errors and restarts.
THEOREM LinksTypes == Spec => []TypeOK
<1>1. Inv => TypeOK
  BY DEF Inv
<1> QED BY <1>1, InvHolds, PTL

\* _peer_trust, _verify_auth, _learn_node: a peer that counts as personal on a
\* link whose other end lives holds a key of the allowlist now.
THEOREM PersonalPeersHoldKeys == Spec => []PersonalHoldsKey
<1>1. Inv => PersonalHoldsKey
  <2> SUFFICES ASSUME Inv, NEW n \in Node, NEW m \in Node, Personal(n, m), Linked(n, m),
                      stage[peers[n][m].writer][m] # "closed"
               PROVE  key[m] \in Allowed
    BY DEF PersonalHoldsKey
  <2>1. PICK c \in Conn : c = peers[n][m].writer
    BY DEF Inv, TypeOK, Peer, Linked
  <2>2. ProofHolds(n, m, c)
    BY <2>1 DEF Inv, Proven
  <2>3. peers[n][m].verified # NoKey
    BY PeerConstants DEF Personal
  <2> QED BY <2>1, <2>2, <2>3 DEF ProofHolds, Personal
<1> QED BY <1>1, InvHolds, PTL
=============================================================================
