-------------------------- MODULE ForeignJobsProofs --------------------------
(***************************************************************************)
(* What holds of ForeignJobs for any executors, dispatches, keys, traffic  *)
(* and bounds: the types; that a result is acted on at most once; that a   *)
(* job the originator has closed stays closed; and that an executor it can *)
(* hear, which computes the job or owes its result, is not banned for      *)
(* silence.                                                                *)
(***************************************************************************)
EXTENDS ForeignJobs, FiniteSetTheorems, WellFoundedInduction, TLAPS

Promise == [Job -> Entry \cup {NoEntry}]

\* What may be written to an executor, what it may write, what it may owe.
ToExecutor(e) == {m \in Message : At(m.job) = e}
ToOrigin(e) == {m \in Message : At(m.job) = e /\ (m.t = "status" => m.says \in Answers)}
Debt(e) == {o \in Owed : At(o.job) = e}

\* What is on the wires of an executor, or owed by it, is of a job put to it;
\* a status carries one of the three answers.
Addressed ==
  \A e \in Executor :
    toE[e] \in Seq(ToExecutor(e)) /\ toO[e] \in Seq(ToOrigin(e)) /\ outbox[e] \in Seq(Debt(e))

\* A dispatch waits for an answer of the one executor it asked.
Asking == \A d \in Dispatch : (route[d].asked = Nobody) <=> (route[d].answer = "none")

Sane == TypeOK /\ Addressed /\ Asking

----------------------------------------------------------------------------
(* Types *)

\* Writing a message that may be written leaves both wires what they are.
LEMMA WriteType ==
  ASSUME Sane, NEW e \in Executor, NEW m
  PROVE  /\ m \in ToExecutor(e) => /\ Write(toE, e, m) \in [Executor -> Seq(Message)]
                                   /\ \A f \in Executor : Write(toE, e, m)[f] \in Seq(ToExecutor(f))
         /\ m \in ToOrigin(e) => /\ Write(toO, e, m) \in [Executor -> Seq(Message)]
                                 /\ \A f \in Executor : Write(toO, e, m)[f] \in Seq(ToOrigin(f))
<1>1. ASSUME m \in ToExecutor(e)
      PROVE  Append(toE[e], m) \in Seq(Message) /\ Append(toE[e], m) \in Seq(ToExecutor(e))
  BY <1>1 DEF Sane, TypeOK, Addressed, ToExecutor
<1>2. ASSUME m \in ToOrigin(e)
      PROVE  Append(toO[e], m) \in Seq(Message) /\ Append(toO[e], m) \in Seq(ToOrigin(e))
  BY <1>2 DEF Sane, TypeOK, Addressed, ToOrigin
<1>3. toE \in [Executor -> Seq(Message)] /\ toO \in [Executor -> Seq(Message)]
  BY DEF Sane, TypeOK
<1> QED BY <1>1, <1>2, <1>3 DEF Write, Sane, Addressed

\* So does reading one, and what is read is one that may be written.
LEMMA ReadType ==
  ASSUME Sane, NEW e \in Executor
  PROVE  /\ toE[e] # <<>> => /\ Head(toE[e]) \in ToExecutor(e)
                             /\ [toE EXCEPT ![e] = Tail(@)] \in [Executor -> Seq(Message)]
                             /\ Tail(toE[e]) \in Seq(ToExecutor(e))
         /\ toO[e] # <<>> => /\ Head(toO[e]) \in ToOrigin(e)
                             /\ [toO EXCEPT ![e] = Tail(@)] \in [Executor -> Seq(Message)]
                             /\ Tail(toO[e]) \in Seq(ToOrigin(e))
<1>1. ASSUME NEW s, NEW S, s \in Seq(S), s # <<>> PROVE Head(s) \in S /\ Tail(s) \in Seq(S)
  BY <1>1
<1>2. toE[e] \in Seq(ToExecutor(e)) /\ toO[e] \in Seq(ToOrigin(e))
  BY DEF Sane, Addressed
<1>3. toE \in [Executor -> Seq(Message)] /\ toO \in [Executor -> Seq(Message)]
  BY DEF Sane, TypeOK
<1>4. toE[e] # <<>> => Tail(toE[e]) \in Seq(Message)
  BY <1>3
<1>5. toO[e] # <<>> => Tail(toO[e]) \in Seq(Message)
  BY <1>3
<1> QED BY <1>1, <1>2, <1>3, <1>4, <1>5

\* The messages the two sides write.
LEMMA MessageTypes ==
  ASSUME NEW j \in Job
  PROVE  /\ At(j) \in Executor
         /\ \A t \in {"dispatch", "ack", "reminder"} : Msg(t, j, "") \in ToExecutor(At(j))
         /\ \A a \in Answers : Msg("status", j, a) \in ToOrigin(At(j))
         /\ Msg("progress", j, "") \in ToOrigin(At(j))
         /\ \A ok \in BOOLEAN : Result(j, ok) \in ToOrigin(At(j))
BY DEF Msg, Result, Message, ToExecutor, ToOrigin, Answers, Job, At

\* A ban edits the two lists and removes promises.
LEMMA BanType ==
  ASSUME Sane, NEW e \in Executor, NEW aw, NEW aws \in Promise, BanExecutor(e, aw, aws)
  PROVE  /\ awaiting' \in Promise
         /\ \A j \in Job : awaiting'[j] \in {aws[j], NoEntry}
         /\ trusted' \subseteq Executor /\ banned' \subseteq Executor
BY DEF Sane, TypeOK, BanExecutor, Promise

\* A promise popped leaves promises.
LEMMA PopType ==
  ASSUME Sane, NEW j \in Job
  PROVE  Pop(j) \in Promise /\ Pop(j)[j] = NoEntry /\ \A i \in Job \ {j} : Pop(j)[i] = awaiting[i]
BY DEF Sane, TypeOK, Pop, Promise

In(s) == {s[i] : i \in DOMAIN s}

\* An entry of an outbox taken out leaves an outbox, with no other entries.
LEMMA DroppedType ==
  ASSUME NEW S, NEW box \in Seq(S), NEW i \in DOMAIN box
  PROVE  Dropped(box, i) \in Seq(S) /\ In(Dropped(box, i)) \subseteq In(box)
<1>1. ASSUME NEW T, box \in Seq(T)
      PROVE  Dropped(box, i) \in Seq(T)
  <2>1. i \in 1..Len(box) /\ Len(box) \in Nat
    OBVIOUS
  <2>2. SubSeq(box, 1, i - 1) \in Seq(T) /\ SubSeq(box, i + 1, Len(box)) \in Seq(T)
    BY <1>1, <2>1
  <2> QED BY <2>2 DEF Dropped
<1>2. box \in Seq(In(box))
  BY DEF In
<1>3. Dropped(box, i) \in Seq(In(box))
  BY <1>1, <1>2
<1>4. ASSUME NEW T, NEW s \in Seq(T) PROVE In(s) \subseteq T
  BY <1>4 DEF In
<1> QED BY <1>1, <1>3, <1>4

\* A set of naturals that is not empty has a least member.
LEMMA LeastMember ==
  ASSUME NEW T, T \subseteq Nat, T # {}
  PROVE  \E x \in T : \A y \in T : x <= y
<1> DEFINE Below == {0..x : x \in T}
<1>1. \A x \in T : IsFiniteSet(0..x) /\ 0..x \subseteq Nat
  BY FS_Interval
<1>2. Below \subseteq FiniteSubsetsOf(Nat) /\ Below # {}
  BY <1>1 DEF FiniteSubsetsOf
<1> HIDE DEF Below
<1>3. PICK b \in Below : \A c \in Below : ~ (<<c, b>> \in StrictSubsetOrdering(Nat))
  BY <1>2, FS_StrictSubsetOrderingWellFounded, WFMin
<1>4. PICK x \in T : b = 0..x
  BY <1>3 DEF Below
<1>5. ASSUME NEW y \in T, y < x PROVE FALSE
  <2>1. x \in Nat /\ y \in Nat /\ x \in 0..x /\ x \notin 0..y
    BY <1>5
  <2>2. 0..y \subseteq 0..x /\ 0..y # 0..x
    BY <1>5, <2>1
  <2>3. <<0..y, b>> \in StrictSubsetOrdering(Nat)
    BY <1>1, <1>4, <2>2 DEF StrictSubsetOrdering
  <2> QED BY <1>3, <2>3 DEF Below
<1> QED BY <1>5

\* What becomes of the entries of an outbox.
LEMMA OutboxTypes ==
  ASSUME NEW e, NEW box \in Seq(Debt(e))
  PROVE  /\ Buried(box) \in Seq(Debt(e)) /\ In(Buried(box)) \subseteq In(box)
         /\ \A j : Without(box, j) \in Seq(Debt(e)) /\ In(Without(box, j)) \subseteq In(box)
         /\ \A j : Revived(box, j) \in Seq(Debt(e))
         /\ \A i \in DOMAIN box : [box EXCEPT ![i].gaveUp = TRUE] \in Seq(Debt(e))
<1>1. ASSUME Cardinality(Given(box)) > MaxTombs
      PROVE  (CHOOSE i \in Given(box) : \A k \in Given(box) : i <= k) \in DOMAIN box
  <2>1. Given(box) # {}
    <3>1. SUFFICES ASSUME Given(box) = {} PROVE FALSE
      OBVIOUS
    <3>2. Cardinality(Given(box)) = 0
      BY <3>1, FS_EmptySet
    <3>3. MaxTombs \in Nat
      BY ForeignConstants
    <3> QED BY <1>1, <3>2, <3>3
  <2>2. Given(box) \subseteq DOMAIN box /\ Given(box) \subseteq Nat
    BY DEF Given
  <2>3. \E i \in Given(box) : \A k \in Given(box) : i <= k
    BY <2>1, <2>2, LeastMember
  <2> QED BY <2>2, <2>3
<1>2. Buried(box) \in Seq(Debt(e)) /\ In(Buried(box)) \subseteq In(box)
  <2>1. CASE Cardinality(Given(box)) <= MaxTombs
    BY <2>1 DEF Buried
  <2>2. CASE ~(Cardinality(Given(box)) <= MaxTombs)
    <3>1. IsFiniteSet(Given(box))
      <4>1. DOMAIN box = 1..Len(box) /\ Len(box) \in Nat
        OBVIOUS
      <4>2. IsFiniteSet(1..Len(box))
        BY <4>1, FS_Interval
      <4> QED BY <4>1, <4>2, FS_Subset DEF Given
    <3>2. Cardinality(Given(box)) \in Nat
      BY <3>1, FS_CardinalityType
    <3>3. (CHOOSE i \in Given(box) : \A k \in Given(box) : i <= k) \in DOMAIN box
      BY <2>2, <3>2, <1>1, ForeignConstants
    <3> QED BY <2>2, <3>3, DroppedType DEF Buried
  <2> QED BY <2>1, <2>2
<1>3. ASSUME NEW j
      PROVE  Without(box, j) \in Seq(Debt(e)) /\ In(Without(box, j)) \subseteq In(box)
  <2>1. CASE Of(box, j) = {}
    BY <2>1 DEF Without
  <2>2. CASE Of(box, j) # {}
    <3>1. (CHOOSE i \in Of(box, j) : TRUE) \in DOMAIN box
      BY <2>2 DEF Of
    <3> QED BY <2>2, <3>1, DroppedType DEF Without
  <2> QED BY <2>1, <2>2
<1>4. ASSUME NEW o \in Debt(e), NEW b \in BOOLEAN
      PROVE  [o EXCEPT !.gaveUp = b] \in Debt(e)
  BY DEF Debt, Owed
<1>5. ASSUME NEW j PROVE Revived(box, j) \in Seq(Debt(e))
  <2>1. ASSUME NEW i \in DOMAIN box PROVE box[i] \in Debt(e)
    OBVIOUS
  <2>2. DOMAIN box = 1..Len(box) /\ Len(box) \in Nat
    OBVIOUS
  <2>3. ASSUME NEW i \in 1..Len(box)
        PROVE  (IF box[i].job = j THEN [box[i] EXCEPT !.gaveUp = FALSE] ELSE box[i]) \in Debt(e)
    BY <2>1, <2>2, <1>4
  <2>4. Revived(box, j) \in [1..Len(box) -> Debt(e)]
    BY <2>2, <2>3 DEF Revived
  <2> QED BY <2>2, <2>4
<1>6. ASSUME NEW i \in DOMAIN box
      PROVE  [box EXCEPT ![i].gaveUp = TRUE] \in Seq(Debt(e))
  <2>1. [box[i] EXCEPT !.gaveUp = TRUE] \in Debt(e)
    <3>1. box[i] \in Debt(e)
      OBVIOUS
    <3> QED BY <1>4, <3>1
  <2>2. DOMAIN box = 1..Len(box) /\ Len(box) \in Nat
    OBVIOUS
  <2>3. [box EXCEPT ![i].gaveUp = TRUE] \in [1..Len(box) -> Debt(e)]
    BY <2>1, <2>2
  <2> QED BY <2>2, <2>3
<1> QED BY <1>2, <1>3, <1>5, <1>6

LEMMA InitSane ==
  Init => Sane
<1> SUFFICES ASSUME Init PROVE Sane
  OBVIOUS
<1>1. TypeOK
  BY DEF Init, TypeOK, Route, Link
<1>2. Addressed
  BY DEF Init, Addressed
<1> QED BY <1>1, <1>2 DEF Init, Sane, Asking

\* The steps of a dispatch leave a route, and keep asked and answer together.
LEMMA RouteTypes ==
  ASSUME Sane, NEW d \in Dispatch
  PROVE  /\ \A S \in SUBSET Executor :
              route' = [route EXCEPT ![d].outcome = "asking", ![d].left = S]
                => route' \in [Dispatch -> Route] /\ Asking'
         /\ \A how \in {"asking", "spawned"} :
              route' = Ended(d, how) => route' \in [Dispatch -> Route] /\ Asking'
         /\ \A e \in Executor :
              route' = [route EXCEPT ![d].asked = e, ![d].answer = "waiting", ![d].left = @ \ {e}]
                => route' \in [Dispatch -> Route] /\ Asking'
         /\ \A e \in Executor :
              route' = [route EXCEPT ![d].left = @ \ {e}]
                => route' \in [Dispatch -> Route] /\ Asking'
         /\ route' = [route EXCEPT ![d].outcome = "failed"]
                => route' \in [Dispatch -> Route] /\ Asking'
         /\ \A a \in Answers :
              route[d].answer = "waiting" /\ route' = [route EXCEPT ![d].answer = a]
                => route' \in [Dispatch -> Route] /\ Asking'
<1>1. \A r \in Route, S \in SUBSET Executor : [r EXCEPT !.outcome = "asking", !.left = S] \in Route
  BY DEF Route
<1>2. \A r \in Route, how \in {"asking", "spawned"} :
        [r EXCEPT !.asked = Nobody, !.answer = "none", !.outcome = how] \in Route
  BY DEF Route
<1>3. \A r \in Route, e \in Executor :
        [r EXCEPT !.asked = e, !.answer = "waiting", !.left = @ \ {e}] \in Route
  BY DEF Route
<1>4. \A r \in Route, e \in Executor : [r EXCEPT !.left = @ \ {e}] \in Route
  BY DEF Route
<1>5. \A r \in Route : [r EXCEPT !.outcome = "failed"] \in Route
  BY DEF Route
<1>6. \A r \in Route, a \in Answers : [r EXCEPT !.answer = a] \in Route
  BY DEF Route
<1>7. route \in [Dispatch -> Route] /\ Asking
  BY DEF Sane, TypeOK
<1>8. Nobody \notin Executor
  BY ForeignConstants
<1>9. ASSUME NEW S \in SUBSET Executor,
             route' = [route EXCEPT ![d].outcome = "asking", ![d].left = S]
      PROVE  route' \in [Dispatch -> Route] /\ Asking'
  <2>1. route' \in [Dispatch -> Route]
    BY <1>1, <1>7, <1>9
  <2> QED BY <1>7, <1>9, <2>1 DEF Asking, Route
<1>10. ASSUME NEW how \in {"asking", "spawned"}, route' = Ended(d, how)
       PROVE  route' \in [Dispatch -> Route] /\ Asking'
  <2>1. route' \in [Dispatch -> Route]
    BY <1>2, <1>7, <1>10 DEF Ended
  <2> QED BY <1>7, <1>10, <2>1 DEF Asking, Route, Ended
<1>11. ASSUME NEW e \in Executor,
              route' = [route EXCEPT ![d].asked = e, ![d].answer = "waiting", ![d].left = @ \ {e}]
       PROVE  route' \in [Dispatch -> Route] /\ Asking'
  <2>1. route' \in [Dispatch -> Route]
    BY <1>3, <1>7, <1>11
  <2> QED BY <1>7, <1>8, <1>11, <2>1 DEF Asking, Route
<1>12. ASSUME NEW e \in Executor, route' = [route EXCEPT ![d].left = @ \ {e}]
       PROVE  route' \in [Dispatch -> Route] /\ Asking'
  <2>1. route' \in [Dispatch -> Route]
    BY <1>4, <1>7, <1>12
  <2> QED BY <1>7, <1>12, <2>1 DEF Asking, Route
<1>13. ASSUME route' = [route EXCEPT ![d].outcome = "failed"]
       PROVE  route' \in [Dispatch -> Route] /\ Asking'
  <2>1. route' \in [Dispatch -> Route]
    BY <1>5, <1>7, <1>13
  <2> QED BY <1>7, <1>13, <2>1 DEF Asking, Route
<1>14. ASSUME NEW a \in Answers, route[d].answer = "waiting", route' = [route EXCEPT ![d].answer = a]
       PROVE  route' \in [Dispatch -> Route] /\ Asking'
  <2>1. route' \in [Dispatch -> Route]
    BY <1>6, <1>7, <1>14
  <2> QED BY <1>7, <1>14, <2>1 DEF Asking, Route, Answers
<1> QED BY <1>9, <1>10, <1>11, <1>12, <1>13, <1>14

LEMMA DispatchingSane ==
  ASSUME Sane, NEW d \in Dispatch,
         \/ BeginDispatch(d) \/ NoneLeft(d) \/ Resume(d) \/ AckTimeout(d)
         \/ \E e \in Executor : Ask(d, e)
  PROVE  Sane'
<1> USE DEF Sane
<1>1. CASE BeginDispatch(d)
  <2>1. route' \in [Dispatch -> Route] /\ Asking'
    <3>1. {e \in Executor : Up(e) /\ Class(e) # "banned"} \in SUBSET Executor
      OBVIOUS
    <3> QED BY <1>1, <3>1, RouteTypes DEF BeginDispatch
  <2> QED BY <1>1, <2>1 DEF BeginDispatch, TypeOK, Addressed, exec
<1>2. CASE NoneLeft(d)
  <2>1. route' \in [Dispatch -> Route] /\ Asking'
    BY <1>2, RouteTypes DEF NoneLeft
  <2> QED BY <1>2, <2>1 DEF NoneLeft, TypeOK, Addressed, exec
<1>3. ASSUME Resume(d) \/ AckTimeout(d) PROVE Sane'
  <2>1. route[d] \in Route /\ (route[d].asked = Nobody <=> route[d].answer = "none")
    BY DEF TypeOK, Asking
  <2>2. route[d].asked \in Executor
    BY <1>3, <2>1 DEF Resume, AckTimeout, Answers, Route
  <2>3. <<d, route[d].asked>> \in Job
    BY <2>2 DEF Job
  <2>5. route' \in [Dispatch -> Route] /\ Asking'
    BY <1>3, RouteTypes DEF Resume, AckTimeout
  <2>6. ASSUME NEW j \in Job, Forget(j)
        PROVE  awaiting' \in Promise /\ acted' \subseteq Job /\ settled' \subseteq Job
    BY <2>6 DEF Forget, TypeOK, Promise
  <2>7. ASSUME NEW j \in Job, NEW a, MaybeArm(j, a) PROVE awaiting' \in Promise
    <3>1. ASSUME awaiting[j] # NoEntry
          PROVE  [awaiting[j] EXCEPT !.clock = "armed", !.pinned = link[At(j)].proved] \in Entry
      BY <3>1, MessageTypes DEF TypeOK, Entry, Link
    <3> QED BY <2>7, <3>1 DEF MaybeArm, TypeOK, Promise
  <2>8. awaiting' \in Promise /\ acted' \subseteq Job /\ settled' \subseteq Job
    BY <1>3, <2>3, <2>6, <2>7 DEF Resume, AckTimeout, TypeOK
  <2> QED BY <1>3, <2>5, <2>8 DEF Resume, AckTimeout, TypeOK, Addressed, exec, Promise
<1>4. ASSUME NEW e \in Executor, Ask(d, e) PROVE Sane'
  <2>1. route' \in [Dispatch -> Route] /\ Asking'
    BY <1>4, RouteTypes DEF Ask
  <2>2. awaiting' \in Promise
    <3>1. Fresh \in Entry
      BY DEF Fresh, Entry
    <3> QED BY ZenonT(40), <1>4, <3>1 DEF Ask, TypeOK, Promise
  <2>3. <<d, e>> \in Job /\ At(<<d, e>>) = e
    BY DEF Job, At
  <2>4. Msg("dispatch", <<d, e>>, "") \in ToExecutor(e)
    BY <2>3, MessageTypes
  <2>5. toE' \in [Executor -> Seq(Message)] /\ \A f \in Executor : toE'[f] \in Seq(ToExecutor(f))
    <3>1. toE' \in {toE, Write(toE, e, Msg("dispatch", <<d, e>>, ""))}
      BY <1>4 DEF Ask
    <3>2. Write(toE, e, Msg("dispatch", <<d, e>>, "")) \in [Executor -> Seq(Message)]
          /\ \A f \in Executor :
               Write(toE, e, Msg("dispatch", <<d, e>>, ""))[f] \in Seq(ToExecutor(f))
      BY <2>4, WriteType
    <3> QED BY <3>1, <3>2 DEF TypeOK, Addressed
  <2> QED BY <1>4, <2>1, <2>2, <2>5 DEF Ask, TypeOK, Addressed, exec, Promise
<1> QED BY <1>1, <1>2, <1>3, <1>4

\* The edits of one promise, or of those of some executors.
LEMMA PromiseTypes ==
  ASSUME Sane
  PROVE  /\ \A j \in Job : awaiting[j] # NoEntry =>
              /\ [awaiting EXCEPT ![j].clock = "disarmed"] \in Promise
              /\ \A b \in BOOLEAN : [awaiting EXCEPT ![j].reminded = TRUE, ![j].asked = b] \in Promise
              /\ [awaiting EXCEPT ![j].deciding = TRUE] \in Promise
              /\ [awaiting EXCEPT ![j] = Extended(@)] \in Promise
         /\ \A S : Unasked(S) \in Promise
<1>1. awaiting \in [Job -> Entry \cup {NoEntry}]
  BY DEF Sane, TypeOK
<1>2. \A aw \in Entry, b \in BOOLEAN :
        /\ [aw EXCEPT !.clock = "disarmed"] \in Entry
        /\ [aw EXCEPT !.reminded = TRUE, !.asked = b] \in Entry
        /\ [aw EXCEPT !.deciding = TRUE] \in Entry
        /\ [aw EXCEPT !.asked = FALSE] \in Entry
        /\ Extended(aw) \in Entry
  <2>1. ASSUME NEW aw \in Entry, NEW b \in BOOLEAN
        PROVE  [aw EXCEPT !.clock = "disarmed"] \in Entry
    BY DEF Entry
  <2>2. ASSUME NEW aw \in Entry, NEW b \in BOOLEAN
        PROVE  [aw EXCEPT !.reminded = TRUE, !.asked = b] \in Entry
    BY DEF Entry
  <2>3. ASSUME NEW aw \in Entry
        PROVE  [aw EXCEPT !.deciding = TRUE] \in Entry /\ [aw EXCEPT !.asked = FALSE] \in Entry
    BY DEF Entry
  <2>4. ASSUME NEW aw \in Entry PROVE Extended(aw) \in Entry
    <3>1. ASSUME NEW n \in Nat, NEW b \in BOOLEAN
          PROVE  [aw EXCEPT !.clock = "armed", !.deciding = b, !.reminded = b,
                            !.asked = b, !.extensions = n] \in Entry
      BY DEF Entry
    <3>2. aw.extensions + 1 \in Nat /\ FALSE \in BOOLEAN
      BY DEF Entry
    <3>3. [aw EXCEPT !.clock = "armed", !.deciding = FALSE, !.reminded = FALSE,
                     !.asked = FALSE, !.extensions = aw.extensions + 1] \in Entry
      BY <3>1, <3>2
    <3> QED BY <3>3 DEF Extended
  <2> QED BY <2>1, <2>2, <2>3, <2>4
<1>3. ASSUME NEW S PROVE Unasked(S) \in Promise
  BY <1>1, <1>2 DEF Unasked, Promise
<1>4. ASSUME NEW j \in Job, awaiting[j] # NoEntry
      PROVE  /\ [awaiting EXCEPT ![j].clock = "disarmed"] \in Promise
             /\ \A b \in BOOLEAN : [awaiting EXCEPT ![j].reminded = TRUE, ![j].asked = b] \in Promise
             /\ [awaiting EXCEPT ![j].deciding = TRUE] \in Promise
             /\ [awaiting EXCEPT ![j] = Extended(@)] \in Promise
  <2>1. awaiting[j] \in Entry
    BY <1>1, <1>4
  <2> QED BY <1>1, <1>2, <2>1 DEF Promise
<1> QED BY <1>3, <1>4

LEMMA ReadingSane ==
  ASSUME Sane, NEW e \in Executor, OnStatus(e) \/ OnResult(e) \/ OnProgress(e)
  PROVE  Sane'
<1> USE DEF Sane
<1> DEFINE m == Head(toO[e])
<1>1. m \in ToOrigin(e) /\ m.job \in Job /\ At(m.job) = e /\ toO' = [toO EXCEPT ![e] = Tail(@)]
      /\ toO' \in [Executor -> Seq(Message)] /\ \A f \in Executor : toO'[f] \in Seq(ToOrigin(f))
  <2>1. toO[e] # <<>> /\ toO' = [toO EXCEPT ![e] = Tail(@)]
    BY DEF OnStatus, OnResult, OnProgress, OriginReads
  <2>2. m \in ToOrigin(e) /\ [toO EXCEPT ![e] = Tail(@)] \in [Executor -> Seq(Message)]
        /\ Tail(toO[e]) \in Seq(ToOrigin(e))
    BY <2>1, ReadType
  <2>3. m.job \in Job /\ At(m.job) = e
    BY <2>2 DEF ToOrigin, Message
  <2> QED BY <2>1, <2>2, <2>3 DEF TypeOK, Addressed
<1> HIDE DEF m
<1>2. CASE OnStatus(e)
  <2>1. m.job[1] \in Dispatch
    BY <1>1 DEF Job
  <2>2. m.says \in Answers
    BY <1>1, <1>2 DEF OnStatus, OriginReads, ToOrigin, m
  <2>3. route' \in [Dispatch -> Route] /\ Asking'
    <3>1. route' = route
          \/ (route[m.job[1]].answer = "waiting" /\ route' = [route EXCEPT ![m.job[1]].answer = m.says])
      BY <1>2 DEF OnStatus, m
    <3>2. route' = route => Asking'
      BY DEF Asking
    <3> QED BY <2>1, <2>2, <3>1, <3>2, RouteTypes DEF TypeOK
  <2> QED BY <1>1, <1>2, <2>3 DEF OnStatus, TypeOK, Addressed, exec
<1>3. CASE OnProgress(e)
  <2>1. awaiting' \in Promise /\ pleas' \subseteq Job
    <3>1. \/ awaiting' = awaiting /\ pleas' = pleas
          \/ /\ awaiting[m.job] # NoEntry /\ pleas' = pleas \cup {m.job}
             /\ awaiting' = [awaiting EXCEPT ![m.job].deciding = TRUE]
      BY <1>3 DEF OnProgress, Watched, m
    <3>2. awaiting[m.job] # NoEntry => [awaiting EXCEPT ![m.job].deciding = TRUE] \in Promise
      BY <1>1, PromiseTypes
    <3>3. awaiting \in Promise /\ pleas \subseteq Job
      BY DEF TypeOK, Promise
    <3> QED BY <1>1, <3>1, <3>2, <3>3
  <2> QED BY <1>1, <1>3, <2>1 DEF OnProgress, TypeOK, Addressed, Asking, exec, Promise
<1>4. CASE OnResult(e)
  <2>1. toE' \in [Executor -> Seq(Message)] /\ \A f \in Executor : toE'[f] \in Seq(ToExecutor(f))
    <3>1. toE' \in {toE, Write(toE, e, Msg("ack", m.job, ""))}
      BY <1>4 DEF OnResult, m
    <3>2. Msg("ack", m.job, "") \in ToExecutor(e)
      BY <1>1, MessageTypes
    <3>3. Write(toE, e, Msg("ack", m.job, "")) \in [Executor -> Seq(Message)]
          /\ \A f \in Executor : Write(toE, e, Msg("ack", m.job, ""))[f] \in Seq(ToExecutor(f))
      BY <3>2, WriteType
    <3> QED BY <3>1, <3>3 DEF TypeOK, Addressed
  <2>2. CASE awaiting[m.job] = NoEntry
    <3>1. UNCHANGED <<awaiting, pleas, acted, trusted, banned, handled, settled>>
      BY <1>4, <2>2 DEF OnResult, m
    <3> QED BY <1>1, <1>4, <2>1, <3>1 DEF OnResult, TypeOK, Addressed, Asking, exec
  <2>3. CASE awaiting[m.job] # NoEntry
    <3>1. /\ acted' = acted \cup {m.job}
          /\ handled' = [handled EXCEPT ![m.job] = IF m.says = "ok" THEN @ + 1 ELSE @]
          /\ \/ BanExecutor(e, awaiting[m.job], Pop(m.job))
             \/ awaiting' = Pop(m.job) /\ UNCHANGED <<trusted, banned>>
          /\ Settles(m.job)
      BY <1>4, <2>3 DEF OnResult, m
    <3>2. awaiting' \in Promise /\ trusted' \subseteq Executor /\ banned' \subseteq Executor
      <4>1. Pop(m.job) \in Promise
        BY <1>1, PopType
      <4>2. CASE BanExecutor(e, awaiting[m.job], Pop(m.job))
        BY <4>1, <4>2, BanType
      <4>3. CASE awaiting' = Pop(m.job) /\ UNCHANGED <<trusted, banned>>
        BY <4>1, <4>3 DEF TypeOK
      <4> QED BY <3>1, <4>2, <4>3
    <3>3. settled' \subseteq Job /\ acted' \subseteq Job /\ handled' \in [Job -> Nat]
      BY <1>1, <3>1 DEF Settles, TypeOK
    <3> QED BY <1>1, <1>4, <2>1, <3>2, <3>3 DEF OnResult, TypeOK, Addressed, Asking, exec, Promise
  <2> QED BY <2>2, <2>3
<1> QED BY <1>2, <1>3, <1>4

LEMMA JudgingSane ==
  ASSUME Sane, NEW j \in Job,
         Disarm(j) \/ Remind(j) \/ BanSilent(j) \/ Decide(j) \/ ReapAwaiting(j) \/ ReapActed(j)
  PROVE  Sane'
<1> USE DEF Sane
<1>1. CASE Disarm(j)
  <2>1. awaiting' \in Promise
    BY <1>1, PromiseTypes DEF Disarm, Watched
  <2> QED BY <1>1, <2>1 DEF Disarm, TypeOK, Addressed, Asking, exec, Promise
<1>2. CASE Remind(j)
  <2>1. awaiting' \in Promise
    BY <1>2, PromiseTypes DEF Remind, Watched, Up
  <2>2. toE' \in [Executor -> Seq(Message)] /\ \A f \in Executor : toE'[f] \in Seq(ToExecutor(f))
    <3>1. Msg("reminder", j, "") \in ToExecutor(At(j)) /\ At(j) \in Executor
      BY MessageTypes
    <3> QED BY <1>2, <3>1, WriteType DEF Remind
  <2> QED BY <1>2, <2>1, <2>2 DEF Remind, TypeOK, Addressed, Asking, exec, Promise
<1>3. ASSUME BanExecutor(At(j), awaiting[j], Pop(j)), Settles(j)
      PROVE  awaiting' \in Promise /\ trusted' \subseteq Executor /\ banned' \subseteq Executor
             /\ settled' \subseteq Job
  <2>1. Pop(j) \in Promise /\ At(j) \in Executor
    BY PopType, MessageTypes
  <2>2. awaiting' \in Promise /\ trusted' \subseteq Executor /\ banned' \subseteq Executor
    BY <1>3, <2>1, BanType
  <2> QED BY <1>3, <2>2 DEF Settles, TypeOK
<1>4. CASE BanSilent(j)
  <2>1. awaiting' \in Promise /\ trusted' \subseteq Executor /\ banned' \subseteq Executor
        /\ settled' \subseteq Job
    BY <1>3, <1>4 DEF BanSilent
  <2> QED BY <1>4, <2>1 DEF BanSilent, TypeOK, Addressed, Asking, exec, Promise
<1>5. CASE Decide(j)
  <2>1. awaiting' \in Promise /\ trusted' \subseteq Executor /\ banned' \subseteq Executor
        /\ settled' \subseteq Job
    <3>1. CASE UNCHANGED <<awaiting, trusted, banned, settled>>
      BY <3>1 DEF TypeOK, Promise
    <3>2. CASE /\ awaiting[j] # NoEntry /\ awaiting' = [awaiting EXCEPT ![j] = Extended(@)]
               /\ UNCHANGED <<trusted, banned, settled>>
      BY <3>2, PromiseTypes DEF TypeOK
    <3>3. CASE BanExecutor(At(j), awaiting[j], Pop(j)) /\ Settles(j)
      BY <1>3, <3>3
    <3> QED BY <1>5, <3>1, <3>2, <3>3 DEF Decide
  <2> QED BY <1>5, <2>1 DEF Decide, TypeOK, Addressed, Asking, exec, Promise
<1>6. CASE ReapAwaiting(j)
  <2>1. awaiting' \in Promise
    BY <1>6, PopType DEF ReapAwaiting
  <2> QED BY <1>6, <2>1 DEF ReapAwaiting, TypeOK, Addressed, Asking, exec, Promise
<1>7. CASE ReapActed(j)
  BY <1>7 DEF ReapActed, TypeOK, Addressed, Asking, exec
<1> QED BY <1>1, <1>2, <1>4, <1>5, <1>6, <1>7

LEMMA OperatorSane ==
  ASSUME Sane, NEW e \in Executor, Operator(e)
  PROVE  Sane'
BY DEF Sane, Operator, TypeOK, Addressed, Asking, exec

\* Rewriting the outbox of one executor.
LEMMA OutboxStep ==
  ASSUME Sane, NEW e \in Executor, NEW box \in Seq(Debt(e)), outbox' = [outbox EXCEPT ![e] = box]
  PROVE  /\ outbox' \in [Executor -> Seq(Owed)]
         /\ \A f \in Executor : outbox'[f] \in Seq(Debt(f))
<1>1. box \in Seq(Owed)
  BY DEF Debt
<1> QED BY <1>1 DEF Sane, TypeOK, Addressed

\* The key of a job is one of those the executors keep.
LEMMA KeyType ==
  ASSUME NEW j \in Job
  PROVE  At(j) \in Executor /\ JobKey(j) \in Key
BY ForeignConstants DEF Job, At, JobKey

LEMMA ServingSane ==
  ASSUME Sane, NEW e \in Executor, TakeJob(e) \/ OnAck(e) \/ OnReminder(e)
  PROVE  Sane'
<1> USE DEF Sane
<1> DEFINE j == Head(toE[e]).job
<1>1. /\ j \in Job /\ At(j) = e
      /\ toE' \in [Executor -> Seq(Message)] /\ \A f \in Executor : toE'[f] \in Seq(ToExecutor(f))
  <2>1. toE[e] # <<>> /\ toE' = [toE EXCEPT ![e] = Tail(@)]
    BY DEF TakeJob, OnAck, OnReminder, ExecReads
  <2>2. Head(toE[e]) \in ToExecutor(e) /\ [toE EXCEPT ![e] = Tail(@)] \in [Executor -> Seq(Message)]
        /\ Tail(toE[e]) \in Seq(ToExecutor(e))
    BY <2>1, ReadType
  <2>3. j \in Job /\ At(j) = e
    BY <2>2 DEF ToExecutor, Message
  <2> QED BY <2>1, <2>2, <2>3 DEF TypeOK, Addressed
<1> HIDE DEF j
<1>2. ASSUME NEW m \in ToOrigin(e)
      PROVE  /\ Write(toO, e, m) \in [Executor -> Seq(Message)]
             /\ \A f \in Executor : Write(toO, e, m)[f] \in Seq(ToOrigin(f))
  BY WriteType
<1>3. CASE TakeJob(e)
  <2>1. PICK a \in Answers : toO' = Write(toO, e, Msg("status", j, a))
    BY <1>3 DEF TakeJob, Answers, j
  <2>2. Msg("status", j, a) \in ToOrigin(e)
    BY <1>1, MessageTypes
  <2>3. running' \subseteq Job /\ agents' \in [Executor -> [Key -> Job \cup {Idle, Host}]]
    <3>1. \/ UNCHANGED <<running, agents>>
          \/ OnHost(e, JobKey(j)) /\ UNCHANGED running
          \/ RunConfined(j)
      BY <1>3 DEF TakeJob, j
    <3>2. At(j) = e /\ JobKey(j) \in Key
      BY <1>1, KeyType
    <3>3. running \subseteq Job /\ agents \in [Executor -> [Key -> Job \cup {Idle, Host}]]
      BY DEF TypeOK
    <3>4. ASSUME NEW k \in Key, NEW a2 \in Job \cup {Idle, Host}
          PROVE  [agents EXCEPT ![e][k] = a2] \in [Executor -> [Key -> Job \cup {Idle, Host}]]
      BY <3>3
    <3>5. CASE OnHost(e, JobKey(j)) /\ UNCHANGED running
      BY <3>2, <3>3, <3>4, <3>5 DEF OnHost
    <3>6. CASE RunConfined(j)
      BY <1>1, <3>2, <3>3, <3>4, <3>6 DEF RunConfined, Sandboxed
    <3> QED BY <3>1, <3>3, <3>5, <3>6
  <2> QED BY <1>1, <1>2, <1>3, <2>1, <2>2, <2>3 DEF TakeJob, TypeOK, Addressed, Asking, origin
<1>4. CASE OnAck(e)
  <2>1. outbox' = [outbox EXCEPT ![e] = Without(outbox[e], j)]
    BY <1>4 DEF OnAck, j
  <2>2. outbox' \in [Executor -> Seq(Owed)] /\ \A f \in Executor : outbox'[f] \in Seq(Debt(f))
    BY <2>1, OutboxTypes, OutboxStep DEF Addressed
  <2> QED BY <1>1, <1>4, <2>2 DEF OnAck, TypeOK, Addressed, Asking, origin
<1>5. CASE OnReminder(e)
  <2>1. outbox' = [outbox EXCEPT ![e] = Revived(outbox[e], j)]
    BY <1>5 DEF OnReminder, j
  <2>2. outbox' \in [Executor -> Seq(Owed)] /\ \A f \in Executor : outbox'[f] \in Seq(Debt(f))
    BY <2>1, OutboxTypes, OutboxStep DEF Addressed
  <2>3. ASSUME NEW m \in AnswerOf(e, j) PROVE m \in ToOrigin(e)
    <3>1. Msg("progress", j, "") \in ToOrigin(e) /\ \A ok \in BOOLEAN : Result(j, ok) \in ToOrigin(e)
      BY <1>1, MessageTypes
    <3>2. ASSUME NEW i \in DOMAIN outbox[e] PROVE outbox[e][i].ok \in BOOLEAN
      <4>1. outbox[e] \in Seq(Owed)
        BY DEF TypeOK
      <4>2. outbox[e][i] \in Owed
        BY <4>1
      <4> QED BY <4>2 DEF Owed
    <3> QED BY <2>3, <3>1, <3>2 DEF AnswerOf
  <2>4. toO' \in [Executor -> Seq(Message)] /\ \A f \in Executor : toO'[f] \in Seq(ToOrigin(f))
    <3>1. CASE toO' = toO
      BY <3>1 DEF TypeOK, Addressed
    <3>2. CASE \E m \in AnswerOf(e, j) : toO' = Write(toO, e, m)
      BY <1>2, <2>3, <3>2
    <3> QED BY <1>5, <3>1, <3>2 DEF OnReminder, j
  <2> QED BY <1>1, <1>5, <2>2, <2>4 DEF OnReminder, TypeOK, Addressed, Asking, origin
<1> QED BY <1>3, <1>4, <1>5

LEMMA ComputingSane ==
  ASSUME Sane, NEW j \in Job, NEW ok \in BOOLEAN, Compute(j, ok)
  PROVE  Sane'
<1> USE DEF Sane
<1>1. At(j) \in Executor /\ JobKey(j) \in Key
  BY KeyType
<1>2. outbox' \in [Executor -> Seq(Owed)] /\ \A f \in Executor : outbox'[f] \in Seq(Debt(f))
  <2>1. [job |-> j, ok |-> ok, gaveUp |-> FALSE] \in Debt(At(j))
    BY DEF Debt, Owed
  <2>2. Append(outbox[At(j)], [job |-> j, ok |-> ok, gaveUp |-> FALSE]) \in Seq(Debt(At(j)))
    BY <1>1, <2>1 DEF Addressed
  <2>3. outbox' = [outbox EXCEPT ![At(j)] = Append(outbox[At(j)], [job |-> j, ok |-> ok, gaveUp |-> FALSE])]
    BY DEF Compute
  <2> QED BY <1>1, <2>2, <2>3, OutboxStep
<1>3. toO' \in [Executor -> Seq(Message)] /\ \A f \in Executor : toO'[f] \in Seq(ToOrigin(f))
  BY <1>1, MessageTypes, WriteType DEF Compute
<1>4. running' \subseteq Job /\ agents' \in [Executor -> [Key -> Job \cup {Idle, Host}]]
  BY <1>1 DEF Compute, FreeKey, TypeOK
<1> QED BY <1>2, <1>3, <1>4 DEF Compute, TypeOK, Addressed, Asking, origin

LEMMA KeepingSane ==
  ASSUME Sane, NEW e \in Executor,
         \/ \E k \in Key : HostDone(e, k)
         \/ \E i \in Nat : Resend(e, i) \/ GiveUp(e, i) \/ ExpireTomb(e, i)
  PROVE  Sane'
<1> USE DEF Sane
<1>1. ASSUME NEW k \in Key, HostDone(e, k) PROVE Sane'
  BY <1>1 DEF HostDone, TypeOK, Addressed, Asking, origin
<1>2. ASSUME NEW i \in Nat, Resend(e, i) PROVE Sane'
  <2>1. i \in DOMAIN outbox[e] /\ outbox[e][i] \in Debt(e)
    BY <1>2 DEF Resend, Addressed
  <2>2. Result(outbox[e][i].job, outbox[e][i].ok) \in ToOrigin(e)
    BY <2>1, MessageTypes DEF Debt, Owed
  <2>3. toO' \in [Executor -> Seq(Message)] /\ \A f \in Executor : toO'[f] \in Seq(ToOrigin(f))
    BY <1>2, <2>2, WriteType DEF Resend
  <2> QED BY <1>2, <2>3 DEF Resend, TypeOK, Addressed, Asking, origin, exec
<1>3. ASSUME NEW i \in Nat, GiveUp(e, i) PROVE Sane'
  <2>1. outbox' = [outbox EXCEPT ![e] = Buried([outbox[e] EXCEPT ![i].gaveUp = TRUE])]
        /\ i \in DOMAIN outbox[e]
    BY <1>3 DEF GiveUp
  <2>2. [outbox[e] EXCEPT ![i].gaveUp = TRUE] \in Seq(Debt(e))
    BY <2>1, OutboxTypes DEF Addressed
  <2>3. Buried([outbox[e] EXCEPT ![i].gaveUp = TRUE]) \in Seq(Debt(e))
    BY <2>2, OutboxTypes
  <2>4. outbox' \in [Executor -> Seq(Owed)] /\ \A f \in Executor : outbox'[f] \in Seq(Debt(f))
    BY <2>1, <2>3, OutboxStep
  <2> QED BY <1>3, <2>4 DEF GiveUp, TypeOK, Addressed, Asking, origin
<1>4. ASSUME NEW i \in Nat, ExpireTomb(e, i) PROVE Sane'
  <2>1. outbox' = [outbox EXCEPT ![e] = Without(outbox[e], outbox[e][i].job)]
    BY <1>4 DEF ExpireTomb
  <2>2. outbox' \in [Executor -> Seq(Owed)] /\ \A f \in Executor : outbox'[f] \in Seq(Debt(f))
    BY <2>1, OutboxTypes, OutboxStep DEF Addressed
  <2> QED BY <1>4, <2>2 DEF ExpireTomb, TypeOK, Addressed, Asking, origin
<1> QED BY <1>1, <1>2, <1>3, <1>4

LEMMA LinkingSane ==
  ASSUME Sane, Linking
  PROVE  Sane'
<1> USE DEF Sane
<1>1. CASE CrashOrigin
  <2>1. route' \in [Dispatch -> Route] /\ Asking'
    <3>1. \A d \in Dispatch : route[d].outcome \in {"new", "asking", "spawned", "failed", "lost"}
      BY DEF TypeOK, Route
    <3> QED BY <1>1, <3>1 DEF CrashOrigin, Route, Asking
  <2>2. link' \in [Executor -> Link]
    BY <1>1 DEF CrashOrigin, TypeOK, Link
  <2>3. /\ toE' \in [Executor -> Seq(Message)] /\ toO' \in [Executor -> Seq(Message)]
        /\ \A f \in Executor : toE'[f] \in Seq(ToExecutor(f)) /\ toO'[f] \in Seq(ToOrigin(f))
    <3>1. \A S : <<>> \in Seq(S)
      OBVIOUS
    <3>2. toE' = [e \in Executor |-> <<>>] /\ toO' = [e \in Executor |-> <<>>]
      BY <1>1 DEF CrashOrigin
    <3> QED BY <3>1, <3>2
  <2>4. awaiting' \in Promise /\ settled' \subseteq Job /\ pleas' \subseteq Job /\ acted' \subseteq Job
    BY <1>1 DEF CrashOrigin, TypeOK, Promise
  <2> QED BY <1>1, <2>1, <2>2, <2>3, <2>4 DEF CrashOrigin, TypeOK, Addressed, exec, Promise
<1>2. ASSUME NEW e \in Executor, Drop(e) \/ ReapPeer(e) \/ Connect(e) \/ Prove(e) \/ Grow(e) \/ CrashExecutor(e)
      PROVE  Sane'
  <2>1. link' \in [Executor -> Link]
    <3>1. ASSUME NEW l \in Link PROVE [l EXCEPT !.state = "down", !.grown = FALSE] \in Link
      BY DEF Link
    <3>2. ASSUME NEW l \in Link, NEW b \in BOOLEAN
          PROVE  [l EXCEPT !.state = "unknown", !.proved = b] \in Link
      BY DEF Link
    <3>3. ASSUME NEW l \in Link, NEW b \in BOOLEAN
          PROVE  [l EXCEPT !.proved = TRUE, !.grown = b] \in Link /\ [l EXCEPT !.grown = b] \in Link
      BY DEF Link
    <3>10. ASSUME NEW l \in Link
           PROVE  [state |-> "up", proved |-> FALSE, grown |-> FALSE, made |-> l.made + 1] \in Link
      BY DEF Link
    <3>4. link \in [Executor -> Link] /\ FALSE \in BOOLEAN /\ TRUE \in BOOLEAN
      BY DEF TypeOK
    <3>5. CASE Drop(e) \/ CrashExecutor(e)
      <4>1. link' = [link EXCEPT ![e].state = "down", ![e].grown = FALSE]
        BY <3>5 DEF Drop, CrashExecutor
      <4>2. link' = [link EXCEPT ![e] = [link[e] EXCEPT !.state = "down", !.grown = FALSE]]
        BY <3>4, <4>1
      <4>3. [link[e] EXCEPT !.state = "down", !.grown = FALSE] \in Link
        BY <3>1, <3>4
      <4> QED BY <3>4, <4>2, <4>3
    <3>6. CASE ReapPeer(e)
      BY <3>2, <3>4, <3>6 DEF ReapPeer
    <3>7. CASE Connect(e)
      BY <3>4, <3>7, <3>10 DEF Connect
    <3>8. CASE Prove(e)
      <4>1. PICK b \in BOOLEAN : link' = [link EXCEPT ![e].proved = TRUE, ![e].grown = b]
        BY <3>8 DEF Prove
      <4>2. [link[e] EXCEPT !.proved = TRUE, !.grown = b] \in Link
        BY <3>3, <3>4
      <4>3. link' = [link EXCEPT ![e] = [link[e] EXCEPT !.proved = TRUE, !.grown = b]]
        BY <3>4, <4>1
      <4> QED BY <3>4, <4>2, <4>3
    <3>9. CASE Grow(e)
      BY <3>3, <3>4, <3>9 DEF Grow
    <3> QED BY <1>2, <3>5, <3>6, <3>7, <3>8, <3>9
  <2>2. awaiting' \in Promise
    <3>1. awaiting' = awaiting \/ awaiting' = Unasked({e})
      BY <1>2 DEF Drop, ReapPeer, Connect, Prove, Grow, CrashExecutor, origin
    <3>2. Unasked({e}) \in Promise
      BY PromiseTypes
    <3> QED BY <3>1, <3>2 DEF TypeOK, Promise
  <2>3. /\ toE' \in [Executor -> Seq(Message)] /\ toO' \in [Executor -> Seq(Message)]
        /\ \A f \in Executor : toE'[f] \in Seq(ToExecutor(f)) /\ toO'[f] \in Seq(ToOrigin(f))
    <3>1. UNCHANGED <<toE, toO>> \/ Cut(e)
      BY <1>2 DEF Drop, ReapPeer, Connect, Prove, Grow, CrashExecutor
    <3>2. \A S : <<>> \in Seq(S)
      OBVIOUS
    <3>3. toE \in [Executor -> Seq(Message)] /\ toO \in [Executor -> Seq(Message)]
      BY DEF TypeOK
    <3>4. CASE Cut(e)
      BY <3>2, <3>3, <3>4 DEF Cut, Addressed
    <3> QED BY <3>1, <3>3, <3>4 DEF Addressed
  <2>4. /\ running' \subseteq Job /\ agents' \in [Executor -> [Key -> Job \cup {Idle, Host}]]
        /\ outbox' \in [Executor -> Seq(Owed)] /\ \A f \in Executor : outbox'[f] \in Seq(Debt(f))
    <3>1. CASE UNCHANGED exec
      BY <3>1 DEF exec, TypeOK, Addressed
    <3>2. CASE CrashExecutor(e)
      <4>1. <<>> \in Seq(Owed) /\ <<>> \in Seq(Debt(e))
        OBVIOUS
      <4>2. outbox' = [outbox EXCEPT ![e] = <<>>]
            /\ agents' = [agents EXCEPT ![e] = [k \in Key |-> Idle]]
            /\ running' = {j \in running : At(j) # e}
        BY <3>2 DEF CrashExecutor
      <4> QED BY <4>1, <4>2 DEF TypeOK, Addressed
    <3> QED BY <1>2, <3>1, <3>2 DEF Drop, ReapPeer, Connect, Prove, Grow
  <2>5. UNCHANGED <<route, pleas, acted, trusted, banned, handled, settled, silenced>>
    BY <1>2 DEF Drop, ReapPeer, Connect, Prove, Grow, CrashExecutor, origin
  <2> QED BY <2>1, <2>2, <2>3, <2>4, <2>5 DEF TypeOK, Addressed, Asking, Promise
<1> QED BY <1>1, <1>2 DEF Linking

LEMMA NextSane ==
  Sane /\ [Next]_vars => Sane'
<1> SUFFICES ASSUME Sane, [Next]_vars PROVE Sane'
  OBVIOUS
<1>1. CASE Dispatching
  BY <1>1, DispatchingSane DEF Dispatching
<1>2. CASE Judging
  BY <1>2, ReadingSane, JudgingSane, OperatorSane DEF Judging, CheckDeadline
<1>3. CASE Executing
  <2>1. 1..Cardinality(Job) \subseteq Nat
    OBVIOUS
  <2> QED BY <1>3, <2>1, ServingSane, ComputingSane, KeepingSane DEF Executing
<1>4. CASE Linking
  BY <1>4, LinkingSane
<1>5. CASE UNCHANGED vars
  BY <1>5 DEF vars, origin, exec, Sane, TypeOK, Addressed, Asking
<1> QED BY <1>1, <1>2, <1>3, <1>4, <1>5 DEF Next

\* Every variable stays in its type.
THEOREM ForeignTypes ==
  Spec => []TypeOK
<1>1. Spec => []Sane
  BY InitSane, NextSane, PTL DEF Spec
<1> QED BY <1>1, PTL DEF Sane

----------------------------------------------------------------------------
(* A result is acted on once, and a closed job stays closed *)

\* The dispatch of j has asked its executor, or passed it over.
Begun(j) == route[j[1]].outcome # "new" /\ At(j) \notin route[j[1]].left

\* The executor that is asked is one the dispatch will not ask again.
Routed ==
  \A d \in Dispatch :
    route[d].asked # Nobody => route[d].outcome = "asking" /\ route[d].asked \notin route[d].left

\* A job is promised, or closed, only once it was put to its executor; closed
\* it is promised no more, and a result was acted on once, which closed it.
Closed ==
  \A j \in Job :
    /\ awaiting[j] # NoEntry \/ j \in settled \/ j \in pleas => Begun(j)
    /\ j \in settled => awaiting[j] = NoEntry
    /\ handled[j] <= 1 /\ (handled[j] # 0 => j \in settled)

\* What a step may do to a job: promise it when it is first put to its
\* executor, close it, act on its result while it is promised.
Orderly(j) ==
  /\ awaiting'[j] # NoEntry => awaiting[j] # NoEntry \/ (~Begun(j) /\ Begun(j)')
  /\ j \in settled => j \in settled'
  /\ j \in settled' \ settled => awaiting'[j] = NoEntry /\ (awaiting[j] # NoEntry \/ Begun(j))
  /\ j \in pleas' \ pleas => awaiting[j] # NoEntry
  /\ handled'[j] # handled[j] =>
       handled'[j] = handled[j] + 1 /\ awaiting[j] # NoEntry /\ j \in settled'

LEMMA OrderlyKeepsClosed ==
  ASSUME Sane, Closed, Sane', \A j \in Job : Orderly(j) /\ (Begun(j) => Begun(j)')
  PROVE  Closed'
<1> SUFFICES ASSUME NEW j \in Job
             PROVE  /\ awaiting'[j] # NoEntry \/ j \in settled' \/ j \in pleas' => Begun(j)'
                    /\ j \in settled' => awaiting'[j] = NoEntry
                    /\ handled'[j] <= 1 /\ (handled'[j] # 0 => j \in settled')
  BY DEF Closed, Begun
<1>1. handled[j] \in Nat /\ handled'[j] \in Nat
  BY DEF Sane, TypeOK
<1>2. Orderly(j) /\ (Begun(j) => Begun(j)')
  OBVIOUS
<1>3. /\ awaiting[j] # NoEntry \/ j \in settled \/ j \in pleas => Begun(j)
      /\ j \in settled => awaiting[j] = NoEntry
      /\ handled[j] <= 1 /\ (handled[j] # 0 => j \in settled)
  BY DEF Closed
<1> HIDE DEF Begun
<1>4. awaiting'[j] # NoEntry \/ j \in settled' \/ j \in pleas' => Begun(j)'
  BY <1>2, <1>3 DEF Orderly
<1>5. j \in settled' => awaiting'[j] = NoEntry
  BY <1>2, <1>3 DEF Orderly
<1>6. handled'[j] <= 1 /\ (handled'[j] # 0 => j \in settled')
  BY <1>1, <1>2, <1>3 DEF Orderly
<1> QED BY <1>4, <1>5, <1>6

\* A dispatch is begun once, and its candidates only become fewer.
LEMMA RouteSteps ==
  ASSUME Sane, Routed, [Next]_vars
  PROVE  /\ Routed'
         /\ \A j \in Job : Begun(j) => Begun(j)'
<1>1. ASSUME UNCHANGED route
      PROVE  Routed' /\ \A j \in Job : Begun(j) => Begun(j)'
  BY <1>1 DEF Routed, Begun
<1>2. route \in [Dispatch -> Route] /\ Nobody \notin Executor /\ Asking
  BY ForeignConstants DEF Sane, TypeOK
<1>3. \A j \in Job : j[1] \in Dispatch /\ At(j) \in Executor
  BY DEF Job, At
<1>4. ASSUME NEW d \in Dispatch, BeginDispatch(d)
      PROVE  Routed' /\ \A j \in Job : Begun(j) => Begun(j)'
  <2>1. route' = [route EXCEPT ![d].outcome = "asking",
                               ![d].left = {e \in Executor : Up(e) /\ Class(e) # "banned"}]
        /\ route[d].outcome = "new"
    BY <1>4 DEF BeginDispatch
  <2>2. \A c \in Dispatch : /\ route'[c].asked = route[c].asked
                            /\ c # d => route'[c] = route[c]
    BY <1>2, <2>1 DEF Route
  <2>3. route[d].asked = Nobody
    BY <2>1 DEF Routed
  <2> QED BY <1>3, <2>1, <2>2, <2>3 DEF Routed, Begun
<1>5. ASSUME NEW d \in Dispatch, NEW how \in {"failed", "asking", "spawned"},
             \/ route[d].outcome = "asking" /\ route[d].asked = Nobody
                /\ route' = [route EXCEPT ![d].outcome = "failed"]
             \/ route' = Ended(d, how)
      PROVE  Routed' /\ \A j \in Job : Begun(j) => Begun(j)'
  <2>1. \A c \in Dispatch : c # d => route'[c] = route[c]
    BY <1>2, <1>5 DEF Ended
  <2>2. route'[d].asked = Nobody /\ route'[d].outcome # "new" /\ route'[d].left = route[d].left
    BY <1>2, <1>5 DEF Ended, Route
  <2> QED BY <1>3, <2>1, <2>2 DEF Routed, Begun
<1>6. ASSUME NEW d \in Dispatch, NEW e \in Executor, Ask(d, e)
      PROVE  Routed' /\ \A j \in Job : Begun(j) => Begun(j)'
  <2>1. \A c \in Dispatch : c # d => route'[c] = route[c]
    BY <1>2, <1>6 DEF Ask
  <2>2. /\ route'[d].outcome = "asking" /\ route'[d].left = route[d].left \ {e}
        /\ route'[d].asked \in {Nobody, e}
    <3>1. route[d].outcome = "asking" /\ route[d].asked = Nobody /\ route[d] \in Route
      BY <1>2, <1>6 DEF Ask
    <3>2. \/ route' = [route EXCEPT ![d].asked = e, ![d].answer = "waiting", ![d].left = @ \ {e}]
          \/ route' = [route EXCEPT ![d].left = @ \ {e}]
      BY <1>6 DEF Ask
    <3>3. CASE route' = [route EXCEPT ![d].asked = e, ![d].answer = "waiting", ![d].left = @ \ {e}]
      BY <1>2, <3>1, <3>3 DEF Route
    <3>4. CASE route' = [route EXCEPT ![d].left = @ \ {e}]
      BY <1>2, <3>1, <3>4 DEF Route
    <3> QED BY <3>2, <3>3, <3>4
  <2> QED BY <1>3, <2>1, <2>2 DEF Routed, Begun
<1>7. ASSUME NEW e \in Executor, OnStatus(e)
      PROVE  Routed' /\ \A j \in Job : Begun(j) => Begun(j)'
  <2>1. \A c \in Dispatch : /\ route'[c].asked = route[c].asked /\ route'[c].left = route[c].left
                            /\ route'[c].outcome = route[c].outcome
    BY <1>2, <1>7 DEF OnStatus, Route
  <2> QED BY <1>3, <2>1 DEF Routed, Begun
<1>8. ASSUME CrashOrigin
      PROVE  Routed' /\ \A j \in Job : Begun(j) => Begun(j)'
  <2>1. \A c \in Dispatch : /\ route'[c].asked = Nobody /\ route'[c].left = {}
                            /\ route[c].outcome # "new" => route'[c].outcome # "new"
    BY <1>8 DEF CrashOrigin
  <2> QED BY <1>3, <2>1 DEF Routed, Begun
<1>9. CASE Dispatching
  <2>1. PICK d \in Dispatch : \/ BeginDispatch(d) \/ NoneLeft(d) \/ Resume(d) \/ AckTimeout(d)
                              \/ \E e \in Executor : Ask(d, e)
    BY <1>9 DEF Dispatching
  <2>2. CASE NoneLeft(d)
    BY <1>5, <2>2 DEF NoneLeft
  <2>3. CASE Resume(d) \/ AckTimeout(d)
    <3>1. route' = Ended(d, "asking") \/ route' = Ended(d, "spawned")
      BY <2>3 DEF Resume, AckTimeout
    <3> QED BY <1>5, <3>1
  <2> QED BY <1>4, <1>6, <2>1, <2>2, <2>3
<1>10. CASE Judging
  <2>1. UNCHANGED route \/ \E e \in Executor : OnStatus(e)
    BY <1>10 DEF Judging, CheckDeadline, OnResult, OnProgress, Operator, Disarm, Remind, BanSilent, Decide,
                 ReapAwaiting, ReapActed
  <2> QED BY <1>1, <1>7, <2>1
<1>11. CASE Executing
  BY <1>1, <1>11 DEF Executing, TakeJob, OnAck, OnReminder, Compute, HostDone, Resend, GiveUp,
                     ExpireTomb, origin
<1>12. CASE Linking
  BY <1>1, <1>8, <1>12 DEF Linking, Drop, ReapPeer, Connect, Prove, Grow, CrashExecutor, origin
<1>13. CASE UNCHANGED vars
  BY <1>1, <1>13 DEF vars, origin
<1> QED BY <1>9, <1>10, <1>11, <1>12, <1>13 DEF Next

\* Every step is orderly.
LEMMA StepsOrderly ==
  ASSUME Sane, Routed, Closed, [Next]_vars, NEW j \in Job
  PROVE  Orderly(j)
<1>1. awaiting \in Promise /\ handled[j] \in Nat /\ handled \in [Job -> Nat]
  BY DEF Sane, TypeOK, Promise
<1>2. ASSUME UNCHANGED <<settled, handled>>, pleas' \subseteq pleas,
             \A i \in Job : awaiting'[i] # NoEntry => awaiting[i] # NoEntry
      PROVE  Orderly(j)
  BY <1>2 DEF Orderly
<1>3. CASE Dispatching
  <2>1. PICK d \in Dispatch : \/ BeginDispatch(d) \/ NoneLeft(d) \/ Resume(d) \/ AckTimeout(d)
                              \/ \E e \in Executor : Ask(d, e)
    BY <1>3 DEF Dispatching
  <2>2. CASE BeginDispatch(d) \/ NoneLeft(d)
    BY <1>2, <2>2 DEF BeginDispatch, NoneLeft
  <2>3. CASE Resume(d) \/ AckTimeout(d)
    <3>1. route[d] \in Route /\ (route[d].asked = Nobody <=> route[d].answer = "none")
      BY DEF Sane, TypeOK, Asking
    <3>2. route[d].asked \in Executor /\ route[d].asked # Nobody
      BY <2>3, <3>1, ForeignConstants DEF Resume, AckTimeout, Answers, Route
    <3>3. <<d, route[d].asked>> \in Job /\ Begun(<<d, route[d].asked>>)
      BY <3>2 DEF Job, Begun, Routed, At
    <3>4. CASE Forget(<<d, route[d].asked>>) /\ UNCHANGED <<pleas, handled>>
      BY <1>1, <3>3, <3>4 DEF Orderly, Forget, Promise
    <3>5. CASE MaybeArm(<<d, route[d].asked>>, route[d].answer) /\ UNCHANGED <<pleas, settled, handled>>
      <4>1. \A i \in Job : awaiting'[i] # NoEntry => awaiting[i] # NoEntry
        BY <1>1, <3>5 DEF MaybeArm, Promise
      <4> QED BY <1>2, <3>5, <4>1
    <3> QED BY <2>3, <3>4, <3>5 DEF Resume, AckTimeout
  <2>4. ASSUME NEW e \in Executor, Ask(d, e) PROVE Orderly(j)
    <3>1. UNCHANGED <<settled, handled, pleas>>
      BY <2>4 DEF Ask
    <3>2. CASE awaiting' = awaiting
      BY <1>2, <3>1, <3>2
    <3>3. CASE Up(e)
      <4>1. /\ awaiting' = [awaiting EXCEPT ![<<d, e>>] = Fresh]
            /\ route' = [route EXCEPT ![d].asked = e, ![d].answer = "waiting", ![d].left = @ \ {e}]
            /\ e \in route[d].left /\ route[d].outcome = "asking"
        BY <2>4, <3>3 DEF Ask
      <4>2. CASE j # <<d, e>>
        BY <1>1, <3>1, <4>1, <4>2 DEF Orderly, Promise
      <4>3. CASE j = <<d, e>>
        <5>1. route'[d].outcome = "asking" /\ route'[d].left = route[d].left \ {e}
          BY <4>1 DEF Sane, TypeOK, Route
        <5>2. ~Begun(j) /\ Begun(j)'
          BY <4>1, <4>3, <5>1 DEF Begun, At
        <5> QED BY <3>1, <5>2 DEF Orderly
      <4> QED BY <4>2, <4>3
    <3> QED BY <2>4, <3>2, <3>3 DEF Ask
  <2> QED BY <2>1, <2>2, <2>3, <2>4
<1>4. ASSUME NEW i \in Job, Settles(i), UNCHANGED handled, pleas' \subseteq pleas, awaiting[i] # NoEntry,
             \/ BanExecutor(At(i), awaiting[i], Pop(i))
             \/ awaiting' = Pop(i)
      PROVE  Orderly(j)
  <2>1. Pop(i) \in Promise /\ Pop(i)[i] = NoEntry /\ \A k \in Job \ {i} : Pop(i)[k] = awaiting[k]
    BY PopType
  <2>2. At(i) \in Executor
    BY MessageTypes
  <2>3. \A k \in Job : awaiting'[k] \in {Pop(i)[k], NoEntry}
    BY <1>4, <2>1, <2>2, BanType
  <2>4. awaiting'[i] = NoEntry /\ \A k \in Job : awaiting'[k] # NoEntry => awaiting[k] # NoEntry
    BY <2>1, <2>3
  <2> QED BY <1>4, <2>4 DEF Orderly, Settles
<1>5. ASSUME NEW e \in Executor, OnResult(e) PROVE Orderly(j)
  <2> DEFINE m == Head(toO[e])
  <2>1. m \in ToOrigin(e) /\ m.job \in Job /\ At(m.job) = e
    <3>1. m \in ToOrigin(e)
      BY <1>5, ReadType DEF OnResult, OriginReads
    <3> QED BY <3>1 DEF ToOrigin, Message
  <2> HIDE DEF m
  <2>2. CASE awaiting[m.job] = NoEntry
    <3>1. UNCHANGED <<awaiting, pleas, handled, settled>>
      BY <1>5, <2>2 DEF OnResult, m
    <3> QED BY <1>2, <3>1
  <2>3. CASE awaiting[m.job] # NoEntry
    <3>1. /\ handled' = [handled EXCEPT ![m.job] = IF m.says = "ok" THEN @ + 1 ELSE @]
          /\ \/ BanExecutor(e, awaiting[m.job], Pop(m.job))
             \/ awaiting' = Pop(m.job) /\ UNCHANGED <<trusted, banned>>
          /\ Settles(m.job) /\ pleas' = pleas
      BY <1>5, <2>3 DEF OnResult, m
    <3>2. Pop(m.job) \in Promise /\ Pop(m.job)[m.job] = NoEntry
          /\ \A k \in Job \ {m.job} : Pop(m.job)[k] = awaiting[k]
      BY <2>1, PopType
    <3>3. \A k \in Job : awaiting'[k] \in {Pop(m.job)[k], NoEntry}
      BY <3>1, <3>2, BanType
    <3>4. awaiting'[m.job] = NoEntry /\ \A k \in Job : awaiting'[k] # NoEntry => awaiting[k] # NoEntry
      BY <2>1, <3>2, <3>3
    <3>5. m.job \in settled'
      BY <3>1 DEF Settles
    <3>6. handled'[j] # handled[j] => j = m.job /\ handled'[j] = handled[j] + 1
      BY <1>1, <2>1, <3>1
    <3> QED BY <2>3, <3>1, <3>4, <3>5, <3>6 DEF Orderly, Settles
  <2> QED BY <2>2, <2>3
<1>6. ASSUME NEW e \in Executor, OnStatus(e) \/ OnProgress(e) \/ Operator(e) PROVE Orderly(j)
  <2>1. CASE OnStatus(e) \/ Operator(e)
    BY <1>2, <2>1 DEF OnStatus, Operator
  <2>2. CASE OnProgress(e)
    <3>1. \A i \in Job : awaiting'[i] # NoEntry => awaiting[i] # NoEntry
      BY <1>1, <2>2 DEF OnProgress, Watched, Promise
    <3>2. pleas' \subseteq pleas \cup {i \in Job : awaiting[i] # NoEntry} \/ j \notin pleas' \ pleas
      BY <2>2 DEF OnProgress, Watched
    <3> QED BY <2>2, <3>1, <3>2 DEF OnProgress, Orderly, Watched
  <2> QED BY <1>6, <2>1, <2>2
<1>7. ASSUME NEW i \in Job,
             Disarm(i) \/ Remind(i) \/ BanSilent(i) \/ Decide(i) \/ ReapAwaiting(i) \/ ReapActed(i)
      PROVE  Orderly(j)
  <2>1. CASE Disarm(i) \/ Remind(i) \/ ReapActed(i)
    <3>1. \A k \in Job : awaiting'[k] # NoEntry => awaiting[k] # NoEntry
      BY <1>1, <2>1 DEF Disarm, Remind, ReapActed, Watched, Promise
    <3> QED BY <1>2, <2>1, <3>1 DEF Disarm, Remind, ReapActed
  <2>2. CASE BanSilent(i)
    BY <1>4, <2>2 DEF BanSilent, Watched
  <2>3. CASE ReapAwaiting(i)
    <3>1. awaiting[i] # NoEntry /\ awaiting' = Pop(i) /\ settled' = settled \cup {i}
          /\ UNCHANGED <<pleas, handled>>
      BY <2>3 DEF ReapAwaiting
    <3> QED BY <3>1, PopType DEF Orderly
  <2>4. CASE Decide(i)
    <3>1. CASE UNCHANGED <<awaiting, settled>>
      BY <1>2, <2>4, <3>1 DEF Decide
    <3>2. CASE awaiting[i] # NoEntry /\ awaiting' = [awaiting EXCEPT ![i] = Extended(@)]
               /\ UNCHANGED settled
      <4>1. \A k \in Job : awaiting'[k] # NoEntry => awaiting[k] # NoEntry
        BY <1>1, <3>2 DEF Promise
      <4> QED BY <1>2, <2>4, <3>2, <4>1 DEF Decide
    <3>3. CASE awaiting[i] # NoEntry /\ BanExecutor(At(i), awaiting[i], Pop(i)) /\ Settles(i)
      BY <1>4, <2>4, <3>3 DEF Decide
    <3> QED BY <2>4, <3>1, <3>2, <3>3 DEF Decide
  <2> QED BY <1>7, <2>1, <2>2, <2>3, <2>4
<1>8. CASE Executing
  BY ZenonT(40), <1>2, <1>8 DEF Executing, TakeJob, OnAck, OnReminder, Compute, HostDone, Resend, GiveUp,
                    ExpireTomb, origin
<1>9. CASE Linking
  <2>1. CASE CrashOrigin
    BY <2>1 DEF CrashOrigin, Orderly
  <2>2. ASSUME NEW e \in Executor, Drop(e) \/ ReapPeer(e) \/ Connect(e) \/ Prove(e) \/ Grow(e) \/ CrashExecutor(e)
        PROVE  Orderly(j)
    <3>1. awaiting' = awaiting \/ awaiting' = Unasked({e})
      BY <2>2 DEF Drop, ReapPeer, Connect, Prove, Grow, CrashExecutor, origin
    <3>2. \A k \in Job : awaiting'[k] # NoEntry => awaiting[k] # NoEntry
      BY <1>1, <3>1 DEF Unasked
    <3> QED BY <1>2, <2>2, <3>2 DEF Drop, ReapPeer, Connect, Prove, Grow, CrashExecutor, origin
  <2> QED BY <1>9, <2>1, <2>2 DEF Linking
<1>10. CASE UNCHANGED vars
  BY <1>2, <1>10 DEF vars, origin
<1> QED BY <1>3, <1>5, <1>6, <1>7, <1>8, <1>9, <1>10 DEF Next, Judging, CheckDeadline

LEMMA InitClosed ==
  Init => Routed /\ Closed
BY DEF Init, Routed, Closed

LEMMA SpecClosed ==
  Spec => [](Sane /\ Routed /\ Closed)
<1>1. ASSUME Sane, Routed, Closed, [Next]_vars PROVE (Sane /\ Routed /\ Closed)'
  <2>1. Sane'
    BY <1>1, NextSane
  <2>2. Routed' /\ \A j \in Job : Begun(j) => Begun(j)'
    BY <1>1, RouteSteps
  <2>3. \A j \in Job : Orderly(j)
    BY <1>1, StepsOrderly
  <2> QED BY <1>1, <2>1, <2>2, <2>3, OrderlyKeepsClosed
<1> QED BY <1>1, InitSane, InitClosed, PTL DEF Spec

\* Whatever is resent, acknowledged twice, extended, forgotten or reaped, the
\* originator acts on the result of a job at most once (_on_job_result).
THEOREM ForeignActsAtMostOnce ==
  Spec => []ActsAtMostOnce
<1>1. Closed => ActsAtMostOnce
  BY DEF Closed, ActsAtMostOnce
<1> QED BY <1>1, SpecClosed, PTL

\* A job the originator has closed is never promised or acted on again.
THEOREM ForeignClosedIsClosed ==
  Spec => ClosedIsClosed
<1>1. ASSUME Sane, Routed, Closed, [Next]_vars
      PROVE  [\A j \in settled : awaiting'[j] = NoEntry /\ handled'[j] = handled[j]]_vars
  <2>1. ASSUME NEW j \in settled
        PROVE  awaiting'[j] = NoEntry /\ handled'[j] = handled[j]
    <3>1. j \in Job
      BY <1>1, <2>1 DEF Sane, TypeOK
    <3>2. Orderly(j)
      BY <1>1, <3>1, StepsOrderly
    <3>3. awaiting[j] = NoEntry /\ Begun(j)
      BY <1>1, <2>1, <3>1 DEF Closed
    <3> QED BY <3>2, <3>3 DEF Orderly
  <2> QED BY <2>1
<1> QED BY <1>1, SpecClosed, PTL DEF Spec, ClosedIsClosed

----------------------------------------------------------------------------
(* An executor that can be heard is not banned for silence *)

Wire == [Executor -> Seq(Message)]

\* The message x is one of kind t about j.
Is(x, t, j) == x.t = t /\ x.job = j

\* At most one message of kind t about j is on its wire.
Single(q, t, j) ==
  \A a, b \in DOMAIN q[At(j)] : Is(q[At(j)][a], t, j) /\ Is(q[At(j)][b], t, j) => a = b

\* What a message written changes.
LEMMA WireWrite ==
  ASSUME NEW q \in Wire, NEW e \in Executor, NEW m \in Message, NEW t, NEW j \in Job
  PROVE  /\ OnWire(Write(q, e, m), t, j) <=> OnWire(q, t, j) \/ (Up(e) /\ At(j) = e /\ Is(m, t, j))
         /\ Single(q, t, j) /\ ~(Is(m, t, j) /\ OnWire(q, t, j)) => Single(Write(q, e, m), t, j)
<1>1. CASE ~Up(e) \/ At(j) # e
  <2>1. Write(q, e, m)[At(j)] = q[At(j)]
    BY <1>1, MessageTypes DEF Write, Wire
  <2> QED BY <1>1, <2>1 DEF OnWire, Single
<1>2. CASE Up(e) /\ At(j) = e
  <2>1. Write(q, e, m)[e] = Append(q[e], m) /\ q[e] \in Seq(Message)
    BY <1>2 DEF Write, Wire
  <2>2. /\ DOMAIN Append(q[e], m) = 1..(Len(q[e]) + 1) /\ DOMAIN q[e] = 1..Len(q[e])
        /\ Len(q[e]) \in Nat
        /\ \A i \in 1..Len(q[e]) : Append(q[e], m)[i] = q[e][i]
        /\ Append(q[e], m)[Len(q[e]) + 1] = m
    BY <2>1
  <2>3. OnWire(Write(q, e, m), t, j) <=> OnWire(q, t, j) \/ Is(m, t, j)
    <3>1. ASSUME OnWire(q, t, j) PROVE OnWire(Write(q, e, m), t, j)
      <4>1. PICK i \in 1..Len(q[e]) : Is(q[e][i], t, j)
        BY <1>2, <2>2, <3>1 DEF OnWire, Is
      <4>2. i \in 1..(Len(q[e]) + 1) /\ Is(Append(q[e], m)[i], t, j)
        BY <2>2, <4>1
      <4> QED BY <1>2, <2>1, <2>2, <4>2 DEF OnWire, Is
    <3>2. ASSUME Is(m, t, j) PROVE OnWire(Write(q, e, m), t, j)
      <4>1. Len(q[e]) + 1 \in 1..(Len(q[e]) + 1)
        BY <2>2
      <4> QED BY <1>2, <2>1, <2>2, <3>2, <4>1 DEF OnWire, Is
    <3>3. ASSUME OnWire(Write(q, e, m), t, j) PROVE OnWire(q, t, j) \/ Is(m, t, j)
      <4>1. PICK i \in 1..(Len(q[e]) + 1) : Is(Append(q[e], m)[i], t, j)
        BY <1>2, <2>1, <2>2, <3>3 DEF OnWire, Is
      <4>2. i = Len(q[e]) + 1 \/ i \in 1..Len(q[e])
        BY <2>2
      <4> QED BY <1>2, <2>2, <4>1, <4>2 DEF OnWire, Is
    <3> QED BY <3>1, <3>2, <3>3
  <2>4. ASSUME Single(q, t, j), ~(Is(m, t, j) /\ OnWire(q, t, j)) PROVE Single(Write(q, e, m), t, j)
    <3>1. ASSUME NEW a \in 1..(Len(q[e]) + 1), NEW b \in 1..(Len(q[e]) + 1),
                 Is(Append(q[e], m)[a], t, j), Is(Append(q[e], m)[b], t, j)
          PROVE  a = b
      <4>1. ASSUME NEW i \in 1..Len(q[e]), Is(q[e][i], t, j) PROVE ~Is(m, t, j)
        BY <1>2, <2>2, <2>4, <4>1 DEF OnWire, Is
      <4>2. CASE a \in 1..Len(q[e]) /\ b \in 1..Len(q[e])
        BY <1>2, <2>2, <2>4, <3>1, <4>2 DEF Single
      <4>3. CASE a = Len(q[e]) + 1 /\ b \in 1..Len(q[e])
        BY <2>2, <3>1, <4>1, <4>3
      <4>4. CASE b = Len(q[e]) + 1 /\ a \in 1..Len(q[e])
        BY <2>2, <3>1, <4>1, <4>4
      <4>5. (a = Len(q[e]) + 1 \/ a \in 1..Len(q[e])) /\ (b = Len(q[e]) + 1 \/ b \in 1..Len(q[e]))
        BY <2>2
      <4> QED BY <4>2, <4>3, <4>4, <4>5
    <3> QED BY <1>2, <2>1, <2>2, <3>1 DEF Single
  <2> QED BY <1>2, <2>3, <2>4
<1> QED BY <1>1, <1>2

\* What a message read changes.
LEMMA WireRead ==
  ASSUME NEW q \in Wire, NEW e \in Executor, q[e] # <<>>, NEW t, NEW j \in Job,
         NEW r, r[e] = Tail(q[e]), \A f \in Executor \ {e} : r[f] = q[f]
  PROVE  /\ OnWire(r, t, j) => OnWire(q, t, j)
         /\ OnWire(q, t, j) => OnWire(r, t, j) \/ (At(j) = e /\ Is(Head(q[e]), t, j))
         /\ At(j) = e /\ Is(Head(q[e]), t, j) => OnWire(q, t, j)
         /\ Single(q, t, j) => /\ Single(r, t, j)
                               /\ At(j) = e /\ Is(Head(q[e]), t, j) => ~OnWire(r, t, j)
<1>1. CASE At(j) # e
  <2>1. r[At(j)] = q[At(j)]
    BY <1>1, MessageTypes DEF Wire
  <2> QED BY <1>1, <2>1 DEF OnWire, Single
<1>2. CASE At(j) = e
  <2>1. q[e] \in Seq(Message) /\ r[e] = Tail(q[e])
    BY DEF Wire
  <2>2. /\ DOMAIN q[e] = 1..Len(q[e]) /\ Len(q[e]) \in Nat \ {0}
        /\ DOMAIN r[e] = 1..(Len(q[e]) - 1)
        /\ \A i \in 1..(Len(q[e]) - 1) : r[e][i] = q[e][i + 1]
        /\ Head(q[e]) = q[e][1]
    <3>1. ASSUME NEW s \in Seq(Message), s # <<>>
          PROVE  /\ DOMAIN s = 1..Len(s) /\ Len(s) \in Nat \ {0}
                 /\ DOMAIN Tail(s) = 1..(Len(s) - 1)
                 /\ \A i \in 1..(Len(s) - 1) : Tail(s)[i] = s[i + 1]
                 /\ Head(s) = s[1]
      BY <3>1
    <3> QED BY <2>1, <3>1
  <2>3. ASSUME OnWire(r, t, j) PROVE OnWire(q, t, j)
    <3>1. PICK i \in 1..(Len(q[e]) - 1) : Is(r[e][i], t, j)
      BY <1>2, <2>2, <2>3 DEF OnWire, Is
    <3>2. i + 1 \in DOMAIN q[e] /\ Is(q[e][i + 1], t, j)
      BY <2>2, <3>1
    <3> QED BY <1>2, <3>2 DEF OnWire, Is
  <2>4. ASSUME OnWire(q, t, j) PROVE OnWire(r, t, j) \/ Is(Head(q[e]), t, j)
    <3>1. PICK i \in 1..Len(q[e]) : Is(q[e][i], t, j)
      BY <1>2, <2>2, <2>4 DEF OnWire, Is
    <3>2. CASE i = 1
      BY <2>2, <3>1, <3>2
    <3>3. CASE i # 1
      <4>1. i - 1 \in 1..(Len(q[e]) - 1) /\ (i - 1) + 1 = i
        BY <2>2, <3>3
      <4>2. r[e][i - 1] = q[e][i]
        BY <2>2, <4>1
      <4> QED BY <1>2, <2>2, <3>1, <4>1, <4>2 DEF OnWire, Is
    <3> QED BY <3>2, <3>3
  <2>5. ASSUME Is(Head(q[e]), t, j) PROVE OnWire(q, t, j)
    <3>1. 1 \in DOMAIN q[e]
      BY <2>2
    <3> QED BY <1>2, <2>2, <2>5, <3>1 DEF OnWire, Is
  <2>6. ASSUME Single(q, t, j) PROVE Single(r, t, j)
    <3>1. ASSUME NEW a \in 1..(Len(q[e]) - 1), NEW b \in 1..(Len(q[e]) - 1),
                 Is(r[e][a], t, j), Is(r[e][b], t, j)
          PROVE  a = b
      <4>1. a + 1 \in DOMAIN q[e] /\ b + 1 \in DOMAIN q[e]
        BY <2>2
      <4>2. Is(q[e][a + 1], t, j) /\ Is(q[e][b + 1], t, j)
        BY <2>2, <3>1
      <4>3. a + 1 = b + 1
        BY <1>2, <2>6, <4>1, <4>2 DEF Single
      <4> QED BY <2>2, <4>3
    <3> QED BY <1>2, <2>2, <3>1 DEF Single
  <2>7. ASSUME Single(q, t, j), Is(Head(q[e]), t, j), OnWire(r, t, j) PROVE FALSE
    <3>1. PICK i \in 1..(Len(q[e]) - 1) : Is(r[e][i], t, j)
      BY <1>2, <2>2, <2>7 DEF OnWire, Is
    <3>2. i + 1 \in DOMAIN q[e] /\ 1 \in DOMAIN q[e] /\ Is(q[e][i + 1], t, j) /\ Is(q[e][1], t, j)
      BY <2>2, <2>7, <3>1
    <3>3. i + 1 = 1
      BY <1>2, <2>7, <3>2 DEF Single
    <3> QED BY <2>2, <3>1, <3>3
  <2> QED BY <1>2, <2>3, <2>4, <2>5, <2>6, <2>7
<1> QED BY <1>1, <1>2

\* The executor has been offered j; it has answered, and the answer travels.
Offered(j) == OnWire(toE, "dispatch", j)
Taken(j) == OnWire(toO, "status", j)

\* The dispatch of j waits on its executor; it has the answer of it.
Asked(j) == route[j[1]].asked = At(j)
Answered(j) == Asked(j) /\ route[j[1]].answer \in Answers

\* The clock of a promise has been set.  A promise is due when its maker was
\* reminded on the link that is up, and no plea of it is being judged.
Timed(j) == awaiting[j] # NoEntry /\ awaiting[j].clock # "none"
Due(j) == Watched(j) /\ awaiting[j].reminded /\ awaiting[j].asked

\* The executor computes j, or owes its result.
Alive(j) == j \in running \/ Owes(At(j), j)

\* A job is offered once, and nothing but the offer of it exists until the
\* offer is read; and of a due promise something is under way to its maker, or
\* from it, as long as its maker has something to say.
Heard ==
  \A j \in Job :
    /\ Single(toE, "dispatch", j)
    /\ Offered(j) => Begun(j) /\ ~Taken(j) /\ j \notin pleas /\ ~Timed(j) /\ ~Answered(j)
    /\ Taken(j) => Begun(j)
    /\ Asked(j) => j \notin pleas /\ ~Timed(j)
    /\ awaiting[j] # NoEntry /\ ~Timed(j) => ~awaiting[j].reminded
    /\ Due(j) /\ Alive(j) => Talking(j)

\* What a step may do to a job.
Conduct(j) ==
  /\ Single(toE', "dispatch", j)
  /\ Offered(j)' => Offered(j) \/ (~Begun(j) /\ Begun(j)')
  /\ Taken(j)' => Taken(j) \/ (Offered(j) /\ ~Offered(j)')
  /\ Answered(j)' => Answered(j) \/ Taken(j)
  /\ Asked(j)' => Asked(j) \/ ~Begun(j)
  /\ j \in pleas' => j \in pleas \/ Timed(j)
  /\ Timed(j)' => Timed(j) \/ (Answered(j) /\ ~Asked(j)') \/ j \in pleas
  /\ awaiting'[j] # NoEntry /\ ~Timed(j)' => ~awaiting'[j].reminded
  /\ Due(j)' => Due(j) \/ Talking(j)'
  /\ Alive(j)' => Alive(j) \/ Offered(j)
  /\ Talking(j) /\ Due(j)' /\ Alive(j)' => Talking(j)'

LEMMA ConductKeepsHeard ==
  ASSUME Sane, Routed, Closed, Heard, \A j \in Job : Conduct(j) /\ (Begun(j) => Begun(j)')
  PROVE  Heard'
<1> SUFFICES ASSUME NEW j \in Job
             PROVE  /\ Single(toE', "dispatch", j)
                    /\ Offered(j)' => /\ Begun(j)' /\ ~Taken(j)' /\ j \notin pleas'
                                      /\ ~Timed(j)' /\ ~Answered(j)'
                    /\ Taken(j)' => Begun(j)'
                    /\ Asked(j)' => j \notin pleas' /\ ~Timed(j)'
                    /\ awaiting'[j] # NoEntry /\ ~Timed(j)' => ~awaiting'[j].reminded
                    /\ Due(j)' /\ Alive(j)' => Talking(j)'
  BY DEF Heard, Single
<1>1. Conduct(j) /\ (Begun(j) => Begun(j)')
  OBVIOUS
<1>2. /\ Offered(j) => Begun(j) /\ ~Taken(j) /\ j \notin pleas /\ ~Timed(j) /\ ~Answered(j)
      /\ Taken(j) => Begun(j)
      /\ Asked(j) => j \notin pleas /\ ~Timed(j)
      /\ Due(j) /\ Alive(j) => Talking(j)
  BY DEF Heard
<1>3. /\ j \in pleas => Begun(j)
      /\ Timed(j) => Begun(j)
      /\ Answered(j) => Asked(j)
      /\ Due(j) => Timed(j)
  BY DEF Closed, Timed, Due, Watched, Answered
<1>4. Asked(j) => Begun(j)
  <2>1. j[1] \in Dispatch /\ At(j) \in Executor /\ Nobody \notin Executor
    BY ForeignConstants DEF Job, At
  <2> QED BY <2>1 DEF Asked, Begun, Routed
<1>5. Offered(j)' => /\ Begun(j)' /\ ~Taken(j)' /\ j \notin pleas' /\ ~Timed(j)' /\ ~Answered(j)'
  BY <1>1, <1>2, <1>3, <1>4 DEF Conduct
<1>6. Taken(j)' => Begun(j)'
  BY <1>1, <1>2 DEF Conduct
<1>7. Asked(j)' => j \notin pleas' /\ ~Timed(j)'
  BY <1>1, <1>2, <1>3, <1>4 DEF Conduct
<1>8. Due(j)' /\ Alive(j)' => Talking(j)'
  BY <1>1, <1>2, <1>3 DEF Conduct
<1> QED BY <1>1, <1>5, <1>6, <1>7, <1>8 DEF Conduct

\* A step that promises, offers and starts nothing, and silences nobody.
LEMMA CalmConduct ==
  ASSUME Sane, Heard, NEW j \in Job,
         route'[j[1]].asked = Nobody
           \/ (route'[j[1]].asked = route[j[1]].asked /\ route'[j[1]].answer = route[j[1]].answer),
         awaiting'[j] \in {awaiting[j], NoEntry}, pleas' \subseteq pleas, Alive(j)' => Alive(j),
         Single(toE', "dispatch", j), Offered(j)' => Offered(j), Taken(j)' => Taken(j),
         Talking(j) /\ Due(j)' /\ Alive(j)' => Talking(j)'
  PROVE  Conduct(j)
<1>1. At(j) # Nobody
  BY MessageTypes, ForeignConstants
<1>2. (Asked(j)' => Asked(j)) /\ (Answered(j)' => Answered(j))
  BY <1>1 DEF Asked, Answered
<1>3. (Timed(j)' => Timed(j)) /\ (Due(j)' => Due(j))
  BY DEF Timed, Due, Watched
<1>4. awaiting'[j] # NoEntry /\ ~Timed(j)' => ~awaiting'[j].reminded
  BY DEF Timed, Heard
<1> QED BY <1>2, <1>3, <1>4 DEF Conduct

\* The wires as they are.
LEMMA WiresSame ==
  ASSUME Heard, UNCHANGED <<toE, toO>>, NEW j \in Job
  PROVE  /\ Single(toE', "dispatch", j)
         /\ (Offered(j)' <=> Offered(j)) /\ (Taken(j)' <=> Taken(j)) /\ (Talking(j)' <=> Talking(j))
BY DEF Heard, Offered, Taken, Talking, OnWire

LEMMA DispatchingConduct ==
  ASSUME Sane, Routed, Closed, Heard, NEW d \in Dispatch, NEW j \in Job,
         \/ BeginDispatch(d) \/ NoneLeft(d) \/ Resume(d) \/ AckTimeout(d)
         \/ \E e \in Executor : Ask(d, e)
  PROVE  Conduct(j)
<1>1. awaiting \in Promise /\ route \in [Dispatch -> Route] /\ j[1] \in Dispatch /\ j = <<j[1], At(j)>>
  BY DEF Sane, TypeOK, Promise, Job, At
<1>2. Nobody \notin Executor /\ At(j) \in Executor
  BY ForeignConstants, MessageTypes
<1>3. CASE BeginDispatch(d) \/ NoneLeft(d)
  <2>1. /\ route'[j[1]].asked = route[j[1]].asked /\ route'[j[1]].answer = route[j[1]].answer
    BY <1>1, <1>3 DEF BeginDispatch, NoneLeft, Route
  <2>2. UNCHANGED <<awaiting, pleas, exec, toE, toO>>
    BY <1>3 DEF BeginDispatch, NoneLeft
  <2>3. Alive(j)' <=> Alive(j)
    BY <2>2 DEF exec, Alive, Owes
  <2> QED BY <2>1, <2>2, <2>3, WiresSame, CalmConduct
<1>4. CASE Resume(d) \/ AckTimeout(d)
  <2>1. route[d].asked \in Executor
    BY <1>1, <1>4 DEF Resume, AckTimeout, Answers, Route, Sane, Asking
  <2> DEFINE i == <<d, route[d].asked>>
  <2>2. i \in Job /\ Asked(i) /\ At(i) = route[d].asked
    BY <2>1 DEF Job, Asked, At
  <2>3. PICK how \in {"asking", "spawned"} : route' = Ended(d, how)
    BY <1>4 DEF Resume, AckTimeout
  <2>4. /\ j[1] = d => route'[j[1]].asked = Nobody
        /\ j[1] # d => route'[j[1]] = route[j[1]]
    BY <1>1, <2>3 DEF Ended
  <2>5. UNCHANGED <<pleas, exec, toE, toO>>
    BY <1>4 DEF Resume, AckTimeout
  <2>6. Alive(j)' <=> Alive(j)
    BY <2>5 DEF exec, Alive, Owes
  <2>7. CASE awaiting'[j] \in {awaiting[j], NoEntry}
    BY <2>4, <2>5, <2>6, <2>7, WiresSame, CalmConduct
  <2>8. CASE awaiting'[j] \notin {awaiting[j], NoEntry}
    <3>1. MaybeArm(i, route[d].answer) /\ route[d].answer \in Answers /\ awaiting[i] # NoEntry
      <4>1. Forget(i) \/ (MaybeArm(i, route[d].answer) /\ route[d].answer \in Answers)
        BY <1>4 DEF Resume, AckTimeout
      <4>2. ~Forget(i)
        BY <1>1, <2>2, <2>8 DEF Forget, Promise
      <4> QED BY <2>8, <4>1, <4>2 DEF MaybeArm
    <3>2. awaiting' = [awaiting EXCEPT ![i].clock = "armed", ![i].pinned = link[At(i)].proved]
      BY <2>8, <3>1 DEF MaybeArm
    <3>3. j = i
      BY <1>1, <2>2, <2>8, <3>2 DEF Promise
    <3>4. awaiting[i] \in Entry /\ ~Timed(i)
      BY <1>1, <2>2, <3>1 DEF Promise, Heard
    <3>5. awaiting'[i].reminded = awaiting[i].reminded /\ ~awaiting[i].reminded
          /\ awaiting'[i].clock = "armed"
      BY <1>1, <2>2, <3>1, <3>2, <3>4 DEF Promise, Entry, Heard
    <3>6. ~Due(j)' /\ (awaiting'[j] # NoEntry => ~awaiting'[j].reminded)
      BY <3>3, <3>5 DEF Due
    <3>7. Answered(j) /\ ~Asked(j)'
      BY <1>2, <2>2, <2>4, <3>1, <3>3 DEF Answered, Asked
    <3>8. Answered(j)' => Asked(j)'
      BY DEF Answered
    <3> QED BY <2>5, <2>6, <3>6, <3>7, <3>8, WiresSame DEF Conduct
  <2> QED BY <2>7, <2>8
<1>5. ASSUME NEW e \in Executor, Ask(d, e) PROVE Conduct(j)
  <2>1. UNCHANGED <<pleas, exec, toO>> /\ e \in route[d].left /\ route[d].outcome = "asking"
        /\ route[d].asked = Nobody
    BY <1>5 DEF Ask
  <2>2. Alive(j)' <=> Alive(j)
    BY <2>1 DEF exec, Alive, Owes
  <2>3. CASE ~Up(e)
    <3>1. awaiting' = awaiting /\ toE' = toE /\ route' = [route EXCEPT ![d].left = @ \ {e}]
      BY <1>5, <2>3 DEF Ask
    <3>2. route'[j[1]].asked = route[j[1]].asked /\ route'[j[1]].answer = route[j[1]].answer
      BY <1>1, <3>1 DEF Route
    <3> QED BY <2>1, <2>2, <3>1, <3>2, WiresSame, CalmConduct
  <2>4. CASE Up(e)
    <3> DEFINE m == Msg("dispatch", <<d, e>>, "")
    <3>1. /\ awaiting' = [awaiting EXCEPT ![<<d, e>>] = Fresh] /\ toE' = Write(toE, e, m)
          /\ route' = [route EXCEPT ![d].asked = e, ![d].answer = "waiting", ![d].left = @ \ {e}]
      BY <1>5, <2>4 DEF Ask
    <3>2. <<d, e>> \in Job /\ At(<<d, e>>) = e /\ toE \in Wire
      BY DEF Job, At, Sane, TypeOK, Wire
    <3>3. m \in Message /\ \A t : Is(m, t, j) <=> t = "dispatch" /\ j = <<d, e>>
      BY <3>2 DEF Msg, Message, Is
    <3> HIDE DEF m
    <3>4. /\ OnWire(toE, "reminder", j) <=> OnWire(toE', "reminder", j)
          /\ Offered(j)' <=> Offered(j) \/ j = <<d, e>>
          /\ Single(toE, "dispatch", j) /\ ~(j = <<d, e>> /\ Offered(j)) => Single(toE', "dispatch", j)
      BY <2>4, <3>1, <3>2, <3>3, WireWrite DEF Offered
    <3>5. (Taken(j)' <=> Taken(j)) /\ (Talking(j)' <=> Talking(j))
      BY <2>1, <3>4 DEF Taken, Talking, OnWire
    <3>6. CASE j # <<d, e>>
      <4>1. awaiting'[j] = awaiting[j]
        BY <1>1, <3>1, <3>6 DEF Promise
      <4>2. CASE j[1] # d
        <5>1. route'[j[1]] = route[j[1]]
          BY <1>1, <3>1, <4>2
        <5>2. Single(toE', "dispatch", j)
          BY <3>4, <3>6 DEF Heard
        <5> QED BY <2>1, <2>2, <3>4, <3>5, <3>6, <4>1, <5>1, <5>2, CalmConduct
      <4>3. CASE j[1] = d
        <5>1. ~Asked(j)'
          <6>1. At(j) # e
            BY <1>1, <3>6, <4>3
          <6>2. route'[d].asked = e
            BY <1>1, <3>1 DEF Route
          <6> QED BY <4>3, <6>1, <6>2 DEF Asked
        <5>2. ~Answered(j)'
          BY <5>1 DEF Answered
        <5>3. (Timed(j)' <=> Timed(j)) /\ (Due(j)' <=> Due(j))
          BY <4>1 DEF Timed, Due, Watched
        <5>4. Single(toE', "dispatch", j)
          BY <3>4, <3>6 DEF Heard
        <5>5. awaiting'[j] # NoEntry /\ ~Timed(j)' => ~awaiting'[j].reminded
          BY <4>1, <5>3 DEF Heard
        <5> QED BY <2>1, <2>2, <3>4, <3>5, <3>6, <5>1, <5>2, <5>3, <5>4, <5>5 DEF Conduct
      <4> QED BY <4>2, <4>3
    <3>7. CASE j = <<d, e>>
      <4>1. route'[d].outcome = "asking" /\ route'[d].left = route[d].left \ {e}
            /\ route'[d].answer = "waiting"
        BY <1>1, <2>1, <3>1 DEF Route
      <4>2. ~Begun(j) /\ Begun(j)'
        BY <2>1, <3>7, <4>1 DEF Begun, At
      <4>3. ~Answered(j)'
        BY <3>7, <4>1 DEF Answered, Answers
      <4>4. awaiting'[j] = Fresh
        BY <1>1, <3>1, <3>2, <3>7 DEF Promise
      <4>5. ~Timed(j)' /\ ~Due(j)' /\ ~awaiting'[j].reminded
        BY <4>4 DEF Fresh, Timed, Due
      <4>6. Single(toE', "dispatch", j)
        BY <3>4, <4>2 DEF Heard
      <4> QED BY <2>1, <2>2, <3>4, <3>5, <4>2, <4>3, <4>5, <4>6 DEF Conduct
    <3> QED BY <3>6, <3>7
  <2> QED BY <2>3, <2>4
<1> QED BY <1>3, <1>4, <1>5

LEMMA ReadingConduct ==
  ASSUME Sane, Routed, Closed, Heard, NEW e \in Executor, NEW j \in Job,
         OnStatus(e) \/ OnResult(e) \/ OnProgress(e)
  PROVE  Conduct(j)
<1> DEFINE m == Head(toO[e])
<1>1. /\ toO[e] # <<>> /\ toO' = [toO EXCEPT ![e] = Tail(@)] /\ UNCHANGED exec
      /\ m \in ToOrigin(e) /\ m.job \in Job /\ At(m.job) = e /\ toO \in Wire /\ toE \in Wire
  <2>1. toO[e] # <<>> /\ toO' = [toO EXCEPT ![e] = Tail(@)] /\ UNCHANGED exec
    BY DEF OnStatus, OnResult, OnProgress, OriginReads
  <2>2. m \in ToOrigin(e)
    BY <2>1, ReadType
  <2> QED BY <2>1, <2>2 DEF ToOrigin, Message, Sane, TypeOK, Wire
<1>2. awaiting \in Promise /\ route \in [Dispatch -> Route] /\ j[1] \in Dispatch
  BY DEF Sane, TypeOK, Promise, Job
<1> HIDE DEF m
<1>3. Alive(j)' <=> Alive(j)
  BY <1>1 DEF exec, Alive, Owes
<1>4. /\ OnWire(toO', "status", j) => OnWire(toO, "status", j)
      /\ At(j) = e /\ Is(m, "status", j) => OnWire(toO, "status", j)
      /\ OnWire(toO, "result", j) => OnWire(toO', "result", j) \/ Is(m, "result", j)
      /\ OnWire(toO', "result", j) => OnWire(toO, "result", j)
      /\ OnWire(toO, "progress", j) => OnWire(toO', "progress", j) \/ Is(m, "progress", j)
      /\ OnWire(toO', "progress", j) => OnWire(toO, "progress", j)
  <2>1. toO[e] # <<>> /\ toO \in Wire /\ Head(toO[e]) = m
        /\ toO'[e] = Tail(toO[e]) /\ \A f \in Executor \ {e} : toO'[f] = toO[f]
    BY <1>1 DEF m, Wire
  <2> QED BY <2>1, WireRead
<1>5. CASE OnStatus(e)
  <2>1. UNCHANGED <<awaiting, pleas, toE>> /\ m.t = "status"
    BY <1>5 DEF OnStatus, OriginReads, m
  <2>2. Talking(j)' <=> Talking(j)
    BY <1>4, <2>1 DEF Talking, Is, OnWire
  <2>3. /\ Single(toE', "dispatch", j) /\ (Offered(j)' <=> Offered(j)) /\ (Taken(j)' => Taken(j))
    BY <1>4, <2>1 DEF Heard, Offered, Taken, OnWire
  <2>4. /\ route'[j[1]].asked = route[j[1]].asked
        /\ \/ route'[j[1]].answer = route[j[1]].answer
           \/ route[j[1]].asked = e /\ m.job[1] = j[1]
    BY <1>2, <1>5 DEF OnStatus, Route, m
  <2>5. CASE route'[j[1]].answer = route[j[1]].answer
    BY <1>3, <2>1, <2>2, <2>3, <2>4, <2>5, CalmConduct
  <2>6. CASE route[j[1]].asked = e /\ m.job[1] = j[1]
    <3>1. Asked(j)' <=> Asked(j)
      BY <2>4 DEF Asked
    <3>2. Answered(j)' => Taken(j)
      <4>1. SUFFICES ASSUME Asked(j) PROVE Taken(j)
        BY <3>1 DEF Answered
      <4>2. At(j) = e
        BY <2>6, <4>1 DEF Asked
      <4>3. j = m.job
        BY <1>1, <2>6, <4>2 DEF Job, At
      <4>4. Is(m, "status", j)
        BY <2>1, <4>3 DEF Is
      <4> QED BY <1>4, <4>2, <4>4 DEF Taken
    <3>3. (Timed(j)' <=> Timed(j)) /\ (Due(j)' <=> Due(j))
          /\ (awaiting'[j] # NoEntry /\ ~Timed(j)' => ~awaiting'[j].reminded)
      BY <2>1 DEF Timed, Due, Watched, Heard
    <3> QED BY <1>3, <2>1, <2>2, <2>3, <3>1, <3>2, <3>3 DEF Conduct
  <2> QED BY <2>4, <2>5, <2>6
<1>6. CASE OnResult(e)
  <2>1. UNCHANGED <<route, pleas>> /\ m.t = "result"
    BY <1>6 DEF OnResult, OriginReads, m
  <2>2. toE' = toE \/ toE' = Write(toE, e, Msg("ack", m.job, ""))
    BY <1>6 DEF OnResult, m
  <2>3. /\ OnWire(toE', "dispatch", j) <=> OnWire(toE, "dispatch", j)
        /\ OnWire(toE', "reminder", j) <=> OnWire(toE, "reminder", j)
        /\ Single(toE', "dispatch", j)
    <3>1. CASE toE' = toE
      BY <3>1 DEF OnWire, Heard
    <3>2. CASE toE' = Write(toE, e, Msg("ack", m.job, ""))
      <4>1. Msg("ack", m.job, "") \in Message /\ \A t : Is(Msg("ack", m.job, ""), t, j) => t = "ack"
        BY <1>1 DEF Msg, Message, Is
      <4>2. Single(toE, "dispatch", j)
        BY DEF Heard
      <4>3. /\ OnWire(toE', "dispatch", j) <=> OnWire(toE, "dispatch", j)
            /\ OnWire(toE', "reminder", j) <=> OnWire(toE, "reminder", j)
            /\ Single(toE, "dispatch", j) => Single(toE', "dispatch", j)
        <5> DEFINE x == Msg("ack", m.job, "")
        <5>1. toE \in Wire /\ toE' = Write(toE, e, x) /\ x \in Message /\ ~Is(x, "dispatch", j)
              /\ ~Is(x, "reminder", j)
          BY <1>1, <3>2, <4>1
        <5> HIDE DEF x
        <5> QED BY <5>1, WireWrite
      <4> QED BY <4>2, <4>3
    <3> QED BY <2>2, <3>1, <3>2
  <2>4. awaiting'[j] \in {awaiting[j], NoEntry} /\ (j = m.job => awaiting'[j] = NoEntry)
    <3>1. CASE awaiting[m.job] = NoEntry
      BY <1>6, <3>1 DEF OnResult, m
    <3>2. CASE awaiting[m.job] # NoEntry
      <4>1. \/ BanExecutor(e, awaiting[m.job], Pop(m.job))
            \/ awaiting' = Pop(m.job)
        BY <1>6, <3>2 DEF OnResult, m
      <4>2. Pop(m.job) \in Promise /\ Pop(m.job)[m.job] = NoEntry
            /\ \A k \in Job \ {m.job} : Pop(m.job)[k] = awaiting[k]
        BY <1>1, PopType
      <4>3. \A k \in Job : awaiting'[k] \in {Pop(m.job)[k], NoEntry}
        BY <4>1, <4>2, BanType
      <4> QED BY <1>1, <4>2, <4>3
    <3> QED BY <3>1, <3>2
  <2>5. Talking(j) /\ Due(j)' /\ Alive(j)' => Talking(j)'
    <3>1. CASE j = m.job
      BY <2>4, <3>1 DEF Due, Watched
    <3>2. CASE j # m.job
      BY <1>4, <2>3, <3>2 DEF Talking, Is
    <3> QED BY <3>1, <3>2
  <2> QED BY <1>3, <1>4, <2>1, <2>3, <2>4, <2>5, CalmConduct DEF Offered, Taken
<1>7. CASE OnProgress(e)
  <2>1. UNCHANGED <<route, toE>> /\ m.t = "progress"
    BY <1>7 DEF OnProgress, OriginReads, m
  <2>2. /\ Single(toE', "dispatch", j) /\ (Offered(j)' <=> Offered(j)) /\ (Taken(j)' => Taken(j))
    BY <1>4, <2>1 DEF Heard, Offered, Taken, OnWire
  <2>3. (Asked(j)' <=> Asked(j)) /\ (Answered(j)' <=> Answered(j))
    BY <2>1 DEF Asked, Answered
  <2>4. j # m.job => (Talking(j) => Talking(j)')
    BY <1>4, <2>1 DEF Talking, Is, OnWire
  <2>5. CASE ~(Watched(m.job) /\ awaiting[m.job].reminded)
    <3>1. UNCHANGED <<awaiting, pleas>>
      BY <1>7, <2>5 DEF OnProgress, m
    <3>2. j = m.job => ~Due(j)'
      BY <2>5, <3>1 DEF Due, Watched
    <3> QED BY <1>3, <2>1, <2>2, <2>4, <3>1, <3>2, CalmConduct
  <2>6. CASE Watched(m.job) /\ awaiting[m.job].reminded
    <3>1. awaiting' = [awaiting EXCEPT ![m.job].deciding = TRUE] /\ pleas' = pleas \cup {m.job}
      BY <1>7, <2>6 DEF OnProgress, m
    <3>2. CASE j # m.job
      <4>1. awaiting'[j] = awaiting[j] /\ (j \in pleas' <=> j \in pleas)
        BY <1>2, <3>1, <3>2 DEF Promise
      <4>2. (Timed(j)' <=> Timed(j)) /\ (Due(j)' <=> Due(j))
            /\ (awaiting'[j] # NoEntry /\ ~Timed(j)' => ~awaiting'[j].reminded)
        BY <4>1 DEF Timed, Due, Watched, Heard
      <4> QED BY <1>3, <2>2, <2>3, <2>4, <3>2, <4>1, <4>2 DEF Conduct
    <3>3. CASE j = m.job
      <4>1. awaiting[j] \in Entry /\ Timed(j)
        BY <1>2, <2>6, <3>3 DEF Promise, Watched, Timed
      <4>2. awaiting'[j].deciding /\ awaiting'[j].clock = "armed"
        BY <1>1, <1>2, <2>6, <3>1, <3>3, <4>1 DEF Promise, Entry, Watched
      <4>3. ~Due(j)' /\ (awaiting'[j] # NoEntry => Timed(j)')
        BY <4>2 DEF Due, Watched, Timed
      <4> QED BY <1>3, <2>2, <2>3, <4>1, <4>3 DEF Conduct
    <3> QED BY <3>2, <3>3
  <2> QED BY <2>5, <2>6
<1> QED BY <1>5, <1>6, <1>7

LEMMA JudgingConduct ==
  ASSUME Sane, Routed, Closed, Heard, NEW i \in Job, NEW j \in Job,
         Disarm(i) \/ Remind(i) \/ BanSilent(i) \/ Decide(i) \/ ReapAwaiting(i) \/ ReapActed(i)
  PROVE  Conduct(j)
<1>1. awaiting \in Promise /\ At(i) \in Executor /\ toE \in Wire
  BY MessageTypes DEF Sane, TypeOK, Promise, Wire
<1>2. UNCHANGED <<route, exec, toO>> /\ pleas' \subseteq pleas
  BY DEF Disarm, Remind, BanSilent, Decide, ReapAwaiting, ReapActed
<1>3. (Alive(j)' <=> Alive(j)) /\ (Asked(j)' <=> Asked(j)) /\ (Answered(j)' <=> Answered(j))
  BY <1>2 DEF exec, Alive, Owes, Asked, Answered
<1>4. ASSUME UNCHANGED toE, awaiting'[j] \in {awaiting[j], NoEntry} PROVE Conduct(j)
  BY <1>2, <1>3, <1>4, WiresSame, CalmConduct
<1>5. ASSUME BanExecutor(At(i), awaiting[i], Pop(i)) \/ awaiting' = Pop(i)
      PROVE  awaiting'[j] \in {awaiting[j], NoEntry}
  <2>1. Pop(i) \in Promise /\ Pop(i)[i] = NoEntry /\ \A k \in Job \ {i} : Pop(i)[k] = awaiting[k]
    BY PopType
  <2>2. awaiting'[j] \in {Pop(i)[j], NoEntry}
    BY <1>1, <1>5, <2>1, BanType
  <2> QED BY <2>1, <2>2
<1>6. CASE BanSilent(i) \/ ReapAwaiting(i) \/ ReapActed(i)
  <2>1. UNCHANGED toE /\ \/ BanExecutor(At(i), awaiting[i], Pop(i))
                         \/ awaiting' = Pop(i) \/ awaiting' = awaiting
    BY <1>6 DEF BanSilent, ReapAwaiting, ReapActed
  <2> QED BY <1>4, <1>5, <2>1
<1>7. CASE Disarm(i)
  <2>1. awaiting' = [awaiting EXCEPT ![i].clock = "disarmed"] /\ UNCHANGED toE /\ Watched(i)
    BY <1>7 DEF Disarm
  <2>2. CASE j # i
    BY <1>1, <1>4, <2>1, <2>2 DEF Promise
  <2>3. CASE j = i
    <3>1. awaiting[j] \in Entry /\ Timed(j)
      BY <1>1, <2>1, <2>3 DEF Promise, Watched, Timed
    <3>2. awaiting'[j].clock = "disarmed"
      BY <1>1, <2>1, <2>3, <3>1 DEF Promise, Entry
    <3>3. ~Due(j)' /\ (awaiting'[j] # NoEntry => Timed(j)')
      BY <3>2 DEF Due, Watched, Timed
    <3> QED BY <1>2, <1>3, <2>1, <3>1, <3>3, WiresSame DEF Conduct
  <2> QED BY <2>2, <2>3
<1>8. CASE Remind(i)
  <2> DEFINE m == Msg("reminder", i, "")
  <2>1. /\ awaiting' = [awaiting EXCEPT ![i].reminded = TRUE, ![i].asked = Up(At(i))]
        /\ toE' = Write(toE, At(i), m) /\ Watched(i)
    BY <1>8 DEF Remind
  <2>2. m \in Message /\ \A t : Is(m, t, j) <=> t = "reminder" /\ i = j
    BY DEF Msg, Message, Is
  <2> HIDE DEF m
  <2>3. /\ Offered(j)' <=> Offered(j)
        /\ Single(toE', "dispatch", j)
        /\ OnWire(toE', "reminder", j) <=> OnWire(toE, "reminder", j) \/ (Up(At(i)) /\ i = j)
    <3>1. Single(toE, "dispatch", j)
      BY DEF Heard
    <3> QED BY <1>1, <2>1, <2>2, <3>1, WireWrite DEF Offered
  <2>4. (Taken(j)' <=> Taken(j)) /\ (Talking(j) => Talking(j)')
    BY <1>2, <2>3 DEF Taken, Talking, OnWire
  <2>5. CASE j # i
    <3>1. awaiting'[j] = awaiting[j]
      BY <1>1, <2>1, <2>5 DEF Promise
    <3> QED BY <1>2, <1>3, <2>3, <2>4, <3>1, CalmConduct
  <2>6. CASE j = i
    <3>1. awaiting[j] \in Entry /\ Timed(j) /\ awaiting[j].clock = "armed"
      BY <1>1, <2>1, <2>6 DEF Promise, Watched, Timed
    <3>2. awaiting'[j].clock = "armed" /\ awaiting'[j].asked = Up(At(i))
      BY <1>1, <2>1, <2>6, <3>1 DEF Promise, Entry
    <3>3. awaiting'[j] # NoEntry => Timed(j)'
      BY <3>2 DEF Timed
    <3>4. Due(j)' => Talking(j)'
      BY <2>3, <2>6, <3>2 DEF Due, Talking
    <3> QED BY <1>2, <1>3, <2>3, <2>4, <3>1, <3>3, <3>4 DEF Conduct
  <2> QED BY <2>5, <2>6
<1>9. CASE Decide(i)
  <2>1. UNCHANGED toE /\ i \in pleas
    BY <1>9 DEF Decide
  <2>2. CASE awaiting' = awaiting \/ BanExecutor(At(i), awaiting[i], Pop(i))
    BY <1>4, <1>5, <2>1, <2>2
  <2>3. CASE awaiting[i] # NoEntry /\ awaiting' = [awaiting EXCEPT ![i] = Extended(@)]
    <3>1. CASE j # i
      BY <1>1, <1>4, <2>1, <2>3, <3>1 DEF Promise
    <3>2. CASE j = i
      <4>1. awaiting[j] \in Entry /\ awaiting'[j] = Extended(awaiting[j])
        BY <1>1, <2>3, <3>2 DEF Promise
      <4>2. awaiting'[j].clock = "armed" /\ ~awaiting'[j].reminded
        BY <4>1 DEF Extended, Entry
      <4>3. ~Due(j)'
        BY <4>2 DEF Due
      <4> QED BY <1>2, <1>3, <2>1, <3>2, <4>2, <4>3, WiresSame DEF Conduct
    <3> QED BY <3>1, <3>2
  <2> QED BY <1>9, <2>2, <2>3 DEF Decide
<1> QED BY <1>6, <1>7, <1>8, <1>9

\* What is owed is what the entries of the outbox are about.
LEMMA OwesIn ==
  ASSUME NEW e, NEW j PROVE Owes(e, j) <=> \E o \in In(outbox[e]) : o.job = j
BY DEF Owes, In

LEMMA ServingConduct ==
  ASSUME Sane, Routed, Closed, Heard, NEW e \in Executor, NEW j \in Job,
         TakeJob(e) \/ OnAck(e) \/ OnReminder(e)
  PROVE  Conduct(j)
<1> DEFINE m == Head(toE[e])
<1>1. /\ toE[e] # <<>> /\ toE' = [toE EXCEPT ![e] = Tail(@)] /\ Up(e)
      /\ UNCHANGED <<route, awaiting, pleas>>
      /\ m \in ToExecutor(e) /\ m.job \in Job /\ At(m.job) = e /\ toO \in Wire /\ toE \in Wire
  <2>1. toE[e] # <<>> /\ toE' = [toE EXCEPT ![e] = Tail(@)] /\ Up(e)
        /\ UNCHANGED <<route, awaiting, pleas>>
    BY DEF TakeJob, OnAck, OnReminder, ExecReads, origin
  <2>2. m \in ToExecutor(e)
    BY <2>1, ReadType
  <2> QED BY <2>1, <2>2 DEF ToExecutor, Message, Sane, TypeOK, Wire
<1> HIDE DEF m
<1>2. /\ OnWire(toE', "dispatch", j) => OnWire(toE, "dispatch", j)
      /\ At(j) = e /\ Is(m, "dispatch", j) => OnWire(toE, "dispatch", j)
      /\ OnWire(toE, "reminder", j) => OnWire(toE', "reminder", j) \/ (At(j) = e /\ Is(m, "reminder", j))
      /\ Single(toE', "dispatch", j)
      /\ At(j) = e /\ Is(m, "dispatch", j) => ~OnWire(toE', "dispatch", j)
  <2>1. toE[e] # <<>> /\ toE \in Wire /\ Head(toE[e]) = m
        /\ toE'[e] = Tail(toE[e]) /\ \A f \in Executor \ {e} : toE'[f] = toE[f]
    BY <1>1 DEF m, Wire
  <2>2. Single(toE, "dispatch", j)
    BY DEF Heard
  <2> QED BY <2>1, <2>2, WireRead
<1>3. /\ Asked(j)' <=> Asked(j)
      /\ Answered(j)' <=> Answered(j)
      /\ Timed(j)' <=> Timed(j)
      /\ Due(j)' <=> Due(j)
      /\ awaiting'[j] # NoEntry /\ ~Timed(j)' => ~awaiting'[j].reminded
  BY <1>1 DEF Asked, Answered, Timed, Due, Watched, Heard
<1>4. CASE TakeJob(e)
  <2>1. PICK a \in Answers : toO' = Write(toO, e, Msg("status", m.job, a))
    BY <1>4 DEF TakeJob, Answers, m
  <2> DEFINE x == Msg("status", m.job, a)
  <2>2. x \in Message /\ \A t : Is(x, t, j) <=> t = "status" /\ j = m.job
    BY <1>1 DEF Msg, Message, Is, Answers
  <2>3. toO' = Write(toO, e, x)
    BY <2>1
  <2> HIDE DEF x
  <2>4. /\ OnWire(toO', "status", j) <=> OnWire(toO, "status", j) \/ (Up(e) /\ At(j) = e /\ j = m.job)
        /\ OnWire(toO', "result", j) <=> OnWire(toO, "result", j)
        /\ OnWire(toO', "progress", j) <=> OnWire(toO, "progress", j)
    BY <1>1, <2>2, <2>3, WireWrite
  <2>5. m.t = "dispatch"
    BY <1>4 DEF TakeJob, ExecReads, m
  <2>6. Talking(j) => Talking(j)'
    BY <1>2, <2>4, <2>5 DEF Talking, Is
  <2>7. Taken(j)' => Taken(j) \/ (Offered(j) /\ ~Offered(j)')
    BY <1>2, <2>4, <2>5 DEF Taken, Offered, Is
  <2>8. Alive(j)' => Alive(j) \/ Offered(j)
    <3>1. outbox' = outbox /\ running' \subseteq running \cup {m.job}
      BY <1>4 DEF TakeJob, OnHost, RunConfined, Sandboxed, m
    <3>2. j = m.job => Offered(j)
      BY <1>1, <1>2, <2>5 DEF Is, Offered
    <3> QED BY <3>1, <3>2 DEF Alive, Owes
  <2> QED BY <1>1, <1>2, <1>3, <2>6, <2>7, <2>8 DEF Conduct, Offered
<1>5. CASE OnAck(e)
  <2>1. m.t = "ack" /\ UNCHANGED <<running, toO>>
    BY <1>5 DEF OnAck, ExecReads, m
  <2>2. outbox[e] \in Seq(Debt(e)) /\ outbox \in [Executor -> Seq(Owed)]
    BY DEF Sane, TypeOK, Addressed
  <2>3. Owes(At(j), j)' => Owes(At(j), j)
    <3>1. outbox' = [outbox EXCEPT ![e] = Without(outbox[e], m.job)]
      BY <1>5 DEF OnAck, m
    <3>2. CASE At(j) # e
      BY <2>2, <3>1, <3>2 DEF Owes
    <3>3. CASE At(j) = e
      <4>1. In(outbox'[e]) \subseteq In(outbox[e])
        BY <2>2, <3>1, OutboxTypes
      <4> QED BY <3>3, <4>1 DEF Owes, In
    <3> QED BY <3>2, <3>3
  <2>4. Talking(j) => Talking(j)'
    BY <1>2, <2>1 DEF Talking, Is, OnWire
  <2>5. Taken(j)' <=> Taken(j)
    BY <2>1 DEF Taken, OnWire
  <2> QED BY <1>1, <1>2, <1>3, <2>1, <2>3, <2>4, <2>5 DEF Conduct, Offered, Alive
<1>6. CASE OnReminder(e)
  <2>1. m.t = "reminder" /\ UNCHANGED running
    BY <1>6 DEF OnReminder, ExecReads, m
  <2>2. outbox \in [Executor -> Seq(Owed)] /\ outbox' = [outbox EXCEPT ![e] = Revived(outbox[e], m.job)]
    BY <1>6 DEF OnReminder, m, Sane, TypeOK
  <2>3. Owes(At(j), j)' <=> Owes(At(j), j)
    <3>1. CASE At(j) # e
      BY <2>2, <3>1 DEF Owes
    <3>2. CASE At(j) = e
      <4>1. outbox'[e] = Revived(outbox[e], m.job)
        BY <2>2
      <4>2. DOMAIN outbox'[e] = DOMAIN outbox[e]
            /\ \A n \in DOMAIN outbox[e] : outbox'[e][n].job = outbox[e][n].job
        <5>1. outbox[e] \in Seq(Owed)
          BY <2>2
        <5>2. ASSUME NEW n \in DOMAIN outbox[e] PROVE outbox[e][n] \in Owed
          BY <5>1
        <5> QED BY <4>1, <5>2 DEF Revived, Owed
      <4> QED BY <3>2, <4>2 DEF Owes
    <3> QED BY <3>1, <3>2
  <2>4. (Alive(j)' <=> Alive(j)) /\ (Owes(e, m.job) \/ m.job \in running <=> Alive(m.job))
    BY <1>1, <2>1, <2>3 DEF Alive
  <2>5. toO' = toO \/ \E x \in AnswerOf(e, m.job) : toO' = Write(toO, e, x)
    BY <1>6 DEF OnReminder, m
  <2>6. ASSUME NEW x \in AnswerOf(e, m.job)
        PROVE  x \in Message /\ x.job = m.job /\ x.t \in {"result", "progress"}
    <3>1. ASSUME NEW i \in DOMAIN outbox[e] PROVE outbox[e][i].ok \in BOOLEAN
      <4>1. outbox[e] \in Seq(Owed)
        BY <2>2
      <4>2. outbox[e][i] \in Owed
        BY <4>1
      <4> QED BY <4>2 DEF Owed
    <3>2. Msg("progress", m.job, "") \in Message /\ \A ok \in BOOLEAN : Result(m.job, ok) \in Message
      BY <1>1, MessageTypes DEF ToOrigin
    <3>3. (\E ok \in BOOLEAN : x = Result(m.job, ok)) \/ x = Msg("progress", m.job, "")
      BY <2>6, <3>1 DEF AnswerOf
    <3>4. /\ \A ok \in BOOLEAN : Result(m.job, ok).job = m.job /\ Result(m.job, ok).t = "result"
          /\ Msg("progress", m.job, "").job = m.job /\ Msg("progress", m.job, "").t = "progress"
      BY DEF Msg, Result
    <3> QED BY <3>2, <3>3, <3>4
  <2>7. /\ OnWire(toO, "result", j) => OnWire(toO', "result", j)
        /\ OnWire(toO, "progress", j) => OnWire(toO', "progress", j)
        /\ OnWire(toO', "status", j) => OnWire(toO, "status", j)
    <3>1. CASE toO' = toO
      BY <3>1 DEF OnWire
    <3>2. ASSUME NEW x \in AnswerOf(e, m.job), toO' = Write(toO, e, x)
          PROVE  /\ OnWire(toO, "result", j) => OnWire(toO', "result", j)
                 /\ OnWire(toO, "progress", j) => OnWire(toO', "progress", j)
                 /\ OnWire(toO', "status", j) => OnWire(toO, "status", j)
      <4>1. x \in Message /\ ~Is(x, "status", j)
        BY <2>6 DEF Is
      <4> QED BY <1>1, <3>2, <4>1, WireWrite
    <3> QED BY <2>5, <3>1, <3>2
  <2>8. Talking(j) /\ Alive(j)' => Talking(j)'
    <3>1. CASE ~(At(j) = e /\ Is(m, "reminder", j))
      BY <1>2, <2>7, <3>1 DEF Talking
    <3>2. CASE At(j) = e /\ Is(m, "reminder", j)
      <4>1. SUFFICES ASSUME Alive(j) PROVE Talking(j)'
        BY <2>4
      <4>2. j = m.job
        BY <3>2 DEF Is
      <4>3. AnswerOf(e, m.job) # {}
        BY <2>4, <4>1, <4>2 DEF AnswerOf, Owes
      <4>4. PICK x \in AnswerOf(e, m.job) : toO' = Write(toO, e, x)
        BY <1>6, <4>3 DEF OnReminder, m
      <4>5. x \in Message /\ (Is(x, "result", j) \/ Is(x, "progress", j))
        BY <2>6, <4>2 DEF Is
      <4>6. OnWire(toO', "result", j) \/ OnWire(toO', "progress", j)
        BY <1>1, <3>2, <4>4, <4>5, WireWrite
      <4> QED BY <4>6 DEF Talking
    <3> QED BY <3>1, <3>2
  <2> QED BY <1>1, <1>2, <1>3, <2>4, <2>7, <2>8 DEF Conduct, Offered, Taken
<1> QED BY <1>4, <1>5, <1>6

LEMMA KeepingConduct ==
  ASSUME Sane, Routed, Closed, Heard, NEW e \in Executor, NEW j \in Job,
         \/ \E k \in Key : HostDone(e, k)
         \/ \E i \in Nat : Resend(e, i) \/ GiveUp(e, i) \/ ExpireTomb(e, i)
         \/ \E i \in Job, ok \in BOOLEAN : Compute(i, ok)
  PROVE  Conduct(j)
<1>1. UNCHANGED <<route, awaiting, pleas, toE>> /\ running' \subseteq running
  BY DEF HostDone, Resend, GiveUp, ExpireTomb, Compute, origin, exec
<1>2. outbox \in [Executor -> Seq(Owed)] /\ toO \in Wire /\ \A f \in Executor : outbox[f] \in Seq(Debt(f))
  BY DEF Sane, TypeOK, Addressed, Wire
<1>3. Alive(j)' => Alive(j)
  <2>1. CASE outbox' = outbox
    BY <1>1, <2>1 DEF Alive, Owes
  <2>2. ASSUME NEW box, outbox' = [outbox EXCEPT ![e] = box],
               \A o \in In(box) : \E n \in DOMAIN outbox[e] : outbox[e][n].job = o.job
        PROVE  Alive(j)' => Alive(j)
    <3>1. At(j) # e => outbox'[At(j)] = outbox[At(j)]
      BY <1>2, <2>2, MessageTypes
    <3>2. outbox'[e] = box
      BY <1>2, <2>2
    <3>3. ASSUME At(j) = e, Owes(e, j)' PROVE Owes(e, j)
      <4>1. PICK n \in DOMAIN box : box[n].job = j
        BY <3>2, <3>3 DEF Owes
      <4> QED BY <2>2, <4>1 DEF Owes, In
    <3>4. Owes(At(j), j)' => Owes(At(j), j)
      BY <3>1, <3>3 DEF Owes
    <3> QED BY <1>1, <3>4 DEF Alive
  <2>3. ASSUME NEW i \in Nat, GiveUp(e, i) PROVE Alive(j)' => Alive(j)
    <3> DEFINE b == [outbox[e] EXCEPT ![i].gaveUp = TRUE]
    <3>1. outbox' = [outbox EXCEPT ![e] = Buried(b)] /\ i \in DOMAIN outbox[e]
      BY <2>3 DEF GiveUp
    <3>2. b \in Seq(Debt(e)) /\ In(Buried(b)) \subseteq In(b)
      <4>1. b \in Seq(Debt(e))
        BY <1>2, <3>1, OutboxTypes
      <4> HIDE DEF b
      <4> QED BY <4>1, OutboxTypes
    <3>3. DOMAIN b = DOMAIN outbox[e] /\ \A n \in DOMAIN outbox[e] : b[n].job = outbox[e][n].job
      <4>1. ASSUME NEW n \in DOMAIN outbox[e] PROVE outbox[e][n] \in Owed
        BY <1>2
      <4> QED BY <3>1, <4>1 DEF Owed
    <3> HIDE DEF b
    <3>4. \A o \in In(Buried(b)) : \E n \in DOMAIN outbox[e] : outbox[e][n].job = o.job
      BY <3>2, <3>3 DEF In
    <3> QED BY <2>2, <3>1, <3>4
  <2>4. ASSUME NEW i \in Nat, ExpireTomb(e, i) PROVE Alive(j)' => Alive(j)
    <3> DEFINE b == Without(outbox[e], outbox[e][i].job)
    <3>1. outbox' = [outbox EXCEPT ![e] = b]
      BY <2>4 DEF ExpireTomb
    <3>2. In(b) \subseteq In(outbox[e])
      BY <1>2, OutboxTypes
    <3> HIDE DEF b
    <3>3. \A o \in In(b) : \E n \in DOMAIN outbox[e] : outbox[e][n].job = o.job
      BY <3>2 DEF In
    <3> QED BY <2>2, <3>1, <3>3
  <2>5. ASSUME NEW i \in Job, NEW ok \in BOOLEAN, Compute(i, ok) PROVE Alive(j)' => Alive(j)
    <3> DEFINE o == [job |-> i, ok |-> ok, gaveUp |-> FALSE]
    <3>1. outbox' = [outbox EXCEPT ![At(i)] = Append(outbox[At(i)], o)] /\ i \in running
          /\ At(i) \in Executor
      BY <2>5, MessageTypes DEF Compute
    <3>2. At(j) # At(i) => outbox'[At(j)] = outbox[At(j)]
      BY <1>2, <3>1, MessageTypes
    <3>3. ASSUME At(j) = At(i), Owes(At(j), j)' PROVE Owes(At(j), j) \/ j = i
      <4>1. outbox'[At(j)] = Append(outbox[At(j)], o) /\ outbox[At(j)] \in Seq(Owed)
        BY <1>2, <3>1, <3>3
      <4>2. PICK n \in DOMAIN Append(outbox[At(j)], o) : Append(outbox[At(j)], o)[n].job = j
        BY <3>3, <4>1 DEF Owes
      <4>3. \/ n \in DOMAIN outbox[At(j)] /\ Append(outbox[At(j)], o)[n] = outbox[At(j)][n]
            \/ Append(outbox[At(j)], o)[n] = o
        BY <4>1, <4>2
      <4> QED BY <4>2, <4>3 DEF Owes
    <3>4. Owes(At(j), j)' => Owes(At(j), j) \/ j = i
      BY <3>2, <3>3 DEF Owes
    <3> QED BY <1>1, <3>1, <3>4 DEF Alive
  <2> QED BY <2>1, <2>3, <2>4, <2>5 DEF HostDone, Resend, exec
<1>4. /\ OnWire(toO, "result", j) => OnWire(toO', "result", j)
      /\ OnWire(toO, "progress", j) => OnWire(toO', "progress", j)
      /\ OnWire(toO', "status", j) => OnWire(toO, "status", j)
  <2>1. CASE toO' = toO
    BY <2>1 DEF OnWire
  <2>2. ASSUME NEW f \in Executor, NEW i \in Job, NEW ok \in BOOLEAN, toO' = Write(toO, f, Result(i, ok))
        PROVE  /\ OnWire(toO, "result", j) => OnWire(toO', "result", j)
               /\ OnWire(toO, "progress", j) => OnWire(toO', "progress", j)
               /\ OnWire(toO', "status", j) => OnWire(toO, "status", j)
    <3> DEFINE x == Result(i, ok)
    <3>1. x \in Message /\ ~Is(x, "status", j)
      BY DEF Result, Msg, Message, Is
    <3>2. toO' = Write(toO, f, x)
      BY <2>2
    <3> HIDE DEF x
    <3> QED BY <1>2, <3>1, <3>2, WireWrite
  <2>3. ASSUME NEW i \in Nat, Resend(e, i)
        PROVE  \E n \in Job, ok \in BOOLEAN : toO' = Write(toO, e, Result(n, ok))
    <3>1. i \in DOMAIN outbox[e] /\ toO' = Write(toO, e, Result(outbox[e][i].job, outbox[e][i].ok))
      BY <2>3 DEF Resend
    <3>2. outbox[e][i] \in Owed
      BY <1>2, <3>1
    <3> QED BY <3>1, <3>2 DEF Owed
  <2>4. \/ toO' = toO
        \/ \E n \in Job, ok \in BOOLEAN : toO' = Write(toO, e, Result(n, ok))
        \/ \E n \in Job, ok \in BOOLEAN : toO' = Write(toO, At(n), Result(n, ok))
    BY <2>3 DEF HostDone, GiveUp, ExpireTomb, Compute
  <2> QED BY <2>1, <2>2, <2>4, MessageTypes
<1>5. /\ Single(toE', "dispatch", j) /\ (Offered(j)' <=> Offered(j)) /\ (Taken(j)' => Taken(j))
      /\ (Talking(j) => Talking(j)')
  BY <1>1, <1>4 DEF Heard, Offered, Taken, Talking, OnWire
<1> QED BY <1>1, <1>3, <1>5, CalmConduct

LEMMA LinkingConduct ==
  ASSUME Sane, Routed, Closed, Heard, NEW j \in Job, Linking
  PROVE  Conduct(j)
<1>1. At(j) \in Executor /\ j[1] \in Dispatch /\ Nobody \notin Executor
  BY ForeignConstants DEF Job, At
<1>2. CASE CrashOrigin
  <2>1. toE'[At(j)] = <<>> /\ toO'[At(j)] = <<>> /\ awaiting'[j] = NoEntry
        /\ route'[j[1]].asked = Nobody /\ pleas' \subseteq pleas /\ UNCHANGED exec
    BY <1>1, <1>2 DEF CrashOrigin
  <2>2. DOMAIN toE'[At(j)] = {} /\ DOMAIN toO'[At(j)] = {}
    BY <2>1
  <2>3. ~Offered(j)' /\ ~Taken(j)' /\ Single(toE', "dispatch", j)
    BY <2>2 DEF Offered, Taken, OnWire, Single
  <2>4. ~Due(j)' /\ (Alive(j)' => Alive(j))
    BY <2>1 DEF Due, Watched, Alive, Owes, exec
  <2> QED BY <2>1, <2>3, <2>4, CalmConduct
<1>3. ASSUME NEW e \in Executor, ReapPeer(e) \/ Connect(e) \/ Prove(e) \/ Grow(e) PROVE Conduct(j)
  <2>1. UNCHANGED <<origin, exec, toE, toO>>
    BY <1>3 DEF ReapPeer, Connect, Prove, Grow
  <2>2. Alive(j)' <=> Alive(j)
    BY <2>1 DEF Alive, Owes, exec
  <2> QED BY <2>1, <2>2, WiresSame, CalmConduct DEF origin
<1>4. ASSUME NEW e \in Executor, Drop(e) \/ CrashExecutor(e) PROVE Conduct(j)
  <2>1. Cut(e) /\ awaiting' = Unasked({e}) /\ UNCHANGED <<route, pleas>>
    BY <1>4 DEF Drop, CrashExecutor
  <2>2. toE \in Wire /\ toO \in Wire /\ awaiting \in Promise /\ outbox \in [Executor -> Seq(Owed)]
    BY DEF Sane, TypeOK, Wire, Promise
  <2>3. Alive(j)' => Alive(j)
    <3>1. CASE UNCHANGED exec
      BY <3>1 DEF Alive, Owes, exec
    <3>2. CASE CrashExecutor(e)
      <4>1. running' \subseteq running /\ outbox' = [outbox EXCEPT ![e] = <<>>]
        BY <3>2 DEF CrashExecutor
      <4>2. outbox'[At(j)] = outbox[At(j)] \/ outbox'[At(j)] = <<>>
        BY <1>1, <2>2, <4>1
      <4> QED BY <4>1, <4>2 DEF Alive, Owes
    <3> QED BY <1>4, <3>1, <3>2 DEF Drop
  <2>4. CASE At(j) # e
    <3>1. toE'[At(j)] = toE[At(j)] /\ toO'[At(j)] = toO[At(j)] /\ awaiting'[j] = awaiting[j]
      BY <1>1, <2>1, <2>2, <2>4 DEF Cut, Unasked, Wire
    <3>2. /\ Single(toE', "dispatch", j) /\ (Offered(j)' <=> Offered(j)) /\ (Taken(j)' <=> Taken(j))
          /\ (Talking(j)' <=> Talking(j))
      BY <3>1 DEF Heard, Single, Offered, Taken, Talking, OnWire
    <3> QED BY <2>1, <2>3, <3>1, <3>2, CalmConduct
  <2>5. CASE At(j) = e
    <3>1. toE'[At(j)] = <<>> /\ toO'[At(j)] = <<>>
      BY <1>1, <2>1, <2>2, <2>5 DEF Cut, Wire
    <3>2. DOMAIN toE'[At(j)] = {} /\ DOMAIN toO'[At(j)] = {}
      BY <3>1
    <3>3. ~Offered(j)' /\ ~Taken(j)' /\ Single(toE', "dispatch", j)
      BY <3>2 DEF Offered, Taken, OnWire, Single
    <3>4. CASE awaiting[j] = NoEntry
      <4>1. awaiting'[j] = awaiting[j]
        BY <2>1, <3>4 DEF Unasked
      <4>2. ~Due(j)'
        BY <3>4, <4>1 DEF Due, Watched
      <4> QED BY <2>1, <2>3, <3>3, <4>1, <4>2, CalmConduct
    <3>5. CASE awaiting[j] # NoEntry
      <4>1. awaiting[j] \in Entry /\ awaiting'[j] = [awaiting[j] EXCEPT !.asked = FALSE]
        BY <2>1, <2>2, <2>5, <3>5 DEF Unasked, Promise
      <4>2. /\ awaiting'[j].clock = awaiting[j].clock /\ ~awaiting'[j].asked
            /\ awaiting'[j].reminded = awaiting[j].reminded
        BY <4>1 DEF Entry
      <4>3. ~Due(j)' /\ (Timed(j)' => Timed(j))
        BY <3>5, <4>2 DEF Due, Timed
      <4>4. (Asked(j)' <=> Asked(j)) /\ (Answered(j)' <=> Answered(j))
        BY <2>1 DEF Asked, Answered
      <4>5. awaiting'[j] # NoEntry /\ ~Timed(j)' => ~awaiting'[j].reminded
        BY <3>5, <4>2 DEF Timed, Heard
      <4> QED BY <2>1, <2>3, <3>3, <4>3, <4>4, <4>5 DEF Conduct
    <3> QED BY <3>4, <3>5
  <2> QED BY <2>4, <2>5
<1> QED BY <1>2, <1>3, <1>4 DEF Linking

LEMMA StepsConduct ==
  ASSUME Sane, Routed, Closed, Heard, [Next]_vars, NEW j \in Job
  PROVE  Conduct(j)
<1>1. ASSUME UNCHANGED <<route, awaiting, pleas, exec, toE, toO>> PROVE Conduct(j)
  <2>1. Alive(j)' <=> Alive(j)
    BY <1>1 DEF Alive, Owes, exec
  <2> QED BY <1>1, <2>1, WiresSame, CalmConduct
<1>2. CASE Dispatching
  BY <1>2, DispatchingConduct DEF Dispatching
<1>3. CASE Judging
  <2>1. ASSUME NEW e \in Executor, Operator(e) PROVE Conduct(j)
    BY <1>1, <2>1 DEF Operator
  <2> QED BY <1>3, <2>1, ReadingConduct, JudgingConduct DEF Judging, CheckDeadline
<1>4. CASE Executing
  <2>1. 1..Cardinality(Job) \subseteq Nat
    OBVIOUS
  <2>2. ASSUME NEW i \in Job, NEW ok \in BOOLEAN, Compute(i, ok) PROVE Conduct(j)
    <3>1. At(i) \in Executor
      BY MessageTypes
    <3> QED BY <2>2, <3>1, KeepingConduct
  <2> QED BY <1>4, <2>1, <2>2, ServingConduct, KeepingConduct DEF Executing
<1>5. CASE Linking
  BY <1>5, LinkingConduct
<1>6. CASE UNCHANGED vars
  BY <1>1, <1>6 DEF vars, origin
<1> QED BY <1>2, <1>3, <1>4, <1>5, <1>6 DEF Next

LEMMA InitHeard ==
  Init => Heard
<1> SUFFICES ASSUME Init, NEW j \in Job
             PROVE  /\ Single(toE, "dispatch", j) /\ ~Offered(j) /\ ~Taken(j) /\ ~Asked(j)
                    /\ awaiting[j] = NoEntry
  BY DEF Heard, Due, Watched
<1>1. At(j) \in Executor /\ j[1] \in Dispatch /\ Nobody \notin Executor
  BY ForeignConstants DEF Job, At
<1>2. toE[At(j)] = <<>> /\ toO[At(j)] = <<>> /\ route[j[1]].asked = Nobody
  BY <1>1 DEF Init
<1>3. DOMAIN toE[At(j)] = {} /\ DOMAIN toO[At(j)] = {}
  BY <1>2
<1> QED BY <1>1, <1>2, <1>3 DEF Init, Single, Offered, Taken, Asked, OnWire

LEMMA SpecHeard ==
  Spec => [](Sane /\ Routed /\ Closed /\ Heard)
<1>1. ASSUME Sane, Routed, Closed, Heard, [Next]_vars PROVE Heard'
  BY <1>1, StepsConduct, RouteSteps, ConductKeepsHeard
<1> QED BY <1>1, InitHeard, SpecClosed, PTL DEF Spec

\* An executor that has been linked for a retry interval, and still computes the
\* job or still has its result, even one it gave up delivering, is not banned for
\* silence: once a reminder is written on the link, a result or a plea is under
\* way until the promise is kept or judged, over crashes, repeats and full tables
\* (_check_foreign_deadlines, _on_job_reminder).
THEOREM ForeignHonestSpared ==
  Spec => HonestSpared
<1>1. ASSUME Sane, Heard, Next PROVE \A j \in silenced' \ silenced :
             ~(Up(At(j)) /\ link[At(j)].grown /\ (j \in running \/ Owes(At(j), j)))
  <2>1. SUFFICES ASSUME NEW j \in silenced' \ silenced, Up(At(j)), link[At(j)].grown, Alive(j)
                 PROVE  FALSE
    BY DEF Alive
  <2>2. j \in Job /\ BanSilent(j)
    <3>1. \/ \E i \in Job : BanSilent(i) /\ silenced' = silenced \cup {i}
          \/ silenced' = silenced
      BY ZenonT(40), <1>1 DEF Next, Dispatching, Judging, CheckDeadline, Executing, Linking, BeginDispatch, NoneLeft, Resume,
            AckTimeout, Ask, OnStatus, OnResult, OnProgress, Operator, Disarm, Remind, BanSilent,
            Decide, ReapAwaiting, ReapActed, TakeJob, OnAck, OnReminder, Compute, HostDone, Resend,
            GiveUp, ExpireTomb, CrashOrigin, Drop, ReapPeer, Connect, Prove, Grow, CrashExecutor, origin
    <3> QED BY <3>1
  <2>3. Due(j) /\ ~Talking(j)
    BY <2>1, <2>2 DEF BanSilent, Quiet, Due
  <2>4. Talking(j)
    BY <1>1, <2>1, <2>2, <2>3 DEF Heard
  <2> QED BY <2>3, <2>4
<1>2. ASSUME Sane, Heard, [Next]_vars
      PROVE  [\A j \in silenced' \ silenced :
                ~(Up(At(j)) /\ link[At(j)].grown /\ (j \in running \/ Owes(At(j), j)))]_vars
  BY <1>1, <1>2
<1> QED BY <1>2, SpecHeard, PTL DEF Spec, HonestSpared
=============================================================================
