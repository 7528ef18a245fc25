------------------------- MODULE SocketSessionProofs -------------------------
(***************************************************************************)
(* Proofs about SocketSession, for any number of connections, ids,         *)
(* publications and monitor messages.                                      *)
(***************************************************************************)
EXTENDS SocketSession, FiniteSetTheorems, TLAPS

\* The mutex of Monitor is held exactly by the session that is between
\* s.m.Lock() and the deferred s.m.Unlock().
MutexInv ==
  \A s \in Session : mutex = s <=> pc[s] = "validate"

\* A session that handles a monitor message has been counted.
CountInv ==
  \A s \in Session : pc[s] \in {"monitor", "validate", "respond"} => monitors > 0

\* What the broker gives a subscription is counted among the shares of its session.
ShareInv ==
  /\ \A s \in Session : IsFiniteSet(shares[s])
  /\ \A x \in subs, c \in 1..Connections : ShareOf(<<x, c>>) \in shares[x.session]

\* The copies of p that the broker has given s and that it has not handled yet.
Pending(s, p) == {d \in Copy : <<d, p>> \in inflight /\ d[1].session = s}

\* What was written of a publication and what still may be is no more than the
\* session has had shares: each was given the publication once.
WrittenInv ==
  \A s \in Session, p \in Publication :
    /\ IsFiniteSet(Pending(s, p))
    /\ got[s][p] + Cardinality(Pending(s, p)) <= Cardinality(shares[s])
    /\ p \in unpublished => got[s][p] = 0 /\ Pending(s, p) = {}

\* A session that has no token has not been announced since, and its end is
\* announced by the last turn of its loop.
AnnounceInv ==
  \A s \in Session :
    /\ connected[s] <= 1 /\ disconnected[s] <= 1
    /\ token[s] = "empty" => connected[s] = 0
    /\ pc[s] # "ended" => disconnected[s] = 0

IInv ==
  /\ TypeOK
  /\ MutexInv /\ CountInv /\ ShareInv /\ WrittenInv /\ AnnounceInv

\* Whoever waits for the context of a closed session will find it cancelled,
\* and every subscription has such a goroutine once Respond is over.
WatchInv ==
  /\ \A x \in subs : x \in watched \/ pc[x.session] = "respond"
  /\ \A s \in Session :
       pc[s] = "ended" =>
         /\ link[s] # "open"
         /\ link[s] = "closed" => ctx[s] = "cancelled"
-----------------------------------------------------------------------------
LEMMA Initially == Init => IInv /\ WatchInv
<1> SUFFICES ASSUME Init PROVE IInv /\ WatchInv
  OBVIOUS
<1> USE SessionAssumption DEF Init
<1>1. TypeOK /\ MutexInv /\ CountInv /\ AnnounceInv /\ WatchInv
  BY DEF TypeOK, MutexInv, CountInv, AnnounceInv, WatchInv, Id
<1>2. IsFiniteSet({}) /\ Cardinality({}) = 0
  BY FS_EmptySet
<1>3. \A s \in Session, p \in Publication : Pending(s, p) = {}
  BY DEF Pending, Copy
<1>4. ShareInv /\ WrittenInv
  BY <1>2, <1>3 DEF ShareInv, WrittenInv
<1> QED BY <1>1, <1>4 DEF IInv

LEMMA SharesType ==
  ASSUME NEW x \in Subscription
  PROVE  SharesOf(x) \subseteq Share /\ IsFiniteSet(SharesOf(x))
<1> DEFINE f == [c \in 1..Connections |-> ShareOf(<<x, c>>)]
<1>1. SharesOf(x) \subseteq Share
  BY DEF SharesOf, ShareOf, Share, Copy, Subscription
<1>2. f \in Surjection(1..Connections, SharesOf(x))
  BY DEF Surjection, SharesOf
<1>3. IsFiniteSet(1..Connections)
  BY FS_Interval, SessionAssumption
<1> HIDE DEF f
<1> QED BY <1>1, <1>2, <1>3, FS_Surjection

\* Every step keeps the types and what holds of one session at a time.
LEMMA TypesKept ==
  ASSUME TypeOK, CountInv, [Next]_vars
  PROVE  TypeOK'
<1> USE SessionAssumption DEF TypeOK, Goto, client, events, announced
<1>1. ASSUME NEW s \in Session, TokenMessage(s) PROVE TypeOK'
  BY <1>1 DEF TokenMessage, Id
<1>2. ASSUME NEW s \in Session, MonitorMessage(s) PROVE TypeOK'
  <2>1. token' \in [Session -> {"empty", "set"}]
    BY <1>2 DEF MonitorMessage, ValidateAgain
  <2>2. connected' \in [Session -> Nat]
    BY <1>2 DEF MonitorMessage, ValidateAgain
  <2>3. /\ pc' = [pc EXCEPT ![s] = "monitor"] /\ monitors' \in 0..MaxMonitors
        /\ UNCHANGED <<link, id, ctx, mutex, subs, watched, unpublished, inflight, got,
                       shares, disconnected>>
    BY <1>2 DEF MonitorMessage
  <2> QED BY <2>1, <2>2, <2>3
<1>3. ASSUME NEW s \in Session, LockMonitor(s) PROVE TypeOK'
  BY <1>3 DEF LockMonitor
<1>4. ASSUME NEW s \in Session, Validated(s) PROVE TypeOK'
  <2> DEFINE new(g) == [session |-> s, group |-> g, n |-> monitors]
  <2>1. new(GroupOf(s)) \in Subscription /\ new(id[s]) \in Subscription
    BY <1>4 DEF Validated, CountInv, Subscription, GroupOf
  <2>2. SharesOf(new(id[s])) \subseteq Share
    BY <2>1, SharesType
  <2>3. subs' \subseteq Subscription /\ watched' \subseteq subs'
    BY <1>4, <2>1 DEF Validated, SubscribeRaw
  <2>4. shares' \in [Session -> SUBSET Share]
    BY <1>4, <2>2 DEF Validated, SubscribeRaw
  <2> QED BY <1>4, <2>3, <2>4 DEF Validated
<1>5. ASSUME NEW s \in Session, OtherMessage(s) PROVE TypeOK'
  <2>1. token' \in [Session -> {"empty", "set"}]
    BY <1>5 DEF OtherMessage, ValidateAgain
  <2>2. connected' \in [Session -> Nat]
    BY <1>5 DEF OtherMessage, ValidateAgain
  <2> QED BY <1>5, <2>1, <2>2 DEF OtherMessage
<1>6. ASSUME NEW s \in Session, Respond(s) PROVE TypeOK'
  BY <1>6 DEF Respond
<1>7. ASSUME NEW s \in Session, End(s) PROVE TypeOK'
  <2>1. CASE EndClosed(s)
    BY <2>1 DEF EndClosed
  <2>2. CASE EndBroken(s)
    BY <2>2 DEF EndBroken
  <2> QED BY <1>7, <2>1, <2>2 DEF End
<1>9. ASSUME NEW s \in Session, Disconnect(s) PROVE TypeOK'
  BY <1>9 DEF Disconnect
<1>10. ASSUME NEW x \in subs, Unsubscribe(x) PROVE TypeOK'
  BY <1>10 DEF Unsubscribe
<1>11. ASSUME NEW p \in Publication, Publish(p) PROVE TypeOK'
  <2>1. inflight' \subseteq Copy \X Publication
    BY <1>11 DEF Publish, Copy
  <2> QED BY <1>11, <2>1 DEF Publish
<1>12. ASSUME NEW d \in Copy, NEW p \in Publication, HandleEvent(d, p)
       PROVE  TypeOK'
  <2>1. d[1].session \in Session
    BY DEF Copy, Subscription
  <2> QED BY <1>12, <2>1 DEF HandleEvent
<1>13. CASE UNCHANGED vars
  BY <1>13 DEF vars
<1> QED BY <1>1, <1>2, <1>3, <1>4, <1>5, <1>6, <1>7, <1>9, <1>10, <1>11,
           <1>12, <1>13
        DEF Next, ReadLoop, Monitor

LEMMA SessionsKept ==
  ASSUME TypeOK, TypeOK', MutexInv, CountInv, AnnounceInv, WatchInv, [Next]_vars
  PROVE  MutexInv' /\ CountInv' /\ AnnounceInv' /\ WatchInv'
<1> USE SessionAssumption
    DEF TypeOK, MutexInv, CountInv, AnnounceInv, WatchInv, Goto, client, events,
        announced
<1> DEFINE Kept == MutexInv' /\ CountInv' /\ AnnounceInv' /\ WatchInv'
<1>1. ASSUME NEW s \in Session, TokenMessage(s) PROVE Kept
  BY <1>1 DEF TokenMessage, First
<1>2. ASSUME NEW s \in Session, MonitorMessage(s) PROVE Kept
  BY <1>2 DEF MonitorMessage, ValidateAgain
<1>3. ASSUME NEW s \in Session, LockMonitor(s) PROVE Kept
  BY <1>3 DEF LockMonitor
<1>4. ASSUME NEW s \in Session, Validated(s) PROVE Kept
  <2>1. /\ pc[s] = "validate" /\ mutex' = NoSession
        /\ \A r \in Session \ {s} : pc'[r] = pc[r]
        /\ \/ pc'[s] = "respond"
           \/ pc'[s] = "read" /\ subs' = subs
        /\ \A y \in subs' \ subs : y.session = s
        /\ UNCHANGED <<client, ctx, monitors, watched, announced>>
    BY <1>4 DEF Validated, SubscribeRaw
  <2>2. MutexInv'
    <3>1. mutex = s /\ \A r \in Session \ {s} : pc[r] # "validate"
      BY <2>1
    <3>2. ASSUME NEW r \in Session PROVE pc'[r] # "validate"
      <4>1. CASE r = s
        BY <2>1, <4>1
      <4>2. CASE r # s
        BY <2>1, <3>1, <4>2
      <4> QED BY <4>1, <4>2
    <3> QED BY <2>1, <3>2
  <2>3. CountInv' /\ AnnounceInv'
    BY <2>1
  <2>4. \A y \in subs' : y \in watched' \/ pc'[y.session] = "respond"
    BY <2>1 DEF Subscription
  <2>5. WatchInv'
    BY <2>1, <2>4
  <2> QED BY <2>2, <2>3, <2>5
<1>5. ASSUME NEW s \in Session, OtherMessage(s) PROVE Kept
  <2>1. /\ \A r \in Session : connected'[r] = connected[r] \/ connected'[r] = 0
        /\ \A r \in Session : token'[r] = "empty" =>
             connected'[r] = 0 \/ (token[r] = "empty" /\ connected'[r] = connected[r])
        /\ UNCHANGED <<pc, link, ctx, mutex, monitors, subs, watched, disconnected>>
    <3>1. UNCHANGED <<pc, link, ctx, mutex, monitors, subs, watched, disconnected>>
      BY <1>5 DEF OtherMessage
    <3>2. CASE UNCHANGED <<token, connected>>
      BY <3>1, <3>2
    <3>3. CASE /\ token' = [token EXCEPT ![s] = "empty"]
               /\ connected' = [connected EXCEPT ![s] = 0]
      <4>1. connected'[s] = 0
        BY <3>3
      <4>2. \A r \in Session \ {s} : token'[r] = token[r] /\ connected'[r] = connected[r]
        BY <3>3
      <4> QED BY <3>1, <4>1, <4>2
    <3> QED BY <1>5, <3>2, <3>3 DEF OtherMessage, ValidateAgain
  <2>2. AnnounceInv'
    <3> SUFFICES ASSUME NEW r \in Session
                 PROVE  /\ connected'[r] <= 1 /\ disconnected'[r] <= 1
                        /\ token'[r] = "empty" => connected'[r] = 0
                        /\ pc'[r] # "ended" => disconnected'[r] = 0
      BY DEF AnnounceInv
    <3>1. CASE connected'[r] = 0
      BY <2>1, <3>1
    <3>2. CASE connected'[r] = connected[r] /\ token[r] = "empty"
      BY <2>1, <3>2
    <3>3. CASE connected'[r] = connected[r] /\ token'[r] # "empty"
      BY <2>1, <3>3
    <3> QED BY <2>1, <3>1, <3>2, <3>3
  <2>3. MutexInv' /\ CountInv' /\ WatchInv'
    BY <2>1
  <2> QED BY <2>2, <2>3
<1>6. ASSUME NEW s \in Session, Respond(s) PROVE Kept
  BY <1>6 DEF Respond
<1>7. ASSUME NEW s \in Session, End(s) PROVE Kept
  <2>1. CASE EndClosed(s)
    BY <2>1 DEF EndClosed
  <2>2. CASE EndBroken(s)
    BY <2>2 DEF EndBroken
  <2> QED BY <1>7, <2>1, <2>2 DEF End
<1>9. ASSUME NEW s \in Session, Disconnect(s) PROVE Kept
  BY <1>9 DEF Disconnect
<1>10. ASSUME NEW x \in subs, Unsubscribe(x) PROVE Kept
  BY <1>10 DEF Unsubscribe
<1>11. ASSUME NEW p \in Publication, Publish(p) PROVE Kept
  BY <1>11 DEF Publish
<1>12. ASSUME NEW d \in Copy, NEW p \in Publication, HandleEvent(d, p)
       PROVE  Kept
  BY <1>12 DEF HandleEvent
<1>13. CASE UNCHANGED vars
  BY <1>13 DEF vars
<1> QED BY <1>1, <1>2, <1>3, <1>4, <1>5, <1>6, <1>7, <1>9, <1>10, <1>11,
           <1>12, <1>13
        DEF Next, ReadLoop, Monitor
-----------------------------------------------------------------------------
(* What is written to a client. *)

\* A step that gives nothing to nobody leaves what is written as it is.
LEMMA NothingWritten ==
  ASSUME ShareInv, WrittenInv, subs' \subseteq subs,
         UNCHANGED <<shares, inflight, got, unpublished>>
  PROVE  ShareInv' /\ WrittenInv'
<1>1. \A s \in Session, p \in Publication : Pending(s, p)' = Pending(s, p)
  BY DEF Pending
<1> QED BY <1>1 DEF ShareInv, WrittenInv

\* A session that has had more shares can only be written to more often.
LEMMA SubscribingKeeps ==
  ASSUME TypeOK, CountInv, ShareInv, WrittenInv, NEW s \in Session, Validated(s)
  PROVE  ShareInv' /\ WrittenInv'
<1> DEFINE x == [session |-> s, group |-> id[s], n |-> monitors]
           new == SharesOf(x)
<1>1. CASE subs' = subs /\ shares' = shares
  BY <1>1, NothingWritten DEF Validated, events
<1>2. CASE subs' = subs \cup {x} /\ shares' = [shares EXCEPT ![s] = @ \cup new]
  <2>1. UNCHANGED <<inflight, got, unpublished>>
    BY DEF Validated, events
  <2>2. /\ shares'[s] = shares[s] \cup new
        /\ \A r \in Session \ {s} : shares'[r] = shares[r]
    BY <1>2 DEF TypeOK
  <2>3. IsFiniteSet(new)
    <3>1. x \in Subscription
      BY DEF Validated, CountInv, TypeOK, Subscription
    <3> QED BY <3>1, SharesType
  <2>4. \A r \in Session : IsFiniteSet(shares'[r]) /\ shares[r] \subseteq shares'[r]
    <3> HIDE DEF new
    <3>1. IsFiniteSet(shares[s] \cup new)
      BY <2>3, FS_Union DEF ShareInv
    <3> SUFFICES ASSUME NEW r \in Session
                 PROVE  IsFiniteSet(shares'[r]) /\ shares[r] \subseteq shares'[r]
      OBVIOUS
    <3>2. CASE r = s
      BY <2>2, <3>1, <3>2
    <3>3. CASE r # s
      BY <2>2, <3>3 DEF ShareInv
    <3> QED BY <3>2, <3>3
  <2>5. ShareInv'
    <3>1. \A y \in subs : y.session \in Session
      BY DEF TypeOK, Subscription
    <3>2. \A y \in subs, c \in 1..Connections : ShareOf(<<y, c>>) \in shares'[y.session]
      BY <2>4, <3>1 DEF ShareInv
    <3>3. \A c \in 1..Connections : ShareOf(<<x, c>>) \in shares'[x.session]
      BY <2>2 DEF SharesOf
    <3> HIDE DEF x, new
    <3> QED BY <1>2, <2>4, <3>2, <3>3 DEF ShareInv
  <2>6. ASSUME NEW r \in Session, NEW p \in Publication
        PROVE  /\ IsFiniteSet(Pending(r, p)')
               /\ got'[r][p] + Cardinality(Pending(r, p)') <=
                    Cardinality(shares'[r])
               /\ p \in unpublished' => got'[r][p] = 0 /\ Pending(r, p)' = {}
    <3>1. Pending(r, p)' = Pending(r, p)
      BY <2>1 DEF Pending
    <3>2. /\ IsFiniteSet(Pending(r, p))
          /\ got[r][p] + Cardinality(Pending(r, p)) <= Cardinality(shares[r])
          /\ p \in unpublished => got[r][p] = 0 /\ Pending(r, p) = {}
      BY DEF WrittenInv
    <3>3. /\ Cardinality(Pending(r, p)) \in Nat
          /\ got[r][p] \in Nat
      BY <3>2, FS_CardinalityType DEF TypeOK
    <3>4. /\ Cardinality(shares[r]) \in Nat /\ Cardinality(shares'[r]) \in Nat
          /\ Cardinality(shares[r]) <= Cardinality(shares'[r])
      BY <2>4, FS_CardinalityType, FS_Subset DEF ShareInv
    <3> QED BY <2>1, <3>1, <3>2, <3>3, <3>4
  <2>7. WrittenInv'
    BY <2>6 DEF WrittenInv
  <2> QED BY <2>5, <2>7
<1> QED BY <1>1, <1>2 DEF Validated, SubscribeRaw, GroupOf

\* The broker gives a publication once to each share: to no more copies of a
\* session than it has had shares.
LEMMA PublishingKeeps ==
  ASSUME TypeOK, TypeOK', ShareInv, WrittenInv,
         NEW p \in Publication, Publish(p)
  PROVE  ShareInv' /\ WrittenInv'
<1>1. PICK to \in SUBSET (subs \X (1..Connections)) :
        /\ \A d, e \in to : ShareOf(d) = ShareOf(e) => d = e
        /\ inflight' = inflight \cup (to \X {p})
  BY DEF Publish
<1>2. /\ p \in unpublished /\ unpublished' = unpublished \ {p}
      /\ UNCHANGED <<subs, shares, got>>
  BY DEF Publish
<1>3. ShareInv'
  BY <1>2 DEF ShareInv
<1>4. ASSUME NEW s \in Session
      PROVE  /\ IsFiniteSet(Pending(s, p)')
             /\ got'[s][p] + Cardinality(Pending(s, p)') <=
                  Cardinality(shares'[s])
  <2> DEFINE T == {d \in to : d[1].session = s}
             f == [d \in T |-> ShareOf(d)]
  <2>1. Pending(s, p) = {} /\ got[s][p] = 0
    BY <1>2 DEF WrittenInv
  <2>2. Pending(s, p)' = T
    <3>1. to \subseteq Copy
      BY DEF TypeOK, Copy
    <3> QED BY <1>1, <2>1, <3>1 DEF Pending
  <2>3. f \in Injection(T, shares[s])
    <3>1. \A d \in T : ShareOf(d) \in shares[s]
      <4> SUFFICES ASSUME NEW d \in T PROVE ShareOf(d) \in shares[s]
        OBVIOUS
      <4>1. d = <<d[1], d[2]>> /\ d[1] \in subs /\ d[2] \in 1..Connections
        OBVIOUS
      <4> QED BY <4>1 DEF ShareInv
    <3>2. f \in [T -> shares[s]]
      BY <3>1
    <3>3. \A d, e \in T : f[d] = f[e] => d = e
      BY <1>1
    <3> QED BY <3>2, <3>3 DEF Injection, IsInjective
  <2>4. IsFiniteSet(T) /\ Cardinality(T) <= Cardinality(shares[s])
    BY <2>3, FS_Injection DEF ShareInv
  <2>5. Cardinality(T) \in Nat
    BY <2>4, FS_CardinalityType
  <2> HIDE DEF T
  <2> QED BY <1>2, <2>1, <2>2, <2>4, <2>5
<1>5. ASSUME NEW s \in Session, NEW q \in Publication, q # p
      PROVE  Pending(s, q)' = Pending(s, q)
  BY <1>1, <1>5 DEF Pending
<1>6. WrittenInv'
  BY <1>2, <1>4, <1>5 DEF WrittenInv
<1> QED BY <1>3, <1>6

\* What is written was pending.
LEMMA HandlingKeeps ==
  ASSUME TypeOK, ShareInv, WrittenInv,
         NEW d \in Copy, NEW p \in Publication, HandleEvent(d, p)
  PROVE  ShareInv' /\ WrittenInv'
<1> DEFINE s == d[1].session
<1>1. s \in Session
  BY DEF Copy, Subscription
<1>2. /\ <<d, p>> \in inflight /\ inflight' = inflight \ {<<d, p>>}
      /\ UNCHANGED <<subs, shares, unpublished>>
      /\ got' \in {got, [got EXCEPT ![s][p] = @ + 1]}
  BY DEF HandleEvent
<1>3. ShareInv'
  BY <1>2 DEF ShareInv
<1>4. d \in Pending(s, p) /\ Pending(s, p)' = Pending(s, p) \ {d}
  BY <1>2 DEF Pending
<1>5. ASSUME NEW r \in Session, NEW q \in Publication, r # s \/ q # p
      PROVE  Pending(r, q)' = Pending(r, q) /\ got'[r][q] = got[r][q]
  BY <1>2, <1>5 DEF Pending, TypeOK
<1>6. /\ IsFiniteSet(Pending(s, p)')
      /\ got'[s][p] + Cardinality(Pending(s, p)') <= Cardinality(shares'[s])
      /\ p \notin unpublished'
  <2>1. /\ IsFiniteSet(Pending(s, p))
        /\ got[s][p] + Cardinality(Pending(s, p)) <= Cardinality(shares[s])
        /\ p \notin unpublished
    BY <1>1, <1>4 DEF WrittenInv
  <2>2. /\ IsFiniteSet(Pending(s, p) \ {d})
        /\ Cardinality(Pending(s, p) \ {d}) = Cardinality(Pending(s, p)) - 1
    BY <1>4, <2>1, FS_RemoveElement
  <2>3. /\ Cardinality(Pending(s, p)) \in Nat
        /\ Cardinality(shares[s]) \in Nat
    BY <1>1, <2>1, FS_CardinalityType DEF ShareInv
  <2>4. got[s][p] \in Nat /\ got'[s][p] \in {got[s][p], got[s][p] + 1}
    BY <1>1, <1>2 DEF TypeOK
  <2> QED BY <1>2, <1>4, <2>1, <2>2, <2>3, <2>4
<1>7. WrittenInv'
  BY <1>2, <1>5, <1>6 DEF WrittenInv
<1> QED BY <1>3, <1>7

LEMMA WrittenKept ==
  ASSUME TypeOK, TypeOK', CountInv, ShareInv, WrittenInv, [Next]_vars
  PROVE  ShareInv' /\ WrittenInv'
<1>1. ASSUME NEW s \in Session,
             \/ TokenMessage(s) \/ MonitorMessage(s) \/ OtherMessage(s)
             \/ LockMonitor(s) \/ Respond(s) \/ End(s) \/ Disconnect(s)
      PROVE  UNCHANGED <<subs, shares, inflight, got, unpublished>>
  BY <1>1 DEF TokenMessage, MonitorMessage, OtherMessage, LockMonitor, Respond, End,
              EndClosed, EndBroken, Disconnect, events
<1>2. ASSUME NEW x \in subs, Unsubscribe(x)
      PROVE  /\ subs' \subseteq subs
             /\ UNCHANGED <<shares, inflight, got, unpublished>>
  BY <1>2 DEF Unsubscribe, events
<1>3. ASSUME NEW e \in inflight, HandleEvent(e[1], e[2])
      PROVE  ShareInv' /\ WrittenInv'
  BY <1>3, HandlingKeeps DEF TypeOK
<1>4. CASE UNCHANGED vars
  BY <1>4, NothingWritten DEF vars, events
<1> QED BY <1>1, <1>2, <1>3, <1>4, NothingWritten, SubscribingKeeps,
           PublishingKeeps
        DEF Next, ReadLoop, Monitor

-----------------------------------------------------------------------------
LEMMA Inductive == IInv /\ WatchInv /\ [Next]_vars => (IInv /\ WatchInv)'
BY TypesKept, SessionsKept, WrittenKept DEF IInv

\* The two invariants hold of every execution.
THEOREM Invariant == Spec => [](IInv /\ WatchInv)
BY Initially, Inductive, PTL DEF Spec

\* Every variable of the sessions keeps its type.
THEOREM TypeCorrect == Spec => []TypeOK
<1>1. IInv => TypeOK
  BY DEF IInv
<1> QED BY <1>1, Invariant, PTL

\* An event is written to a client at most once for each id it has had, however
\* often it monitors, and whoever else has the same id (messagemonitor.go:55); under
\* the empty id, once for each connection and monitor message.
THEOREM WritesOncePerId == Spec => []OncePerId
<1>1. IInv => OncePerId
  <2> SUFFICES ASSUME IInv, NEW s \in Session, NEW p \in Publication
               PROVE  got[s][p] <= Cardinality(shares[s])
    BY DEF OncePerId
  <2>1. /\ IsFiniteSet(Pending(s, p)) /\ IsFiniteSet(shares[s])
        /\ got[s][p] + Cardinality(Pending(s, p)) <= Cardinality(shares[s])
        /\ got[s][p] \in Nat
    BY DEF IInv, TypeOK, ShareInv, WrittenInv
  <2>2. Cardinality(Pending(s, p)) \in Nat /\ Cardinality(shares[s]) \in Nat
    BY <2>1, FS_CardinalityType
  <2> QED BY <2>1, <2>2
<1> QED BY <1>1, Invariant, PTL

\* EventSocketConnected is published at most once while a session keeps a token
\* that is not empty, whichever message validates it (messagetoken.go:22-32,
\* messagemonitor.go:15-21), and EventSocketDisconnected at most once (ws.go:79).
THEOREM AnnouncesOnce == Spec => []AnnouncedOnce
<1>1. IInv => AnnouncedOnce
  BY DEF IInv, AnnounceInv, AnnouncedOnce
<1> QED BY <1>1, Invariant, PTL

\* The mutex of Monitor is never left locked and never held by two: who holds it
\* is between Lock and the deferred Unlock (specific-provider-base.go:37-38).
THEOREM MonitorsOneByOne == Spec => []MutexInv
<1>1. IInv => MutexInv
  BY DEF IInv
<1> QED BY <1>1, Invariant, PTL

\* A session whose client closed and whose loop is over has its context cancelled
\* and leaves no subscription without a goroutine that will end it
\* (messagemonitor.go:63-66, ws.go:78): nothing but those goroutines' turns is
\* missing for ClosedReleases.
ReleaseUnderWay ==
  \A s \in Session :
    link[s] = "closed" /\ pc[s] = "ended" =>
      /\ ctx[s] = "cancelled"
      /\ \A x \in subs : x.session = s => x \in watched

\* A session whose link is gone is always on its way out: the state it keeps in
\* the broker is released, or its goroutine has yet to do so.
THEOREM ReleasesClosed == Spec => []ReleaseUnderWay
<1>1. WatchInv => ReleaseUnderWay
  BY DEF WatchInv, ReleaseUnderWay
<1> QED BY <1>1, Invariant, PTL
=============================================================================
