------------------------- MODULE RequestReplyProofs -------------------------
(***************************************************************************)
(* The safety properties of RequestReply, proved for every set of calls    *)
(* and instances and every capacity, and the refinement of Rpc.            *)
(***************************************************************************)
EXTENDS RequestReply, TLAPS

\* The inductive invariant behind the safety properties of RequestReply.

\* Where the caller is fixes what it holds, and inboxes are never shared.
CallerInv ==
  /\ \A c \in Call :
       /\ (inbox[c] = NoInbox) <=> (pc[c] = "idle")
       /\ c \in active => pc[c] \in {"publish", "wait", "unsubscribe"}
       /\ c \in closed => pc[c] = "done"
       /\ (outcome[c] = "pending") <=> (pc[c] \in {"idle", "publish", "wait"})
  /\ \A c, d \in Call : c # d /\ inbox[c] = inbox[d] => inbox[c] = NoInbox

\* A request exists at most once: on its way, in one instance's channel, or
\* started.  Untouched(c): it is nowhere and was never started.
Untouched(c) ==
  /\ c \notin requests
  /\ \A i \in Instance : <<i, c>> \notin queue
  /\ started[c] = 0

RequestInv == \A c \in Call :
  /\ pc[c] \in {"idle", "publish"} => Untouched(c)
  /\ c \in requests =>
       started[c] = 0 /\ \A i \in Instance : <<i, c>> \notin queue
  /\ \A i \in Instance : <<i, c>> \in queue =>
       /\ started[c] = 0
       /\ \A j \in Instance : <<j, c>> \in queue => j = i
       /\ c \in registered
  /\ \A i \in Instance : <<i, c>> \in running =>
       started[c] = 1 /\ c \in registered
  /\ started[c] <= 1
  /\ outcome[c] \in {"unavailable", "internal"} => Untouched(c)

\* A message carries the inbox of the call it is for, an answer one of the
\* handler's, and an empty message means the request reached nobody.
Genuine(m) ==
  /\ m.inbox = inbox[m.call]
  /\ pc[m.call] \notin {"idle", "publish"}
  /\ m.kind \in Answer => m.kind \in answers[m.call]
  /\ m.kind = "none" => Untouched(m.call)

MessageInv ==
  /\ \A m \in replies : Genuine(m) /\ m.call \in registered
  /\ \A c \in Call : \A k \in 1..Len(chan[c]) :
       Genuine(chan[c][k]) /\ chan[c][k].call = c
  /\ \A c \in Call : outcome[c] \in Answer => outcome[c] \in answers[c]

IInv == TypeOK /\ CallerInv /\ RequestInv /\ MessageInv

-----------------------------------------------------------------------------
(* Type correctness. *)

LEMMA InitTypeOK == Init => TypeOK
BY BoundsAssumption DEF Init, TypeOK, PC, Outcome

\* The step of the caller's side preserves the types.
LEMMA CallerTypeOK ==
  ASSUME TypeOK, NEW c \in Call, RequestRaw(c)
  PROVE  TypeOK'
<1> USE DEF TypeOK, callerVars, serverVars, serviceVars
<1>1. CASE Subscribe(c)
  <2>1. NextConn \in 0..(MaxConns - 1)
    BY BoundsAssumption DEF NextConn
  <2>2. outcome' \in [Call -> Outcome] /\ pc' \in [Call -> PC]
    BY <1>1 DEF Subscribe, Outcome, PC
  <2>3. QED
    BY <1>1, <2>1, <2>2 DEF Subscribe, FreshInbox
<1>2. CASE PublishMsg(c)
  BY <1>2 DEF PublishMsg, Outcome, PC
<1>3. CASE ReceiveReply(c)
  <2>1. /\ Head(chan[c]) \in Reply
        /\ Tail(chan[c]) \in Seq(Reply)
    BY <1>3 DEF ReceiveReply
  <2>2. Head(chan[c]).kind # "extend" => OutcomeOf(Head(chan[c])) \in Outcome
    BY <2>1 DEF OutcomeOf, Outcome, Reply, Kind, Answer
  <2>3. QED
    BY <1>3, <2>1, <2>2 DEF ReceiveReply, PC
<1>4. CASE TimerFires(c)
  BY <1>4 DEF TimerFires, Outcome, PC
<1>5. CASE Unsubscribe(c)
  BY <1>5 DEF Unsubscribe, PC
<1>6. CASE CloseChan(c)
  BY <1>6 DEF CloseChan, PC
<1>7. QED
  BY <1>1, <1>2, <1>3, <1>4, <1>5, <1>6 DEF RequestRaw

\* With one group, a routed request reaches at most one instance.
LEMMA RoutedOnce ==
  ASSUME TypeOK, NEW c \in Call, RouteRequest(c)
  PROVE  \E i \in members : queue' \in {queue, queue \cup {<<i, c>>}}
<1>1. {Group(i) : i \in members} = {"service"}
  BY DEF RouteRequest, Group
<1>2. PICK pick \in [{"service"} -> members] :
        queue' = queue \cup
          {<<pick[g], c>> : g \in {h \in DOMAIN pick : ~MsgsFull(pick[h])}}
  BY <1>1 DEF RouteRequest
<1>3. pick["service"] \in members /\ DOMAIN pick = {"service"}
  OBVIOUS
<1>4. CASE MsgsFull(pick["service"])
  <2>1. {h \in DOMAIN pick : ~MsgsFull(pick[h])} = {}
    BY <1>3, <1>4
  <2>2. queue' = queue
    BY <1>2, <2>1
  <2>3. QED
    BY <1>3, <2>2
<1>5. CASE ~MsgsFull(pick["service"])
  <2>1. {h \in DOMAIN pick : ~MsgsFull(pick[h])} = {"service"}
    BY <1>3, <1>5
  <2>2. queue' = queue \cup {<<pick["service"], c>>}
    BY <1>2, <2>1
  <2>3. QED
    BY <1>3, <2>2
<1>6. QED
  BY <1>4, <1>5

LEMMA NextTypeOK == TypeOK /\ [Next]_vars => TypeOK'
<1> SUFFICES ASSUME TypeOK, [Next]_vars PROVE TypeOK'
  OBVIOUS
<1> USE DEF TypeOK, callerVars, serverVars, serviceVars
<1>1. ASSUME NEW c \in Call, RequestRaw(c) PROVE TypeOK'
  BY <1>1, CallerTypeOK
<1>2. ASSUME NEW c \in Call, RegisterInbox(c) PROVE TypeOK'
  BY <1>2 DEF RegisterInbox
<1>3. ASSUME NEW c \in Call, RouteRequest(c) PROVE TypeOK'
  <2>1. PICK i \in members : queue' \in {queue, queue \cup {<<i, c>>}}
    BY <1>3, RoutedOnce
  <2>2. QED
    BY <1>3, <2>1 DEF RouteRequest
<1>4. ASSUME NEW c \in Call, NoResponders(c) PROVE TypeOK'
  <2>1. [call |-> c, inbox |-> inbox[c], kind |-> "none", n |-> 0] \in Reply
    BY BoundsAssumption DEF Reply, Kind
  <2>2. QED
    BY <1>4, <2>1 DEF NoResponders
<1>5. ASSUME NEW c \in Call, LoseRequest(c) PROVE TypeOK'
  BY <1>5 DEF LoseRequest
<1>6. ASSUME NEW m \in replies, DeliverReply(m) PROVE TypeOK'
  BY <1>6 DEF DeliverReply
<1>7. ASSUME NEW m \in replies, LoseReply(m) PROVE TypeOK'
  BY <1>7 DEF LoseReply
<1>8. ASSUME NEW i \in Instance, Join(i) PROVE TypeOK'
  BY <1>8 DEF Join
<1>9. ASSUME NEW i \in Instance, Crash(i) PROVE TypeOK'
  BY <1>9 DEF Crash
<1>10. ASSUME NEW i \in Instance, NEW c \in Call, Dispatch(i, c)
       PROVE  TypeOK'
  BY <1>10 DEF Dispatch
<1>11. ASSUME NEW i \in Instance, NEW c \in Call,
              NEW kind \in Answer \cup {"extend"}, SendReply(i, c, kind)
       PROVE  TypeOK'
  <2>1. sent[c] + 1 \in 0..MaxReplies
    BY <1>11, BoundsAssumption DEF SendReply
  <2>2. [call |-> c, inbox |-> inbox[c], kind |-> kind, n |-> sent[c] + 1]
          \in Reply
    BY <2>1 DEF Reply, Kind
  <2>3. QED
    BY <1>11, <2>1, <2>2 DEF SendReply
<1>12. ASSUME NEW i \in Instance, NEW c \in Call, HandlerReturns(i, c)
       PROVE  TypeOK'
  BY <1>12 DEF HandlerReturns
<1>13. CASE UNCHANGED vars
  BY <1>13 DEF vars
<1>14. QED
  BY <1>1, <1>2, <1>3, <1>4, <1>5, <1>6, <1>7, <1>8, <1>9, <1>10, <1>11,
     <1>12, <1>13 DEF Next

\* Every variable keeps its type.
THEOREM TypeCorrect == Spec => []TypeOK
BY InitTypeOK, NextTypeOK, PTL DEF Spec

-----------------------------------------------------------------------------
(* The inductive invariant. *)

LEMMA InitIInv == Init => IInv
<1> SUFFICES ASSUME Init PROVE IInv
  OBVIOUS
<1>1. TypeOK
  BY InitTypeOK
<1>2. CallerInv
  BY DEF Init, CallerInv
<1>3. RequestInv
  BY DEF Init, RequestInv, Untouched
<1>4. MessageInv
  BY DEF Init, MessageInv, Answer
<1>5. QED
  BY <1>1, <1>2, <1>3, <1>4 DEF IInv

LEMMA NextCallerInv == TypeOK /\ CallerInv /\ [Next]_vars => CallerInv'
<1> SUFFICES ASSUME TypeOK, CallerInv, [Next]_vars PROVE CallerInv'
  OBVIOUS
<1> USE DEF TypeOK, CallerInv, PC, callerVars, serverVars, serviceVars
<1>1. ASSUME NEW c \in Call, Subscribe(c)
      PROVE  CallerInv'
  BY <1>1, BoundsAssumption DEF Subscribe, FreshInbox
<1>2. ASSUME NEW c \in Call, PublishMsg(c)
      PROVE  CallerInv'
  BY <1>2 DEF PublishMsg
<1>3. ASSUME NEW c \in Call, ReceiveReply(c)
      PROVE  CallerInv'
  <2>1. Head(chan[c]) \in Reply
    BY <1>3 DEF ReceiveReply
  <2>2. Head(chan[c]).kind # "extend" => OutcomeOf(Head(chan[c])) # "pending"
    BY <2>1 DEF OutcomeOf, Reply, Kind, Answer
  <2>3. QED
    BY <1>3, <2>2 DEF ReceiveReply
<1>4. ASSUME NEW c \in Call, TimerFires(c)
      PROVE  CallerInv'
  BY <1>4 DEF TimerFires
<1>5. ASSUME NEW c \in Call, Unsubscribe(c)
      PROVE  CallerInv'
  BY <1>5 DEF Unsubscribe
<1>6. ASSUME NEW c \in Call, CloseChan(c)
      PROVE  CallerInv'
  BY <1>6 DEF CloseChan
<1>7. ASSUME NEW c \in Call, RegisterInbox(c)
      PROVE  CallerInv'
  BY <1>7 DEF RegisterInbox
<1>8. ASSUME NEW c \in Call, RouteRequest(c)
      PROVE  CallerInv'
  BY <1>8 DEF RouteRequest
<1>9. ASSUME NEW c \in Call, NoResponders(c)
      PROVE  CallerInv'
  BY <1>9 DEF NoResponders
<1>10. ASSUME NEW c \in Call, LoseRequest(c)
       PROVE  CallerInv'
  BY <1>10 DEF LoseRequest
<1>11. ASSUME NEW m \in replies, DeliverReply(m)
       PROVE  CallerInv'
  BY <1>11 DEF DeliverReply
<1>12. ASSUME NEW m \in replies, LoseReply(m)
       PROVE  CallerInv'
  BY <1>12 DEF LoseReply
<1>13. ASSUME NEW i \in Instance, Join(i)
       PROVE  CallerInv'
  BY <1>13 DEF Join
<1>14. ASSUME NEW i \in Instance, Crash(i)
       PROVE  CallerInv'
  BY <1>14 DEF Crash
<1>15. ASSUME NEW i \in Instance, NEW c \in Call, Dispatch(i, c)
       PROVE  CallerInv'
  BY <1>15 DEF Dispatch
<1>16. ASSUME NEW i \in Instance, NEW c \in Call,
              NEW kind \in Answer \cup {"extend"}, SendReply(i, c, kind)
       PROVE  CallerInv'
  BY <1>16 DEF SendReply
<1>17. ASSUME NEW i \in Instance, NEW c \in Call, HandlerReturns(i, c)
       PROVE  CallerInv'
  BY <1>17 DEF HandlerReturns
<1>18. CASE UNCHANGED vars
  BY <1>18 DEF vars
<1>19. QED
  BY <1>1, <1>2, <1>3, <1>4, <1>5, <1>6, <1>7, <1>8, <1>9,
     <1>10, <1>11, <1>12, <1>13, <1>14, <1>15, <1>16, <1>17, <1>18
     DEF Next, RequestRaw
LEMMA NextRequestInv ==
  TypeOK /\ CallerInv /\ RequestInv /\ MessageInv /\ [Next]_vars => RequestInv'
<1> SUFFICES ASSUME TypeOK, CallerInv, RequestInv, MessageInv, [Next]_vars
             PROVE  RequestInv'
  OBVIOUS
<1> USE DEF TypeOK, RequestInv, Untouched, callerVars, serverVars, serviceVars
<1>1. ASSUME NEW c \in Call, Subscribe(c)
      PROVE  RequestInv'
  BY <1>1 DEF Subscribe
<1>2. ASSUME NEW c \in Call, PublishMsg(c)
      PROVE  RequestInv'
  <2>1. Untouched(c) /\ outcome[c] = "pending"
    BY <1>2 DEF PublishMsg, CallerInv
  <2>2. CASE requests' = requests \cup {c} /\ UNCHANGED outcome
    BY <1>2, <2>1, <2>2 DEF PublishMsg
  <2>3. CASE /\ outcome' = [outcome EXCEPT ![c] = "internal"]
             /\ pc' = [pc EXCEPT ![c] = "unsubscribe"]
             /\ UNCHANGED requests
    BY <1>2, <2>1, <2>3 DEF PublishMsg
  <2>4. QED
    BY <1>2, <2>2, <2>3 DEF PublishMsg
<1>3. ASSUME NEW c \in Call, ReceiveReply(c)
      PROVE  RequestInv'
  <2>1. Head(chan[c]) = chan[c][1] /\ 1 \in 1..Len(chan[c])
    BY <1>3 DEF ReceiveReply
  <2>2. chan[c][1] \in Reply /\ Genuine(chan[c][1]) /\ chan[c][1].call = c
    BY <2>1 DEF MessageInv
  <2>3. CASE Head(chan[c]).kind = "extend"
    BY <1>3, <2>3 DEF ReceiveReply
  <2>4. CASE Head(chan[c]).kind = "none"
    BY <1>3, <2>1, <2>2, <2>4 DEF ReceiveReply, Genuine
  <2>5. CASE Head(chan[c]).kind \in Answer
    BY <1>3, <2>5 DEF ReceiveReply, OutcomeOf, Answer
  <2>6. QED
    BY <2>1, <2>2, <2>3, <2>4, <2>5 DEF Reply, Kind
<1>4. ASSUME NEW c \in Call, TimerFires(c)
      PROVE  RequestInv'
  BY <1>4 DEF TimerFires
<1>5. ASSUME NEW c \in Call, Unsubscribe(c)
      PROVE  RequestInv'
  BY <1>5 DEF Unsubscribe
<1>6. ASSUME NEW c \in Call, CloseChan(c)
      PROVE  RequestInv'
  BY <1>6 DEF CloseChan
<1>7. ASSUME NEW c \in Call, RegisterInbox(c)
      PROVE  RequestInv'
  BY <1>7 DEF RegisterInbox
<1>8. ASSUME NEW c \in Call, RouteRequest(c)
      PROVE  RequestInv'
  <2>1. PICK i \in members : queue' \in {queue, queue \cup {<<i, c>>}}
    BY <1>8, RoutedOnce
  <2>2. c \in registered
    BY <1>8 DEF RouteRequest, ReachesServer, PublishBus
  <2>3. c \in requests /\ requests' = requests \ {c}
    BY <1>8 DEF RouteRequest, ReachesServer
  <2>4. /\ UNCHANGED <<pc, outcome, started, running, registered>>
        /\ pc[c] \notin {"idle", "publish"}
        /\ outcome[c] \notin {"unavailable", "internal"}
    BY <1>8, <2>3 DEF RouteRequest
  <2>5. QED
    BY <2>1, <2>2, <2>3, <2>4
<1>9. ASSUME NEW c \in Call, NoResponders(c)
      PROVE  RequestInv'
  BY <1>9 DEF NoResponders, ReachesServer
<1>10. ASSUME NEW c \in Call, LoseRequest(c)
       PROVE  RequestInv'
  BY <1>10 DEF LoseRequest
<1>11. ASSUME NEW m \in replies, DeliverReply(m)
       PROVE  RequestInv'
  BY <1>11 DEF DeliverReply
<1>12. ASSUME NEW m \in replies, LoseReply(m)
       PROVE  RequestInv'
  BY <1>12 DEF LoseReply
<1>13. ASSUME NEW i \in Instance, Join(i)
       PROVE  RequestInv'
  BY <1>13 DEF Join
<1>14. ASSUME NEW i \in Instance, Crash(i)
       PROVE  RequestInv'
  BY <1>14 DEF Crash
<1>15. ASSUME NEW i \in Instance, NEW c \in Call, Dispatch(i, c)
       PROVE  RequestInv'
  BY <1>15 DEF Dispatch
<1>16. ASSUME NEW i \in Instance, NEW c \in Call,
              NEW kind \in Answer \cup {"extend"}, SendReply(i, c, kind)
       PROVE  RequestInv'
  BY <1>16 DEF SendReply
<1>17. ASSUME NEW i \in Instance, NEW c \in Call, HandlerReturns(i, c)
       PROVE  RequestInv'
  BY <1>17 DEF HandlerReturns
<1>18. CASE UNCHANGED vars
  BY <1>18 DEF vars
<1>19. QED
  BY <1>1, <1>2, <1>3, <1>4, <1>5, <1>6, <1>7, <1>8, <1>9,
     <1>10, <1>11, <1>12, <1>13, <1>14, <1>15, <1>16, <1>17, <1>18
     DEF Next, RequestRaw
\* Genuine survives a step that leaves the call's inbox alone, takes no answer
\* back and lets no request out of nowhere.
LEMMA GenuineStable ==
  ASSUME NEW m, Genuine(m),
         inbox'[m.call] = inbox[m.call],
         pc[m.call] \notin {"idle", "publish"} =>
           pc'[m.call] \notin {"idle", "publish"},
         answers[m.call] \subseteq answers'[m.call],
         Untouched(m.call) => Untouched(m.call)'
  PROVE  Genuine(m)'
BY DEF Genuine

\* What never happens once a request has been published and is untouched.
LEMMA UntouchedStable ==
  ASSUME TypeOK, CallerInv, RequestInv, [Next]_vars,
         NEW c \in Call, pc[c] \notin {"idle", "publish"}
  PROVE  /\ inbox'[c] = inbox[c]
         /\ pc'[c] \notin {"idle", "publish"}
         /\ answers[c] \subseteq answers'[c]
         /\ Untouched(c) => Untouched(c)'
<1> DEFINE Goal == /\ inbox'[c] = inbox[c]
                   /\ pc'[c] \notin {"idle", "publish"}
                   /\ answers[c] \subseteq answers'[c]
                   /\ Untouched(c) => Untouched(c)'
<1> USE DEF TypeOK, Untouched, callerVars, serverVars, serviceVars
<1>1. ASSUME NEW d \in Call, Subscribe(d)
      PROVE  Goal
  BY <1>1 DEF Subscribe
<1>2. ASSUME NEW d \in Call, PublishMsg(d)
      PROVE  Goal
  BY <1>2 DEF PublishMsg
<1>3. ASSUME NEW d \in Call, ReceiveReply(d)
      PROVE  Goal
  BY <1>3 DEF ReceiveReply
<1>4. ASSUME NEW d \in Call, TimerFires(d)
      PROVE  Goal
  BY <1>4 DEF TimerFires
<1>5. ASSUME NEW d \in Call, Unsubscribe(d)
      PROVE  Goal
  BY <1>5 DEF Unsubscribe
<1>6. ASSUME NEW d \in Call, CloseChan(d)
      PROVE  Goal
  BY <1>6 DEF CloseChan
<1>7. ASSUME NEW d \in Call, RegisterInbox(d)
      PROVE  Goal
  BY <1>7 DEF RegisterInbox
<1>8. ASSUME NEW d \in Call, RouteRequest(d)
      PROVE  Goal
  <2>1. PICK i \in members : queue' \in {queue, queue \cup {<<i, d>>}}
    BY <1>8, RoutedOnce
  <2>2. d \in requests
    BY <1>8 DEF RouteRequest, ReachesServer
  <2>3. QED
    BY <1>8, <2>1, <2>2 DEF RouteRequest
<1>9. ASSUME NEW d \in Call, NoResponders(d)
      PROVE  Goal
  BY <1>9 DEF NoResponders
<1>10. ASSUME NEW d \in Call, LoseRequest(d)
       PROVE  Goal
  BY <1>10 DEF LoseRequest
<1>11. ASSUME NEW m \in replies, DeliverReply(m)
       PROVE  Goal
  BY <1>11 DEF DeliverReply
<1>12. ASSUME NEW m \in replies, LoseReply(m)
       PROVE  Goal
  BY <1>12 DEF LoseReply
<1>13. ASSUME NEW i \in Instance, Join(i)
       PROVE  Goal
  BY <1>13 DEF Join
<1>14. ASSUME NEW i \in Instance, Crash(i)
       PROVE  Goal
  BY <1>14 DEF Crash
<1>15. ASSUME NEW i \in Instance, NEW d \in Call, Dispatch(i, d)
       PROVE  Goal
  BY <1>15 DEF Dispatch
<1>16. ASSUME NEW i \in Instance, NEW d \in Call,
              NEW kind \in Answer \cup {"extend"}, SendReply(i, d, kind)
       PROVE  Goal
  BY <1>16 DEF SendReply
<1>17. ASSUME NEW i \in Instance, NEW d \in Call, HandlerReturns(i, d)
       PROVE  Goal
  BY <1>17 DEF HandlerReturns
<1>18. CASE UNCHANGED vars
  BY <1>18 DEF vars
<1>19. QED
  BY <1>1, <1>2, <1>3, <1>4, <1>5, <1>6, <1>7, <1>8, <1>9,
     <1>10, <1>11, <1>12, <1>13, <1>14, <1>15, <1>16, <1>17, <1>18
     DEF Next, RequestRaw

\* Messages that were genuine before a step are genuine after it.
LEMMA GenuineKept ==
  ASSUME TypeOK, CallerInv, RequestInv, [Next]_vars,
         NEW m \in Reply, Genuine(m)
  PROVE  Genuine(m)'
<1>1. m.call \in Call /\ pc[m.call] \notin {"idle", "publish"}
  BY DEF Genuine, Reply
<1>2. QED
  BY <1>1, UntouchedStable, GenuineStable

\* The messages on their way after a step were there before, or the step
\* published them for their call.
LEMMA NextReplies ==
  ASSUME TypeOK, CallerInv, RequestInv, MessageInv, [Next]_vars,
         NEW m \in replies'
  PROVE  Genuine(m)' /\ m.call \in registered'
<1> USE DEF callerVars, serverVars, serviceVars
<1>1. registered \subseteq registered'
  BY DEF Next, vars, RequestRaw, Subscribe, PublishMsg, ReceiveReply,
         TimerFires, Unsubscribe, CloseChan, RegisterInbox, RouteRequest,
         NoResponders, DeliverReply, LoseRequest, LoseReply, Join, Crash,
         Dispatch, SendReply, HandlerReturns
<1>2. CASE m \in replies
  <2>1. m \in Reply /\ Genuine(m) /\ m.call \in registered
    BY <1>2 DEF TypeOK, MessageInv
  <2>2. QED
    BY <1>1, <2>1, GenuineKept
<1>3. CASE m \notin replies
  <2>1. CASE \E c \in Call : NoResponders(c)
    <3>1. PICK c \in Call : NoResponders(c)
      BY <2>1
    <3>2. m = [call |-> c, inbox |-> inbox[c], kind |-> "none", n |-> 0]
      BY <1>3, <3>1 DEF NoResponders
    <3>3. c \in registered
      BY <3>1 DEF NoResponders, ReachesServer, PublishBus
    <3>4. Untouched(c)' /\ pc[c] \notin {"idle", "publish"}
      BY <3>1 DEF NoResponders, ReachesServer, RequestInv, Untouched, TypeOK
    <3>5. UNCHANGED <<pc, inbox, registered>>
      BY <3>1 DEF NoResponders
    <3>6. QED
      BY <3>2, <3>3, <3>4, <3>5 DEF Genuine, Answer
  <2>2. CASE \E i \in Instance, c \in Call, kind \in Answer \cup {"extend"} :
               SendReply(i, c, kind)
    <3>1. PICK i \in Instance, c \in Call, kind \in Answer \cup {"extend"} :
            SendReply(i, c, kind)
      BY <2>2
    <3>2. m = [call |-> c, inbox |-> inbox[c], kind |-> kind,
               n |-> sent[c] + 1]
      BY <1>3, <3>1 DEF SendReply
    <3>3. c \in registered /\ started[c] = 1
      BY <3>1 DEF SendReply, RequestInv
    <3>4. pc[c] \notin {"idle", "publish"}
      BY <3>3 DEF RequestInv, Untouched
    <3>5. /\ UNCHANGED <<pc, inbox, registered>>
          /\ kind \in Answer => kind \in answers'[c]
      BY <3>1 DEF SendReply, TypeOK
    <3>6. kind # "none"
      BY DEF Answer
    <3>7. QED
      BY <3>2, <3>3, <3>4, <3>5, <3>6 DEF Genuine
  <2>3. QED
    BY <1>3, <2>1, <2>2
       DEF Next, vars, RequestRaw, Subscribe, PublishMsg, ReceiveReply,
           TimerFires, Unsubscribe, CloseChan, RegisterInbox, RouteRequest,
           DeliverReply, LoseRequest, LoseReply, Join, Crash,
           Dispatch, HandlerReturns
<1>4. QED
  BY <1>2, <1>3

\* The channels after a step hold what they held, without its head, or with
\* one more message that was on its way to the call's inbox.
LEMMA NextChan ==
  ASSUME TypeOK, CallerInv, RequestInv, MessageInv, [Next]_vars,
         NEW c \in Call, NEW k \in 1..Len(chan'[c]), NEW r, r = chan'[c][k]
  PROVE  Genuine(r)' /\ r.call = c
<1> USE DEF callerVars, serverVars, serviceVars
<1>1. \/ chan'[c] = chan[c]
      \/ chan[c] # <<>> /\ chan'[c] = Tail(chan[c])
      \/ \E m \in replies : /\ c \in active /\ inbox[c] = m.inbox
                            /\ chan'[c] = Append(chan[c], m)
  <2>1. CASE \E d \in Call : ReceiveReply(d)
    BY <2>1 DEF ReceiveReply, TypeOK
  <2>2. CASE \E m \in replies : DeliverReply(m)
    BY <2>2 DEF DeliverReply
  <2>3. QED
    BY <2>1, <2>2
       DEF Next, vars, RequestRaw, Subscribe, PublishMsg,
           TimerFires, Unsubscribe, CloseChan, RegisterInbox, RouteRequest,
           NoResponders, LoseRequest, LoseReply, Join, Crash,
           Dispatch, SendReply, HandlerReturns
<1> DEFINE Good(m) == m \in Reply /\ Genuine(m) /\ m.call = c
<1>2. chan[c] \in Seq(Reply) /\ \A j \in 1..Len(chan[c]) : Good(chan[c][j])
  BY DEF TypeOK, MessageInv
<1>3. Good(chan'[c][k])
  <2>1. CASE chan'[c] = chan[c]
    BY <1>2, <2>1
  <2>2. CASE chan[c] # <<>> /\ chan'[c] = Tail(chan[c])
    <3>1. chan'[c][k] = chan[c][k + 1] /\ k + 1 \in 1..Len(chan[c])
      BY <1>2, <2>2
    <3>2. QED
      BY <1>2, <3>1
  <2>3. ASSUME NEW m \in replies, c \in active, inbox[c] = m.inbox,
               chan'[c] = Append(chan[c], m)
        PROVE  Good(chan'[c][k])
    <3>1. m \in Reply /\ Genuine(m)
      BY DEF TypeOK, MessageInv
    <3>2. inbox[m.call] = inbox[c] /\ m.call \in Call /\ inbox[c] # NoInbox
      BY <2>3, <3>1 DEF Genuine, CallerInv, Reply
    <3>3. Good(m)
      BY <3>1, <3>2 DEF CallerInv
    <3>4. chan'[c][k] = m \/ (k \in 1..Len(chan[c]) /\ chan'[c][k] = chan[c][k])
      BY <1>2, <2>3, <3>1
    <3>5. QED
      BY <1>2, <3>3, <3>4
  <2>4. QED
    BY <1>1, <2>1, <2>2, <2>3
<1>4. r \in Reply /\ Genuine(r) /\ r.call = c
  BY <1>3
<1>5. QED
  BY <1>4, GenuineKept

\* Only ReceiveReply returns an answer, and it is the one it read.
LEMMA NextOutcome ==
  ASSUME TypeOK, CallerInv, RequestInv, MessageInv, [Next]_vars,
         NEW c \in Call, outcome'[c] \in Answer
  PROVE  outcome'[c] \in answers'[c]
<1> USE DEF callerVars, serverVars, serviceVars
<1>1. answers[c] \subseteq answers'[c]
  <2>1. CASE \E i \in Instance, d \in Call, kind \in Answer \cup {"extend"} :
               SendReply(i, d, kind)
    BY <2>1 DEF SendReply, TypeOK
  <2>2. CASE UNCHANGED answers
    BY <2>2
  <2>3. QED
    BY <2>1, <2>2
       DEF Next, vars, RequestRaw, Subscribe, PublishMsg, ReceiveReply,
           TimerFires, Unsubscribe, CloseChan, RegisterInbox, RouteRequest,
           NoResponders, DeliverReply, LoseRequest, LoseReply, Join, Crash,
           Dispatch, HandlerReturns
<1>2. CASE outcome'[c] = outcome[c]
  BY <1>1, <1>2 DEF MessageInv
<1>3. CASE ReceiveReply(c) /\ Head(chan[c]).kind # "extend"
  <2>1. chan[c] \in Seq(Reply) /\ chan[c] # <<>>
    BY <1>3 DEF ReceiveReply, TypeOK
  <2>2. Head(chan[c]) = chan[c][1] /\ 1 \in 1..Len(chan[c])
    BY <2>1
  <2>3. Genuine(Head(chan[c])) /\ Head(chan[c]).call = c
    BY <2>2 DEF MessageInv
  <2>4. outcome'[c] = OutcomeOf(Head(chan[c]))
    BY <1>3 DEF ReceiveReply, TypeOK
  <2>5. outcome'[c] = Head(chan[c]).kind
    BY <2>4 DEF OutcomeOf, Answer
  <2>6. QED
    BY <1>1, <2>3, <2>5 DEF Genuine
<1>4. CASE ~ReceiveReply(c)
  <2>1. CASE \E d \in Call : ReceiveReply(d)
    <3>1. PICK d \in Call \ {c} : ReceiveReply(d)
      BY <1>4, <2>1
    <3>2. outcome'[c] = outcome[c]
      BY <3>1 DEF ReceiveReply, TypeOK
    <3> QED BY <1>2, <3>2
  <2>2. CASE \E d \in Call : Subscribe(d) \/ PublishMsg(d) \/ TimerFires(d)
    BY <1>2, <2>2 DEF Subscribe, PublishMsg, TimerFires, TypeOK, Answer
  <2>3. CASE UNCHANGED outcome
    BY <1>2, <2>3
  <2>4. QED
    BY <2>1, <2>2, <2>3
       DEF Next, vars, RequestRaw, Unsubscribe, CloseChan, RegisterInbox,
           RouteRequest, NoResponders, DeliverReply, LoseRequest, LoseReply,
           Join, Crash, Dispatch, SendReply, HandlerReturns
<1>5. QED
  BY <1>2, <1>3, <1>4 DEF ReceiveReply, TypeOK

LEMMA NextIInv == IInv /\ [Next]_vars => IInv'
<1> SUFFICES ASSUME IInv, [Next]_vars PROVE IInv'
  OBVIOUS
<1>1. MessageInv'
  <2>1. \A c \in Call : \A k \in 1..Len(chan'[c]) :
          (Genuine(chan[c][k]) /\ chan[c][k].call = c)'
    <3> SUFFICES ASSUME NEW c \in Call, NEW k \in 1..Len(chan'[c])
                 PROVE  (Genuine(chan[c][k]) /\ chan[c][k].call = c)'
      OBVIOUS
    <3>1. PICK r : r = chan'[c][k]
      OBVIOUS
    <3>2. Genuine(r)' /\ r.call = c
      BY <3>1, NextChan DEF IInv
    <3>3. QED
      BY <3>1, <3>2 DEF Genuine, Untouched
  <2>2. QED
    BY <2>1, NextReplies, NextOutcome DEF IInv, MessageInv
<1>2. QED
  BY <1>1, NextTypeOK, NextCallerInv, NextRequestInv DEF IInv

\* The invariant holds of every execution.
THEOREM Invariant == Spec => []IInv
BY InitIInv, NextIInv, PTL DEF Spec

-----------------------------------------------------------------------------
(* The properties. *)

\* No send on a closed channel: Unsubscribe precedes close(c).
THEOREM NeverSendsOnClosed == Spec => []NoSendOnClosed
<1>1. IInv => NoSendOnClosed
  BY DEF IInv, TypeOK, CallerInv, NoSendOnClosed
<1>2. QED
  BY <1>1, Invariant, PTL

\* A call only ever reads messages published for it.
THEOREM ReadsOwnReplies == Spec => []OwnReply
<1>1. IInv => OwnReply
  BY DEF IInv, MessageInv, OwnReply
<1>2. QED
  BY <1>1, Invariant, PTL

\* A call runs the handler at most once.
THEOREM RunsAtMostOnce == Spec => []AtMostOnce
<1>1. IInv => AtMostOnce
  BY DEF IInv, RequestInv, AtMostOnce
<1>2. QED
  BY <1>1, Invariant, PTL

\* A 503 or an internal error means the handler never runs.
THEOREM UnavailableNeverRuns == Spec => []NotRunForGood
<1>1. IInv => NotRunForGood
  BY DEF IInv, RequestInv, Untouched, NotRunForGood
<1>2. QED
  BY <1>1, Invariant, PTL

\* A reply never outruns the subscription of its inbox.
THEOREM RepliesFindInbox == Spec => []ReplyFindsInbox
<1>1. IInv => ReplyFindsInbox
  BY DEF IInv, MessageInv, ReplyFindsInbox
<1>2. QED
  BY <1>1, Invariant, PTL

-----------------------------------------------------------------------------
(* RequestReply implements Rpc. *)

LEMMA ReturnStep ==
  ASSUME IInv, NEW c \in Call, RequestRaw(c)
  PROVE  [R!RpcNext]_(R!rpcVars)
<1> USE DEF IInv, TypeOK, serverVars, serviceVars, R!rpcVars
<1>1. CASE UNCHANGED outcome
  BY <1>1 DEF RequestRaw, Subscribe, PublishMsg, ReceiveReply, TimerFires,
              Unsubscribe, CloseChan
<1>2. ASSUME NEW o \in R!Outcome, outcome' = [outcome EXCEPT ![c] = o],
             outcome[c] = "pending", UNCHANGED <<started, answers>>,
             o \in answers[c] \/ o = "timeout" \/ (o \in R!NotRun /\ started[c] = 0)
      PROVE  R!RpcNext
  BY <1>2 DEF R!RpcNext, R!Return
<1>3. CASE Subscribe(c) \/ PublishMsg(c)
  <2>1. outcome[c] = "pending" /\ started[c] = 0
    BY <1>3 DEF Subscribe, PublishMsg, CallerInv, RequestInv, Untouched
  <2>2. CASE outcome' = [outcome EXCEPT ![c] = "internal"]
    BY <1>2, <1>3, <2>1, <2>2
       DEF Subscribe, PublishMsg, R!Outcome, R!NotRun
  <2>3. QED
    BY <1>1, <1>3, <2>2 DEF Subscribe, PublishMsg
<1>4. CASE TimerFires(c)
  BY <1>2, <1>4 DEF TimerFires, CallerInv, R!Outcome
<1>5. CASE ReceiveReply(c)
  <2>1. outcome[c] = "pending" /\ chan[c] # <<>>
    BY <1>5 DEF ReceiveReply, CallerInv
  <2> DEFINE m == Head(chan[c])
  <2>2. m = chan[c][1] /\ 1 \in 1..Len(chan[c]) /\ m \in Reply
    BY <2>1
  <2>3. Genuine(m) /\ m.call = c
    BY <2>2 DEF MessageInv
  <2> HIDE DEF m
  <2>4. m.kind \in {"ok", "error", "extend", "none"}
    BY <2>2 DEF Reply, Kind, Answer
  <2>5. CASE m.kind = "extend"
    BY <1>1, <1>5, <2>5 DEF ReceiveReply, m
  <2>6. CASE m.kind = "none"
    <3>1. outcome' = [outcome EXCEPT ![c] = "unavailable"]
      BY <1>5, <2>6 DEF ReceiveReply, OutcomeOf, m
    <3>2. started[c] = 0
      BY <2>3, <2>6 DEF Genuine, Untouched
    <3>3. QED
      BY <1>2, <1>5, <2>1, <3>1, <3>2 DEF ReceiveReply, R!Outcome, R!NotRun
  <2>7. CASE m.kind \in Answer
    <3>1. outcome' = [outcome EXCEPT ![c] = m.kind]
      BY <1>5, <2>7 DEF ReceiveReply, OutcomeOf, Answer, m
    <3>2. m.kind \in answers[c] /\ m.kind \in R!Outcome
      BY <2>3, <2>7 DEF Genuine, Answer, R!Outcome, R!Answer
    <3>3. QED
      BY <1>2, <1>5, <2>1, <3>1, <3>2 DEF ReceiveReply
  <2>8. QED
    BY <2>4, <2>5, <2>6, <2>7 DEF Answer
<1>6. CASE Unsubscribe(c) \/ CloseChan(c)
  BY <1>1, <1>6 DEF Unsubscribe, CloseChan
<1>7. QED
  BY <1>3, <1>4, <1>5, <1>6 DEF RequestRaw

LEMMA NextImplements == IInv /\ [Next]_vars => [R!RpcNext]_(R!rpcVars)
<1> SUFFICES ASSUME IInv, [Next]_vars PROVE [R!RpcNext]_(R!rpcVars)
  OBVIOUS
<1>1. CASE \E c \in Call : RequestRaw(c)
  BY <1>1, ReturnStep
<1>2. ASSUME NEW i \in Instance, NEW c \in Call, Dispatch(i, c)
      PROVE  R!RpcNext
  <2>1. started[c] = 0 /\ outcome[c] \notin R!NotRun
    BY <1>2 DEF Dispatch, IInv, RequestInv, Untouched, R!NotRun
  <2>2. R!Execute(c)
    BY <1>2, <2>1
       DEF Dispatch, R!Execute, callerVars, IInv, TypeOK
  <2>3. QED
    BY <2>2 DEF R!RpcNext
<1>3. ASSUME NEW i \in Instance, NEW c \in Call,
             NEW kind \in Answer \cup {"extend"}, SendReply(i, c, kind)
      PROVE  [R!RpcNext]_(R!rpcVars)
  <2>1. started[c] = 1
    BY <1>3 DEF SendReply, IInv, RequestInv
  <2>2. CASE kind \in Answer
    <3>1. R!Respond(c, kind)
      BY <1>3, <2>1, <2>2
         DEF SendReply, R!Respond, callerVars, Answer
    <3>2. QED
      BY <2>2, <3>1 DEF R!RpcNext, R!Answer, Answer
  <2>3. CASE kind \notin Answer
    <3>1. UNCHANGED answers
      BY <1>3, <2>3 DEF SendReply, IInv, TypeOK
    <3>2. QED
      BY <1>3, <3>1 DEF SendReply, callerVars, R!rpcVars
  <2>4. QED
    BY <2>2, <2>3
<1>4. CASE UNCHANGED <<started, answers, outcome>>
  BY <1>4 DEF R!rpcVars
<1>5. QED
  BY <1>1, <1>2, <1>3, <1>4
     DEF Next, vars, callerVars, serverVars, serviceVars, RegisterInbox,
         RouteRequest, NoResponders, DeliverReply, LoseRequest, LoseReply,
         Join, Crash, HandlerReturns

\* Every behaviour of RequestReply is one that Rpc allows.
THEOREM Refinement == Spec => ImplementsRpc
<1>1. Init => R!RpcInit
  BY DEF Init, R!RpcInit
<1>2. QED
  BY <1>1, NextImplements, Invariant, PTL
     DEF Spec, ImplementsRpc, R!RpcSpec
=============================================================================
