---------------------------- MODULE RequestReply ----------------------------
(***************************************************************************)
(* A request over the v2 NATS provider, from RequestRaw on the caller's    *)
(* side to the goroutine that runs the handler on the service's side and   *)
(* back through the inbox (v2/pkg/broker/providers/nats/provider.go).      *)
(*                                                                         *)
(* Every call of RequestRaw is a goroutine of its own: it takes a          *)
(* connection from the ring, makes a channel and an inbox, subscribes and  *)
(* publishes on that connection, loops in processResponse and leaves       *)
(* through its deferred calls.  Service instances are the processes that   *)
(* subscribed the endpoint; each reads its msgs channel and starts one     *)
(* goroutine per message.  The NATS server and client library are external *)
(* and modelled by what the code relies on: a message goes to one member   *)
(* of each queue group, a connection keeps the order of what is sent on    *)
(* it, different connections do not, a full channel drops, a message may   *)
(* be lost, and a request nobody subscribes to is answered at once by an   *)
(* empty message.  Time is abstracted: a timer may fire whenever it is     *)
(* armed.                                                                  *)
(***************************************************************************)
EXTENDS Naturals, FiniteSets, Sequences

CONSTANTS
  Call,        \* executions of RequestRaw
  Instance,    \* processes that subscribe the requested endpoint
  Inbox,       \* names nats.NewInbox can return
  NoInbox,     \* the inbox of a call that has not made one
  MaxConns,    \* connections in the ring (20 in the code)
  InboxCap,    \* capacity of a call's channel (50 in the code)
  MaxChans,    \* capacity of a subscription's msgs channel (100 in the code)
  MaxReplies   \* bound: messages one handler publishes to one inbox

ASSUME BoundsAssumption ==
  /\ MaxConns \in Nat \ {0}
  /\ InboxCap \in Nat \ {0}
  /\ MaxChans \in Nat \ {0}
  /\ MaxReplies \in Nat
  /\ NoInbox \notin Inbox

Answer  == {"ok", "error"}
Kind    == Answer \cup {"extend", "none"}
Outcome == {"pending", "timeout", "unavailable", "internal"} \cup Answer
Reply   == [call : Call, inbox : Inbox \cup {NoInbox}, kind : Kind, n : 0..MaxReplies]
PC      == {"idle", "publish", "wait", "unsubscribe", "close", "done"}

VARIABLES
  pc,          \* pc[c]: where RequestRaw is
  ring,        \* position of globalConnections
  bus,         \* bus[c]: the connection requestConn returned to c
  inbox,       \* inbox[c]: its inbox name
  active,      \* calls whose inbox subscription the client library holds
  registered,  \* calls whose inbox subscription has reached the server
  chan,        \* chan[c]: content of the channel c
  closed,      \* calls that have closed their channel
  requests,    \* calls whose request is on its way to the server
  members,     \* instances subscribed to the endpoint
  queue,       \* <<i, c>>: request c is in instance i's msgs channel
  running,     \* <<i, c>>: a goroutine of i runs the handler for c
  sent,        \* sent[c]: messages the handlers of c have published
  replies,     \* messages on their way to an inbox
  started,     \* started[c]: handler goroutines ever started for c
  answers,     \* answers[c]: final answers published for c
  outcome      \* outcome[c]: what RequestRaw returns

callerVars  == <<pc, ring, bus, inbox, active, chan, closed, outcome>>
serverVars  == <<registered, requests, replies>>
serviceVars == <<members, queue, running, sent, started, answers>>
vars        == <<callerVars, serverVars, serviceVars>>

TypeOK ==
  /\ pc \in [Call -> PC]
  /\ ring \in 0..(MaxConns - 1)
  /\ bus \in [Call -> 0..(MaxConns - 1)]
  /\ inbox \in [Call -> Inbox \cup {NoInbox}]
  /\ active \subseteq Call
  /\ registered \subseteq Call
  /\ chan \in [Call -> Seq(Reply)]
  /\ closed \subseteq Call
  /\ requests \subseteq Call
  /\ members \subseteq Instance
  /\ queue \subseteq Instance \X Call
  /\ running \subseteq Instance \X Call
  /\ sent \in [Call -> 0..MaxReplies]
  /\ replies \subseteq Reply
  /\ started \in [Call -> Nat]
  /\ answers \in [Call -> SUBSET Answer]
  /\ outcome \in [Call -> Outcome]

Init ==
  /\ pc = [c \in Call |-> "idle"]
  /\ ring = 0
  /\ bus = [c \in Call |-> 0]
  /\ inbox = [c \in Call |-> NoInbox]
  /\ active = {}
  /\ registered = {}
  /\ chan = [c \in Call |-> <<>>]
  /\ closed = {}
  /\ requests = {}
  /\ members = {}
  /\ queue = {}
  /\ running = {}
  /\ sent = [c \in Call |-> 0]
  /\ replies = {}
  /\ started = [c \in Call |-> 0]
  /\ answers = [c \in Call |-> {}]
  /\ outcome = [c \in Call |-> "pending"]

-----------------------------------------------------------------------------
(* The caller: RequestRaw and processResponse. *)

\* requestConn: the ring advances under connMutex and its new head is used.
NextConn == (ring + 1) % MaxConns

\* Mutant of FreshInbox: the inbox name is shared by all calls.
SharedInbox == Inbox

\* nats.NewInbox: a name no other call has had.
FreshInbox == {b \in Inbox : \A c \in Call : inbox[c] # b}

\* Mutant of PublishBus: requestConn is called again for the request.
PublishBusRotated(c) == (bus[c] + 1) % MaxConns

\* The connection the request goes out on: the one that holds the inbox.
PublishBus(c) == bus[c]

\* requestConn, NewInbox and ChanSubscribe.  ChanSubscribe fails on a closed
\* connection: the channel is then closed and the error returned.
Subscribe(c) ==
  /\ pc[c] = "idle"
  /\ ring' = NextConn
  /\ bus' = [bus EXCEPT ![c] = NextConn]
  /\ \E b \in FreshInbox : inbox' = [inbox EXCEPT ![c] = b]
  /\ \/ /\ active' = active \cup {c}
        /\ pc' = [pc EXCEPT ![c] = "publish"]
        /\ UNCHANGED outcome
     \/ /\ outcome' = [outcome EXCEPT ![c] = "internal"]
        /\ pc' = [pc EXCEPT ![c] = "close"]
        /\ UNCHANGED active
  /\ UNCHANGED <<chan, closed, serverVars, serviceVars>>

\* PublishMsg succeeds, or fails and leaves through the deferred calls.
PublishMsg(c) ==
  /\ pc[c] = "publish"
  /\ \/ /\ requests' = requests \cup {c}
        /\ pc' = [pc EXCEPT ![c] = "wait"]
        /\ UNCHANGED outcome
     \/ /\ outcome' = [outcome EXCEPT ![c] = "internal"]
        /\ pc' = [pc EXCEPT ![c] = "unsubscribe"]
        /\ UNCHANGED requests
  /\ UNCHANGED <<ring, bus, inbox, active, chan, closed, registered, replies,
                 serviceVars>>

\* Mutant of OutcomeOf: an empty message is taken for an answer, as
\* pkg/service/providers/nats/nats-provider.go:511 (v1) does.
OutcomeOfAnything(m) == IF m.kind = "none" THEN "ok" ELSE m.kind

\* What processResponse makes of a message that is no timeout extension.
OutcomeOf(m) == IF m.kind = "none" THEN "unavailable" ELSE m.kind

\* processResponse, case msg := <-c: an extension starts the loop again with
\* a new timer, anything else ends the call.  getTimeout's errors are left out:
\* callBase.Timeout always formats a number (callbase.go:179).
ReceiveReply(c) ==
  /\ pc[c] = "wait"
  /\ chan[c] # <<>>
  /\ chan' = [chan EXCEPT ![c] = Tail(@)]
  /\ IF Head(chan[c]).kind = "extend"
       THEN UNCHANGED <<pc, outcome>>
       ELSE /\ outcome' = [outcome EXCEPT ![c] = OutcomeOf(Head(chan[c]))]
            /\ pc' = [pc EXCEPT ![c] = "unsubscribe"]
  /\ UNCHANGED <<ring, bus, inbox, active, closed, serverVars, serviceVars>>

\* Mutant of TimerFires: a timeout reported as 503.
TimerFiresAs503(c) ==
  /\ pc[c] = "wait"
  /\ outcome' = [outcome EXCEPT ![c] = "unavailable"]
  /\ pc' = [pc EXCEPT ![c] = "unsubscribe"]
  /\ UNCHANGED <<ring, bus, inbox, active, chan, closed, serverVars,
                 serviceVars>>

\* processResponse, case <-timer.C: select may take it although a message
\* is waiting in the channel.
TimerFires(c) ==
  /\ pc[c] = "wait"
  /\ outcome' = [outcome EXCEPT ![c] = "timeout"]
  /\ pc' = [pc EXCEPT ![c] = "unsubscribe"]
  /\ UNCHANGED <<ring, bus, inbox, active, chan, closed, serverVars,
                 serviceVars>>

\* Mutant of Unsubscribe: the subscription is left to the garbage collector.
UnsubscribeForgotten(c) ==
  /\ pc[c] = "unsubscribe"
  /\ pc' = [pc EXCEPT ![c] = "close"]
  /\ UNCHANGED <<ring, bus, inbox, active, chan, closed, outcome, serverVars,
                 serviceVars>>

\* The deferred calls, last one first: Unsubscribe, then close(c).
Unsubscribe(c) ==
  /\ pc[c] = "unsubscribe"
  /\ active' = active \ {c}
  /\ pc' = [pc EXCEPT ![c] = "close"]
  /\ UNCHANGED <<ring, bus, inbox, chan, closed, outcome, serverVars,
                 serviceVars>>

CloseChan(c) ==
  /\ pc[c] = "close"
  /\ closed' = closed \cup {c}
  /\ pc' = [pc EXCEPT ![c] = "done"]
  /\ UNCHANGED <<ring, bus, inbox, active, chan, outcome, serverVars,
                 serviceVars>>

RequestRaw(c) == \/ Subscribe(c)   \/ PublishMsg(c)  \/ ReceiveReply(c)
                 \/ TimerFires(c)  \/ Unsubscribe(c) \/ CloseChan(c)

-----------------------------------------------------------------------------
(* The NATS server and the client library (external). *)

\* The server processes the SUB of c's inbox.
RegisterInbox(c) ==
  /\ c \in active
  /\ c \notin registered
  /\ registered' = registered \cup {c}
  /\ UNCHANGED <<callerVars, requests, replies, serviceVars>>

\* Mutant of Group: every instance subscribes in a group of its own.
GroupPerInstance(i) == i

\* The queue group specificProviderBase.Subscribe passes: the service's name,
\* the same in every instance.
Group(i) == "service"

\* A connection delivers in order: a request sent on the connection that
\* holds the inbox reaches the server after the inbox's SUB.
ReachesServer(c) ==
  /\ c \in requests
  /\ PublishBus(c) = bus[c] => c \in registered

\* The msgs channel of instance i is full.
MsgsFull(i) == Cardinality({c \in Call : <<i, c>> \in queue}) >= MaxChans

\* One member of each queue group gets the request; a member whose msgs
\* channel is full drops it.
RouteRequest(c) ==
  /\ ReachesServer(c)
  /\ members # {}
  /\ \E pick \in [{Group(i) : i \in members} -> members] :
       /\ \A g \in DOMAIN pick : Group(pick[g]) = g
       /\ queue' = queue \cup
            {<<pick[g], c>> : g \in {h \in DOMAIN pick : ~MsgsFull(pick[h])}}
  /\ requests' = requests \ {c}
  /\ UNCHANGED <<callerVars, registered, replies, members, running, sent,
                 started, answers>>

\* Nobody subscribes: the server answers with an empty message.
NoResponders(c) ==
  /\ ReachesServer(c)
  /\ members = {}
  /\ requests' = requests \ {c}
  /\ replies' = replies \cup
       {[call |-> c, inbox |-> inbox[c], kind |-> "none", n |-> 0]}
  /\ UNCHANGED <<callerVars, registered, serviceVars>>

\* A message reaches the client library, which sends it on the channel of the
\* subscription, and drops it when the channel is full or no call subscribes.
DeliverReply(m) ==
  /\ m \in replies
  /\ replies' = replies \ {m}
  /\ chan' = [c \in Call |->
                IF c \in active \cap registered /\ inbox[c] = m.inbox
                   /\ Len(chan[c]) < InboxCap
                THEN Append(chan[c], m) ELSE chan[c]]
  /\ UNCHANGED <<pc, ring, bus, inbox, active, closed, outcome, registered,
                 requests, serviceVars>>

\* A broken connection loses what is on it.
LoseRequest(c) ==
  /\ c \in requests
  /\ requests' = requests \ {c}
  /\ UNCHANGED <<callerVars, registered, replies, serviceVars>>

LoseReply(m) ==
  /\ m \in replies
  /\ replies' = replies \ {m}
  /\ UNCHANGED <<callerVars, registered, requests, serviceVars>>

-----------------------------------------------------------------------------
(* The service's side: SubscribeRaw, subscribe and the replies. *)

\* SubscribeRaw by a process that starts.
Join(i) ==
  /\ i \notin members
  /\ members' = members \cup {i}
  /\ UNCHANGED <<callerVars, serverVars, queue, running, sent, started,
                 answers>>

\* The process ends: what it had queued and was running is gone.
Crash(i) ==
  /\ i \in members
  /\ members' = members \ {i}
  /\ queue' = {q \in queue : q[1] # i}
  /\ running' = {q \in running : q[1] # i}
  /\ UNCHANGED <<callerVars, serverVars, sent, started, answers>>

\* for msgCopy := range msgs { go h(sub, msg.Data, msg.Reply) }
Dispatch(i, c) ==
  /\ <<i, c>> \in queue
  /\ queue' = queue \ {<<i, c>>}
  /\ running' = running \cup {<<i, c>>}
  /\ started' = [started EXCEPT ![c] = @ + 1]
  /\ UNCHANGED <<callerVars, serverVars, members, sent, answers>>

\* callBase.OK, File, Error ("ok", "error") and Timeout ("extend"): publish on
\* the inbox, on a connection of the ring, so in no order.
SendReply(i, c, kind) ==
  /\ <<i, c>> \in running
  /\ sent[c] < MaxReplies
  /\ sent' = [sent EXCEPT ![c] = @ + 1]
  /\ replies' = replies \cup
       {[call |-> c, inbox |-> inbox[c], kind |-> kind, n |-> sent[c] + 1]}
  /\ answers' = [answers EXCEPT ![c] = @ \cup ({kind} \cap Answer)]
  /\ UNCHANGED <<callerVars, registered, requests, members, queue, running,
                 started>>

\* The handler returns; it may have answered once, several times or not at all.
HandlerReturns(i, c) ==
  /\ <<i, c>> \in running
  /\ running' = running \ {<<i, c>>}
  /\ UNCHANGED <<callerVars, serverVars, members, queue, sent, started,
                 answers>>

-----------------------------------------------------------------------------
Next ==
  \/ \E c \in Call : \/ RequestRaw(c)  \/ RegisterInbox(c) \/ RouteRequest(c)
                     \/ NoResponders(c) \/ LoseRequest(c)
  \/ \E m \in replies : DeliverReply(m) \/ LoseReply(m)
  \/ \E i \in Instance : Join(i) \/ Crash(i)
  \/ \E i \in Instance, c \in Call :
       \/ Dispatch(i, c)
       \/ \E kind \in Answer \cup {"extend"} : SendReply(i, c, kind)
       \/ HandlerReturns(i, c)

\* A caller's goroutine is scheduled and its armed timer fires: fairness on
\* the caller's steps together, so an extension may always be taken instead.
Fairness == \A c \in Call : WF_vars(pc[c] # "idle" /\ RequestRaw(c))

Spec == Init /\ [][Next]_vars /\ Fairness

-----------------------------------------------------------------------------
(* Properties. *)

\* The client library never sends on a channel RequestRaw has closed, which
\* would panic in its read loop: the deferred Unsubscribe runs before the
\* deferred close(c) (provider.go:149 and :158).
NoSendOnClosed == active \cap closed = {}

\* A message in a call's channel was published for that call, however late it
\* is and whatever the caller did since: no other call reads it.
OwnReply == \A c \in Call : \A k \in 1..Len(chan[c]) : chan[c][k].call = c

\* With every instance in the same queue group, retransmission by nobody and
\* one goroutine per message, a call runs the handler at most once.
AtMostOnce == \A c \in Call : started[c] <= 1

\* A call that returns ErrorServiceUnavailable or an internal error has not
\* been executed and is on its way to no instance: Publish and Monitor take
\* the 503 of a validator for "no validator" and go on.
NotRunForGood ==
  \A c \in Call : outcome[c] \in {"unavailable", "internal"} =>
    /\ started[c] = 0
    /\ c \notin requests
    /\ \A i \in Instance : <<i, c>> \notin queue

\* A reply finds its inbox: while the caller waits, no message for it is on
\* its way that the server would drop because the SUB has not reached it.
ReplyFindsInbox ==
  \A m \in replies : pc[m.call] = "wait" => m.call \in registered

\* RequestRaw implements the promise of the module Rpc.
R == INSTANCE Rpc WITH
       started <- started, answers <- answers, outcome <- outcome

\* A call over the v2 provider is what Rpc says a call is.
ImplementsRpc == R!RpcSpec
=============================================================================
