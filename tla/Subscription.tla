---------------------------- MODULE Subscription ----------------------------
(***************************************************************************)
(* One subscription of the v2 NATS provider: SubscribeRaw makes MaxConns   *)
(* queue subscriptions that share one channel, subscribe's goroutine       *)
(* ranges over the channel and starts a goroutine per message, and the     *)
(* closure SubscribeRaw returns unsubscribes them all and closes the       *)
(* channel (v2/pkg/broker/providers/nats/provider.go:83-112, 255-275).     *)
(* The closure may be called by several goroutines: a second close of the  *)
(* channel panics and is recovered.  The NATS server and client library    *)
(* are external: the server learns of SUB and UNSUB later than the client, *)
(* and what it sent to a subscription that is gone is dropped.             *)
(***************************************************************************)
EXTENDS Naturals, Sequences, FiniteSets

CONSTANTS
  Msg,        \* messages published to the subject
  Caller,     \* goroutines that call the returned closure
  MaxConns,   \* subscriptions per SubscribeRaw (20 in the code)
  MaxChans    \* capacity of the msgs channel (100 in the code)

ASSUME SizesAssumption ==
  /\ MaxConns \in Nat \ {0}
  /\ MaxChans \in Nat \ {0}

Sub == 1..MaxConns

VARIABLES
  made,      \* how many ChanQueueSubscribe calls SubscribeRaw has made
  live,      \* subscriptions the client library holds
  known,     \* subscriptions the server knows of
  unsent,    \* messages not yet published
  wire,      \* <<m, k>>: the server sent m to subscription k
  msgs,      \* the channel
  channel,   \* whether close(msgs) has happened
  dispatcher, \* whether subscribe's goroutine is in its range loop
  handling,  \* messages whose goroutine runs the handler
  handled,   \* messages whose handler has returned
  upc        \* upc[u]: next subscription u unsubscribes, MaxConns + 1 before
             \* close, 0 before the call, MaxConns + 2 after it

vars == <<made, live, known, unsent, wire, msgs, channel, dispatcher, handling,
          handled, upc>>

TypeOK ==
  /\ made \in 0..MaxConns
  /\ live \subseteq Sub /\ known \subseteq Sub
  /\ unsent \subseteq Msg
  /\ wire \subseteq Msg \X Sub
  /\ msgs \in Seq(Msg)
  /\ channel \in {"open", "closed"} /\ dispatcher \in {"ranging", "ended"}
  /\ handling \subseteq Msg /\ handled \subseteq Msg
  /\ upc \in [Caller -> 0..(MaxConns + 2)]

Init ==
  /\ made = 0
  /\ live = {} /\ known = {}
  /\ unsent = Msg
  /\ wire = {}
  /\ msgs = <<>>
  /\ channel = "open" /\ dispatcher = "ranging"
  /\ handling = {} /\ handled = {}
  /\ upc = [u \in Caller |-> 0]

-----------------------------------------------------------------------------
(* SubscribeRaw and the closure it returns. *)

\* One turn of the loop; an error is logged and the loop goes on.
ChanQueueSubscribe ==
  /\ made < MaxConns
  /\ made' = made + 1
  /\ live' \in {live, live \cup {made + 1}}
  /\ UNCHANGED <<known, unsent, wire, msgs, channel, dispatcher,
                 handling, handled, upc>>

\* SubscribeRaw has returned and u calls the closure.
CallUnsub(u) ==
  /\ upc[u] = 0
  /\ made = MaxConns
  /\ upc' = [upc EXCEPT ![u] = 1]
  /\ UNCHANGED <<made, live, known, unsent, wire, msgs, channel, dispatcher,
                 handling, handled>>

\* Mutant of UnsubNext: the closures captured the loop's variable and all
\* unsubscribe the last subscription.
UnsubLast(u) ==
  /\ upc[u] \in Sub
  /\ live' = live \ {MaxConns}
  /\ upc' = [upc EXCEPT ![u] = @ + 1]
  /\ UNCHANGED <<made, known, unsent, wire, msgs, channel, dispatcher,
                 handling, handled>>

\* unsub(): unsubscribing again what another caller unsubscribed is an error
\* nobody looks at.
UnsubNext(u) ==
  /\ upc[u] \in Sub
  /\ live' = live \ {upc[u]}
  /\ upc' = [upc EXCEPT ![u] = @ + 1]
  /\ UNCHANGED <<made, known, unsent, wire, msgs, channel, dispatcher,
                 handling, handled>>

\* Mutant of CloseMsgs: the channel is closed before the subscriptions.
CloseMsgsFirst(u) ==
  /\ upc[u] = 1
  /\ channel' = "closed"
  /\ upc' = [upc EXCEPT ![u] = 2]
  /\ UNCHANGED <<made, live, known, unsent, wire, msgs, dispatcher, handling,
                 handled>>

\* Mutant of CloseMsgs: the channel is left open.
CloseMsgsForgotten(u) ==
  /\ upc[u] = MaxConns + 1
  /\ upc' = [upc EXCEPT ![u] = MaxConns + 2]
  /\ UNCHANGED <<made, live, known, unsent, wire, msgs, channel, dispatcher,
                 handling, handled>>

\* close(msgs); the panic of the second close is recovered.
CloseMsgs(u) ==
  /\ upc[u] = MaxConns + 1
  /\ channel' = "closed"
  /\ upc' = [upc EXCEPT ![u] = MaxConns + 2]
  /\ UNCHANGED <<made, live, known, unsent, wire, msgs, dispatcher, handling,
                 handled>>

-----------------------------------------------------------------------------
(* The NATS server and client library (external). *)

\* The server processes a SUB or an UNSUB.
ServerLearns(k) ==
  /\ (k \in live) # (k \in known)
  /\ known' = IF k \in live THEN known \cup {k} ELSE known \ {k}
  /\ UNCHANGED <<made, live, unsent, wire, msgs, channel, dispatcher,
                 handling, handled, upc>>

\* One subscription of the queue group gets the message; without any it goes
\* to other members or to nobody.
Publish(m) ==
  /\ m \in unsent
  /\ unsent' = unsent \ {m}
  /\ \/ \E k \in known : wire' = wire \cup {<<m, k>>}
     \/ known = {} /\ UNCHANGED wire
  /\ UNCHANGED <<made, live, known, msgs, channel, dispatcher, handling, handled,
                 upc>>

\* The client library sends the message on the channel, or drops it when the
\* subscription is gone or the channel full.
Deliver(m, k) ==
  /\ <<m, k>> \in wire
  /\ wire' = wire \ {<<m, k>>}
  /\ msgs' = IF k \in live /\ Len(msgs) < MaxChans THEN Append(msgs, m)
                                                   ELSE msgs
  /\ UNCHANGED <<made, live, known, unsent, channel, dispatcher, handling,
                 handled, upc>>

-----------------------------------------------------------------------------
(* subscribe's goroutine and the handlers. *)

\* for msgCopy := range msgs { go h(...) }: a closed channel is drained first.
RangeMsgs ==
  /\ dispatcher = "ranging"
  /\ msgs # <<>>
  /\ msgs' = Tail(msgs)
  /\ handling' = handling \cup {Head(msgs)}
  /\ UNCHANGED <<made, live, known, unsent, wire, channel, dispatcher, handled,
                 upc>>

\* Mutant of RangeEnds: the loop stops on close without draining.
RangeEndsAtOnce ==
  /\ dispatcher = "ranging"
  /\ channel = "closed"
  /\ dispatcher' = "ended"
  /\ UNCHANGED <<made, live, known, unsent, wire, msgs, channel, handling,
                 handled, upc>>

RangeEnds ==
  /\ dispatcher = "ranging"
  /\ channel = "closed"
  /\ msgs = <<>>
  /\ dispatcher' = "ended"
  /\ UNCHANGED <<made, live, known, unsent, wire, msgs, channel, handling,
                 handled, upc>>

HandlerReturns(m) ==
  /\ m \in handling
  /\ handling' = handling \ {m}
  /\ handled' = handled \cup {m}
  /\ UNCHANGED <<made, live, known, unsent, wire, msgs, channel, dispatcher, upc>>

-----------------------------------------------------------------------------
Unsubscribe(u) == CallUnsub(u) \/ UnsubNext(u) \/ CloseMsgs(u)
Dispatch == RangeMsgs \/ RangeEnds

Next ==
  \/ ChanQueueSubscribe
  \/ \E u \in Caller : Unsubscribe(u)
  \/ \E k \in Sub : ServerLearns(k)
  \/ \E m \in Msg : Publish(m) \/ HandlerReturns(m)
  \/ \E m \in Msg, k \in Sub : Deliver(m, k)
  \/ Dispatch

\* A called closure and the dispatching goroutine keep running; handlers,
\* publishers and the network owe nothing.
Fairness ==
  /\ \A u \in Caller : WF_vars(UnsubNext(u) \/ CloseMsgs(u))
  /\ WF_vars(Dispatch)

Spec == Init /\ [][Next]_vars /\ Fairness

-----------------------------------------------------------------------------
(* Properties. *)

\* The client library never sends on the closed channel (a panic in its read
\* loop nobody recovers), however many goroutines unsubscribe at once.
NoSendOnClosed == channel = "closed" => live = {}

\* A message the channel accepted is given to a handler, also when the
\* subscription ends while it waits.
AcceptedIsHandled ==
  \A m \in Msg : (\E j \in 1..Len(msgs) : msgs[j] = m)
                   ~> m \in handling \cup handled

\* Unsubscribing ends the dispatching goroutine.
DispatcherEnds == \A u \in Caller : upc[u] = 1 ~> dispatcher = "ended"

\* Unsubscribing stops new messages: once a caller is through the closure, the
\* channel only shrinks, so Stop leaves at most what it held to be handled.
NothingAfterUnsubscribe ==
  [][(\E u \in Caller : upc[u] > MaxConns) => Len(msgs') <= Len(msgs)]_vars
=============================================================================
