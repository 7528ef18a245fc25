---------------------------- MODULE SocketSession ----------------------------
(***************************************************************************)
(* The v2 WebSocket sessions (v2/pkg/spike/socket): each has a read loop   *)
(* (wsHandler) that handles one message of its client at a time, and       *)
(* goroutines that end its subscriptions, publish EventSocketConnected and *)
(* forward events.  The sessions share the mutex Monitor of                *)
(* v2/pkg/broker/specific-provider-base.go:35-62 holds while the owner of  *)
(* the event validates and the provider subscribes on each of its          *)
(* connections to the broker.  A session subscribes in the queue group of  *)
(* its id, which the client may choose; an empty id is no group.  Clients, *)
(* the Authenticator, the event's owner and the broker are external.       *)
(***************************************************************************)
EXTENDS Naturals, FiniteSets

CONSTANTS
  Session,    \* connections; also the ids newConnection gives them
  ClientId,   \* ids clients send with their token
  NoId,       \* the empty id, which they may send as well
  Connections, \* connections of the provider to the broker (MaxConns)
  Publication, \* publications of the one event that is monitored
  NoSession,  \* nobody holds the mutex
  MaxMonitors \* monitor messages of all the sessions together

ASSUME SessionAssumption ==
  /\ NoSession \notin Session
  /\ NoId \notin Session \cup ClientId
  /\ Connections \in Nat \ {0}
  /\ MaxMonitors \in Nat \ {0}

Id == Session \cup ClientId \cup {NoId}

\* One for all the connections that took it.
Subscription == [session : Session, group : Id, n : 1..MaxMonitors]
Copy == Subscription \X (1..Connections)

\* What the broker gives each publication once: a queue group or, of a subscription
\* that has none, each connection.
Share == [group : Id, alone : SUBSET Copy]
ShareOf(d) == [group |-> d[1].group, alone |-> IF d[1].group = NoId THEN {d} ELSE {}]
SharesOf(x) == {ShareOf(<<x, c>>) : c \in 1..Connections}

VARIABLES
  pc,          \* pc[s]: where the read loop of s is
  link,        \* link[s]: the connection as the next read finds it
  id,          \* id[s]: wsConnection.ID
  token,       \* token[s]: whether wsConnection.token is empty
  ctx,         \* ctx[s]: the session's context
  mutex,       \* the session in Monitor, which holds specificProviderBase.m
  monitors,    \* monitor messages of all the sessions so far
  subs,        \* subscriptions at the broker
  watched,     \* those with a goroutine that waits for the context
  unpublished, \* publications still to come
  inflight,    \* <<d, p>>: the broker has given p to the copy d
  got,         \* got[s][p]: how often p was written to the client of s
  shares,      \* shares[s]: those of the subscriptions s has made
  connected,   \* connected[s]: goroutines started that publish that s connected,
               \* since its token was last empty
  disconnected \* disconnected[s]: EventSocketDisconnected events of s

vars == <<pc, link, id, token, ctx, mutex, monitors, subs, watched, unpublished,
          inflight, got, shares, connected, disconnected>>

client == <<link, id, token>>
events == <<unpublished, inflight, got>>
announced == <<connected, disconnected>>

TypeOK ==
  /\ pc \in [Session -> {"read", "monitor", "validate", "respond", "ended"}]
  /\ link \in [Session -> {"open", "closed", "broken"}]
  /\ id \in [Session -> Id]
  /\ token \in [Session -> {"empty", "set"}]
  /\ ctx \in [Session -> {"live", "cancelled"}]
  /\ mutex \in Session \cup {NoSession}
  /\ monitors \in 0..MaxMonitors
  /\ subs \subseteq Subscription /\ watched \subseteq subs
  /\ unpublished \subseteq Publication
  /\ inflight \subseteq Copy \X Publication
  /\ got \in [Session -> [Publication -> Nat]]
  /\ shares \in [Session -> SUBSET Share]
  /\ connected \in [Session -> Nat] /\ disconnected \in [Session -> Nat]

Init ==
  /\ pc = [s \in Session |-> "read"]
  /\ link = [s \in Session |-> "open"]
  /\ id = [s \in Session |-> s]
  /\ token = [s \in Session |-> "empty"]
  /\ ctx = [s \in Session |-> "live"]
  /\ mutex = NoSession
  /\ monitors = 0
  /\ subs = {} /\ watched = {}
  /\ unpublished = Publication /\ inflight = {}
  /\ got = [s \in Session |-> [p \in Publication |-> 0]]
  /\ shares = [s \in Session |-> {}]
  /\ connected = [s \in Session |-> 0] /\ disconnected = [s \in Session |-> 0]

Goto(s, l) == pc' = [pc EXCEPT ![s] = l]

-----------------------------------------------------------------------------
(* The read loop.  Keepalives and refused tokens leave the session as it is. *)

\* Mutant of First: every token message announces the connection.
FirstAlways(s) == TRUE

\* publish := string(ws.GetSessionToken()) == ""
First(s) == token[s] = "empty"

\* WSMessageToken.Handle with a valid token, of which ValidateToken makes another
\* or none, and an id of the client's choice; when the answer cannot be written
\* there is no announcement.
TokenMessage(s) ==
  /\ pc[s] = "read"
  /\ link[s] = "open"
  /\ \E i \in ClientId \cup {NoId} : id' = [id EXCEPT ![s] = i]
  /\ \E written \in BOOLEAN, t \in {"set", "empty"} :
       /\ token' = [token EXCEPT ![s] = t]
       /\ link' = IF written THEN link ELSE [link EXCEPT ![s] = "broken"]
       /\ connected' = [connected EXCEPT ![s] =
            IF t = "empty" THEN 0 ELSE IF written /\ First(s) THEN @ + 1 ELSE @]
  /\ UNCHANGED <<pc, ctx, mutex, monitors, subs, watched, events, shares,
                 disconnected>>

\* Any other message has the token validated again, if there is one.
ValidateAgain(s) ==
  \/ UNCHANGED <<token, connected>>
  \/ /\ token[s] = "set"
     /\ token' = [token EXCEPT ![s] = "empty"]
     /\ connected' = [connected EXCEPT ![s] = 0]

\* WSMessageMonitor.Handle up to Broker().Monitor, which waits for the mutex.
MonitorMessage(s) ==
  /\ pc[s] = "read"
  /\ link[s] = "open"
  /\ monitors < MaxMonitors
  /\ monitors' = monitors + 1
  /\ ValidateAgain(s)
  /\ Goto(s, "monitor")
  /\ UNCHANGED <<link, id, ctx, mutex, subs, watched, events, shares,
                 disconnected>>

\* WSMessageRequest.Handle, WSMessagePublish.Handle, or a monitor message that is
\* refused before Monitor.
OtherMessage(s) ==
  /\ pc[s] = "read"
  /\ link[s] = "open"
  /\ ValidateAgain(s)
  /\ UNCHANGED <<pc, link, id, ctx, mutex, monitors, subs, watched, events, shares,
                 disconnected>>

\* s.m.Lock(), then the request to the owner of the event.
LockMonitor(s) ==
  /\ pc[s] = "monitor"
  /\ mutex = NoSession
  /\ mutex' = s
  /\ Goto(s, "validate")
  /\ UNCHANGED <<client, ctx, monitors, subs, watched, events, shares,
                 announced>>

\* Mutant of GroupOf: each subscription has a group of its own.
GroupOfSubscription(s) == <<id[s], monitors>>

\* ws.GetID().String()
GroupOf(s) == id[s]

\* SubscribeRaw in the group of the session's id, on every connection: those that
\* refuse, all of them perhaps, are logged, and no error is returned.
SubscribeRaw(s) ==
  LET new(g) == [session |-> s, group |-> g, n |-> monitors]
  IN  \/ /\ subs' = subs \cup {new(GroupOf(s))}
         /\ shares' = [shares EXCEPT ![s] = @ \cup SharesOf(new(id[s]))]
      \/ UNCHANGED <<subs, shares>>

\* Mutant of Validated: an error returns without Unlock.
ValidatedStillLocked(s) ==
  /\ pc[s] = "validate"
  /\ \/ SubscribeRaw(s) /\ Goto(s, "respond") /\ mutex' = NoSession
     \/ Goto(s, "read") /\ UNCHANGED <<mutex, subs, shares>>
  /\ UNCHANGED <<client, ctx, monitors, watched, events, announced>>

\* The request returns: nil or 503 subscribes, any other error is returned; the
\* mutex is released on the way out.
Validated(s) ==
  /\ pc[s] = "validate"
  /\ mutex' = NoSession
  /\ \/ SubscribeRaw(s) /\ Goto(s, "respond")
     \/ Goto(s, "read") /\ UNCHANGED <<subs, shares>>
  /\ UNCHANGED <<client, ctx, monitors, watched, events, announced>>

\* The goroutine that waits for the context, and the response.
Respond(s) ==
  /\ pc[s] = "respond"
  /\ watched' = watched \cup {x \in subs : x.session = s}
  /\ Goto(s, "read")
  /\ UNCHANGED <<client, ctx, mutex, monitors, subs, events, shares, announced>>

\* Mutant of EndClosed: the context is not cancelled.
EndUncancelled(s) ==
  /\ pc[s] = "read"
  /\ link[s] = "closed"
  /\ disconnected' = [disconnected EXCEPT ![s] = @ + 1]
  /\ Goto(s, "ended")
  /\ UNCHANGED <<client, ctx, mutex, monitors, subs, watched, events, shares,
                 connected>>

\* ReadJSON returns a CloseError, a close frame or the end of the stream: the
\* context is cancelled, EventSocketDisconnected published, and the loop returns.
EndClosed(s) ==
  /\ pc[s] = "read"
  /\ link[s] = "closed"
  /\ ctx' = [ctx EXCEPT ![s] = "cancelled"]
  /\ disconnected' = [disconnected EXCEPT ![s] = @ + 1]
  /\ Goto(s, "ended")
  /\ UNCHANGED <<client, mutex, monitors, subs, watched, events, shares,
                 connected>>

\* Any other error of a broken connection: the loop reads on, gorilla's reader
\* panics at the thousandth failed read, and the recovery only closes.
EndBroken(s) ==
  /\ pc[s] = "read"
  /\ link[s] = "broken"
  /\ Goto(s, "ended")
  /\ UNCHANGED <<client, ctx, mutex, monitors, subs, watched, events, shares,
                 announced>>

-----------------------------------------------------------------------------
(* The goroutines of a session, its client and the broker. *)

\* <-ws.Context().Done(); unsubscribe(), on every connection.
Unsubscribe(x) ==
  /\ x \in watched
  /\ ctx[x.session] = "cancelled"
  /\ subs' = subs \ {x}
  /\ watched' = watched \ {x}
  /\ UNCHANGED <<pc, client, ctx, mutex, monitors, events, shares, announced>>

\* The client closes, or the connection breaks: a reset, a timeout, or the
\* server's own c.Close() on SIGTERM.
Disconnect(s) ==
  /\ link[s] = "open"
  /\ \E l \in {"closed", "broken"} : link' = [link EXCEPT ![s] = l]
  /\ UNCHANGED <<pc, id, token, ctx, mutex, monitors, subs, watched, events,
                 shares, announced>>

\* The broker gives an event to one subscription of each group and, of one that is
\* in none, to each connection that took it; connections are alike, so they are
\* the first ones.
Publish(p) ==
  /\ p \in unpublished
  /\ unpublished' = unpublished \ {p}
  /\ \E to \in SUBSET {d \in subs \X (1..Connections) : d[1].group = NoId \/ d[2] = 1} :
       /\ \A x \in subs : \E d \in to :
            d[1].group = x.group /\ (x.group = NoId => d[1] = x)
       /\ \A d, e \in to : ShareOf(d) = ShareOf(e) => d = e
       /\ \A d \in to : d[2] > 1 => <<d[1], d[2] - 1>> \in to
       /\ inflight' = inflight \cup (to \X {p})
  /\ UNCHANGED <<pc, client, ctx, mutex, monitors, subs, watched, got, shares,
                 announced>>

\* handleWSEvent writes the event, the copy of the last connection first; what the
\* broker had accepted is handled also after unsubscribing, and a write to a closed
\* connection fails.
HandleEvent(d, p) ==
  /\ <<d, p>> \in inflight /\ <<<<d[1], d[2] + 1>>, p>> \notin inflight
  /\ inflight' = inflight \ {<<d, p>>}
  /\ LET s == d[1].session
     IN  got' = IF link[s] = "open" THEN [got EXCEPT ![s][p] = @ + 1] ELSE got
  /\ UNCHANGED <<pc, client, ctx, mutex, monitors, subs, watched, unpublished,
                 shares, announced>>

-----------------------------------------------------------------------------
Monitor(s) == LockMonitor(s) \/ Validated(s) \/ Respond(s)

End(s) == EndClosed(s) \/ EndBroken(s)

ReadLoop(s) == \/ TokenMessage(s) \/ MonitorMessage(s) \/ OtherMessage(s)
               \/ Monitor(s) \/ End(s)

Next ==
  \/ \E s \in Session : ReadLoop(s) \/ Disconnect(s)
  \/ \E x \in subs : Unsubscribe(x)
  \/ \E p \in Publication : Publish(p)
  \/ \E e \in inflight : HandleEvent(e[1], e[2])

\* A session goes on with what it has begun: requests return (RequestReply),
\* and a Go mutex hands itself to a goroutine that waits long.  Clients owe
\* nothing.
Fairness ==
  \A s \in Session : /\ WF_vars(Monitor(s) \/ End(s))
                     /\ SF_vars(LockMonitor(s))
                     /\ WF_vars(\E x \in subs : x.session = s /\ Unsubscribe(x))

Spec == Init /\ [][Next]_vars /\ Fairness

-----------------------------------------------------------------------------
(* Properties. *)

\* However often a client monitors an event, it is written to it at most once
\* for each id it had: its subscriptions share a group.  Only the empty id, which
\* messagetoken.go:24 takes, is no group (provider.go:91-93): the event is then
\* written once for each connection and monitor message.
OncePerId ==
  \A s \in Session, p \in Publication : got[s][p] <= Cardinality(shares[s])

\* A session is announced as connected once while it keeps a token, however often
\* its client sends one; only after a validation that gave an empty token, in a
\* token message (messagetoken.go:17-23) or before any other
\* (messagemonitor.go:15-21), is it announced again.  It is announced as
\* disconnected at most once.
AnnouncedOnce ==
  \A s \in Session : connected[s] <= 1 /\ disconnected[s] <= 1

\* A client that closes leaves no subscription, also when it closes while it
\* monitors.
ClosedReleases ==
  \A s \in Session :
    link[s] = "closed" ~> {x \in subs : x.session = s} = {}

\* No session waits for ever for the mutex of Monitor.
MonitorReturns ==
  \A s \in Session : pc[s] = "monitor" ~> pc[s] = "read"
=============================================================================
