# Spike Broker in TLA+

A formal model of this repository: TLA+ modules for the parts of the broker
whose correctness depends on interleavings, failures and order, TLC
configurations that check them on small instances, and TLAPS proofs of the
properties that matter most for every value of the constants.

Spike Broker lets Go services answer requests and exchange events over NATS.
The repository holds two generations: v1 (`main.go`, `pkg/`) runs services in
one process with a database behind them; v2 (`v2/pkg/`) is a library whose
services, HTTP server and WebSocket sessions use a `broker.Provider`.

## 1. Inventory

| Component | State | Operations | What is hard | What makes it correct |
|---|---|---|---|---|
| v2 NATS provider, requests (`v2/pkg/broker/providers/nats/provider.go:143-190, 277-345`, `callbase.go`) | per call a connection, an inbox, a channel; the service's msgs channel and goroutines | RequestRaw, processResponse, PublishRaw/Reply | loss, reordering over 20 connections, timers against replies, crashes, full channels | at most one execution, one outcome, an answer really given, 503 only if nobody runs it; no send on a closed channel |
| v2 NATS provider, subscriptions (`provider.go:83-112, 255-275`) | subscriptions, one channel, the dispatching goroutine | SubscribeRaw, dispatch, unsubscribe | unsubscribing from several goroutines while messages arrive | nothing accepted is lost, nothing new afterwards, the goroutine ends |
| v2 connection pool (`provider.go:27-75, 114-130, 226-244`) | one ring for the process, connMutex | NewNatsProvider, requestConn, Close | several providers, partial creation, Close without the mutex | an open provider's connections work, none leak, even use; what holds no more once a Close has crossed others |
| v2 service API (`v2/pkg/spike/api-service-impl.go`) | subscriptions, monitorSubs, the service, its context | Setup, StartService, Stop, Live | partial failure and retry, a service that does not answer | served once started unless the broker refused it, stopped in order |
| v2 WebSocket sessions (`v2/pkg/spike/socket`), `specificProviderBase.Monitor` | id, token, context, subscriptions; the provider's mutex | token, monitor, close, break, context done | asynchronous ends, shared ids, a slow validator, empty ids and tokens | an event once per id, announced once per token, nothing left behind |
| v2 call pipeline (`spike/request-handler.go`, `broker/access.go`, `call.go`, `error.go`, `specific-provider-base.go:68-152`) | one call | authenticate, authorise, validate, handle, decode | a panic before or after the answer, several replies, a validation that finds nobody | no handler before the checks, nothing refused is handled, nil means handled, panics are contained |
| v2 test API (`spike/api-test-service-impl.go`, `test-request-handler.go`, `testProvider`) | repository, external APIs and the one test provider's mocks; per request of a burst a goroutine | StartService, TestAccess, TestRequestOrPublish, burst | a burst's goroutines start in order but run together, and share all three | a burst returns, with nil only if all went well; a handler finds what its own burst set |
| v2 HTTP server (`spike/http-server.go`) | router, `http.Server` | ListenAndServe, Shutdown, httpHandler | the goroutine that listens reports to nobody; Shutdown may overtake it | quiet after Shutdown, errors reported, a started service is reachable |
| v2 resources (`v2/pkg/rids`) | none | endpoint names, patterns | parameters and wildcards | planned as operators |
| v1 database lock (`pkg/service/base-service.go:99-200`, `pkg/models/lock.go`) | one row per lock | TryLock, Lock, Unlock | crashes, failed queries, takeover after five minutes, the first use | one holder, Unlock finds its own lock |
| v1 migrations (`pkg/models/migration/base.go`, `base-service.go:222-263`) | the SchemaVersion table | Migrate, Save under the lock | a crash between migrating and recording | in order, once, nobody stuck |
| v1 process (`main.go`, `pkg/route/route-http-server.go`, `route-service.go`) | the services, the HTTP server's goroutines, the signal | start, dependencies, serve, restart, stop | unbuffered channels between goroutines, signals during the start, where the route service is listed | HTTP when all have started, a signal stops everything, one server |
| v1 NATS provider (`pkg/service/providers/nats/nats-provider.go`) | as v2, plus the requests a handler's wrapper makes first | Request, RequestRaw, Publish, the wrapper of `subscribe`, recover | two requests inside a request, each with its timeout; a shared error value; answers that are errors only if they have a text | checked before handled, every call and every check returns, nil means somebody said so |
| v1 WebSocket sessions (`pkg/route/socket`) | as v2 | requests, publications, monitors | as v2 | its calls are callers in `V1Calls`; the sessions are not modelled again |
| v1 requests, resources, handlers (`pkg/service/request`, `pkg/rids`, `pkg/route`) | answers, AuthMiddleware | OK, Error, Redirect, access, HTTP handlers | who reads which answer as what | part of `V1Calls` |
| Utilities; encodings | values | pure | none | not modelled |
| Embedded NATS server, Kafka and Spike providers | external, or commented out | | | not modelled |

How they interact: the service API subscribes its endpoints through
`specificProviderBase`, which calls `SubscribeRaw` of the NATS provider; a
request of a client, of the HTTP server or of a session becomes `RequestRaw`,
travels through the NATS server to one member of the service's queue group and
comes back through the caller's inbox; all of them take their connections from
the pool. A v1 process starts its services in order, each of which migrates
its tables under the database lock shared by all processes.

## 2. Modules

| Module | Models | Built on |
|---|---|---|
| `Rpc` | abstract: what a caller of Request may rely on | |
| `RequestReply` | requests over NATS, caller to handler and back | refines `Rpc` |
| `Subscription` | one subscription, from SubscribeRaw to its closure | |
| `ConnPool` | the ring of connections and its providers | |
| `ServiceLifecycle` | StartService and Stop of one service | |
| `HttpServer` | the HTTP server of v2 | |
| `TestBurst` | StartService, TestAccess and the burst of the test API | |
| `V2Process` | a v2 process: either implementation of APIService, the real one beside its HTTP server | composes `ServiceLifecycle`, `HttpServer`, `TestBurst` |
| `SocketSession` | sessions, Monitor and its mutex | |
| `GuardedCall` | abstract: what the broker promises of a call: checked, then handled or refused for good, success only if handled | |
| `CallPipeline` | one v2 call from Request or Publish to the handler and back: checks, replies, panics | refines `GuardedCall`; its messages travel as `RequestReply` lets them |
| `V1Calls` | the same of v1: the wrapper's requests to the route service, its answers, sockets and HTTP callers | refines `GuardedCall`, with excuses |
| `DBLock` | the database lock | |
| `Migration` | migrations under the lock | composes `DBLock` |
| `ProxyServer` | the v1 process and its HTTP servers | |
| `V1Process` | a v1 process among others on one database: starting its first service migrates | composes `ProxyServer`, `Migration` |
| `MC...` | the instances for TLC, with symmetry where it is used | each extends its module |
| `...Proofs` | theorems | each extends its module; `V1ProcessProofs` holds those of `DBLock`, `Migration` and `ProxyServer` too |

The definitions marked *Mutant of ...* in a comment are not part of the
specification: they are the bugs the properties are tested against
(`PROJECT.json`, `mutants`).

**RequestReply.** One action per step of `RequestRaw` that other goroutines can
tell apart: `Subscribe` (take a connection, make channel and inbox, subscribe),
`PublishMsg`, `ReceiveReply` and `TimerFires` (the two cases of the select in
`processResponse`), and the deferred calls `Unsubscribe` and `CloseChan` in
their order. On the service's side `Join`, `Dispatch`, `SendReply`,
`HandlerReturns` and `Crash`. The NATS server and client library are external:
`RouteRequest` gives a request to one member of each queue group and drops it at
a full channel, `NoResponders` answers for an empty group, `DeliverReply` and
`Lose...` deliver in any order or not at all. A reply is `ok`, `error`,
`extend` (a timeout extension) or `none` (empty). Timers may fire whenever they
are armed.

**Subscription.** The closure is a loop over the connections and a `close`;
callers interleave inside it, and a second close panics and is recovered, as in
the code. The server learns of SUB and UNSUB later than the client.

**ConnPool.** `ring` and `slot` are the pointer `globalConnections`; `Connect`
links one connection, `ConnectFails` is the panic after which a shorter ring
stays; `Close` is six steps because it holds `connMutex` only in `drain`.
Nothing orders them: providers may be open at once, as in
`test/v2/nats_test.go:58-69`, and `requestConn` runs before, during and after a
`Close`, whose ring a late one writes back. `split` are the rings `Unlink` took
apart, in which `Following` and `Linked` leave open which elements are still
linked. `home`, `ended` and `crossed` are history: the ring a provider found or
made, the rings a Close has come upon, and whether a Close was ever under way
beside another provider or a `requestConn`. `Connect` numbers the elements so
that the one `globalConnections` points to is the last: `ring.Link` returns the
old next one (line 68), but none has been given out, so that the names of the
elements do not matter.

**ServiceLifecycle.** `StartService` goes through phases (handlers, Live,
monitors, validators) in which each endpoint is subscribed; the provider logs
what the broker refuses and reports no error (`provider.go:93-111`), so that
`Subscribe` either takes or is `refused` and goes on alike. `SubscribeFails` is
the error of what is no event, or of another provider: it returns and leaves the
rest, and the owner may try again. `Stop`, once StartService has returned,
unsubscribes the closures of the last attempt, asks the service, waits, cancels.

**HttpServer, V2Process.** `listen` is where ListenAndServe is, `server` what
its goroutine has come to: it binds the port, fails, or finds the server
already shut down, which net/http remembers for good. `V2Process` puts the
server beside the service: what a client is answered depends on whether some
StartService subscribed the endpoint (`Served`), since queue groups outlive the
StartService that failed; `ready` are the requests that were accepted while the
service was started. That net/http binds the port and then remembers the
listener is one step: a Shutdown between the two is left out. A process has one implementation of APIService (`api`);
the test one makes no HTTP server.

**TestBurst.** `at[i]` is where the goroutine of request i is: it waits for the
order, passes it on, sets the repository, the external APIs and the mocks, calls
the handler, whose own requests find the mocks. `shared` is what these
goroutines, `StartTest` and `TestAccess` write, and what a refused repository or
external API leaves of it; `seen` what each handler found there, and `given` what
the TestAccess under way was given, two history variables. A handler's answer
calls the callback of the test, which may end the goroutine (`CallbackExits`). The results go through one channel, of which the
burst takes the first error or all.

**SocketSession.** Each session has a read loop; `Monitor` takes the mutex,
waits for the validation and, still holding it, subscribes on every connection
in the queue group of the session's current id; `monitors` counts the monitor
messages of all sessions. The id is what the client sends, also none: without a
group each connection of each subscription is given a `Copy` of an event, and
`shares` counts what a session may so be written: one per group, or one per
copy. Monitors, requests and publications set the session token again
(`ValidateAgain`), as token messages do, to a token or to an empty one. A session
ends by a close message (`EndClosed`) or breaks (`EndBroken`).

**CallPipeline.** `kind` says what a call calls; `stage` is where the goroutine
that handles it is: `owner` in `validatePublish`, then `authenticate`,
`authorize`, `validate` and `handle` in `handleRequest`. Each check is an
action that passes, refuses (answer and return) or panics. `Request`, `Receive`
and `TimeOut` are `RequestRaw` as its callers see it; the answers of a call are
a set, because any may arrive first. `PublishRaw` follows a validation that was
`Granted`, or none for a service's own events (`Announce`). `Decoded` is what
`Request` makes of an answer's code and data. `passed`, `refused` and `handled`
are history. A panic in `handleRequest` is recovered, one in the validation of
an event is not and ends the process.

**GuardedCall** is the promise of both generations: a call has the checks its
method demands (`terms`), passes them, is refused or handled once, and is told
of a success only when it was handled. `CallPipeline` implements it without
excuses, if validators deny with a code of denial. `V1Calls` implements it with
two: an empty answer (nobody is subscribed) and an error without a message,
both of which v1 decodes as a success (`nats-provider.go:433`). A check asked in
vain may not count as passed: `Silences` names the notes that may stand for one.
`CallPipeline` has none, `V1Calls` one, `silence`, for the permission.

**V1Calls.** A message is a call or one of the two requests its wrapper makes
of the route service before an authenticated handler runs (`token`,
`permission`), each with its own sender, inbox and timer. `Wrapper` is the
goroutine of the subscription: `NoToken`, `ValidateToken`,
`UserHavePermission`, then `AccessDenied` or `CallHandler`, `HandlerReplies` and
`Recovers`. A nil that comes of an empty answer or of an error without a message
is the result `hollow`: its reader goes on as with any nil, but what it notes of
a permission is `silence` and not the check (`Noted`). `DeliverRefused` is the
panic of `Unmarshal` over the data of a RequestRaw or PublishRaw. `text` is the message of the package's `ErrorInternalServerError`,
which recover overwrites for all handlers. The callers are services, the HTTP
handler behind `AuthMiddleware`, and sockets, which may refuse by themselves.

**DBLock, Migration.** A row is absent, locked or unlocked. `Select` is the
transaction's SELECT FOR UPDATE and the check of `UnlockedOn` and `LockedOn`,
`Save` its write. Calls of the database fail: a Save that does is tried again
(`SaveFails`); a query that does leaves the zero row, which TryLock takes for a
free lock (`SelectFails`, remembered as `blind`) and Unlock for another's
(`UnlockUnread`, `unread`); the write of Unlock panics, or the transaction's error
is ignored and the row stays locked (`UnlockFails`). What locks is a goroutine (an element of `Proc`), what the row
names is the service key of its process (`ServiceKey`), which goroutines may
share. Time is a tick that ages the lock and those who hold it; `Lease` is the
five minutes, and a goroutine saves, works and unlocks within `MaxHold` ticks.
`Migration` extends `DBLock`: each of its steps is one of the lock's or leaves
the lock alone (theorem `UsesLock`). A dead process stays dead; a restarted one
is another element of `Proc`, with another key. The goroutines in `Route` are in
the Base.Init of the route service, whose one version migrates nothing
(`RouteVersion`).

**ProxyServer.** `NewProxyServer`'s goroutine is a program counter over its
loops; `Serve`, `Replace`, `Spawn` and `ServerStarts` are `serve` and the
goroutines it makes, meeting on the channels `terminated` and `started`;
`Listen` binds the port or dies of log.Fatal, `Shutdown` frees it. `route` says
how the process runs the route service: not at all, by its own start
(`named`), or, besides, as one of the listed services, which restarts the
server; `place` is where the caller listed it, and its `AllServicesStarted` serves
HTTP in that turn. `Killed` is an end from outside, or by the panic of a service's start.

**V1Process.** The goroutine of `ProxyServer` is three of the `Proc` of
`Migration` (`Own`), one after the other: `RouteInit` in the start of the route
service, `Self` in that of the first other service, which has versions to migrate,
and `RouteAgain` in that of a listed route service. While one is `Starting` it is
in its `Base.Init`, and `Proceeds` lets the loop go on only when Init has
returned. A panic in Init (`Panics`: the lock's, an error of Migrate) and a death
of the process (`SelfDies`) end both. The Base.Init of services after the first
other one, which would migrate tables of their own in the same way, is left out;
the other elements of `Proc` are other processes in theirs.

## 3. Runs

| Run | Instance | Shows |
|---|---|---|
| `request_reply` | 2 calls, 2 instances, 2 connections, channels of 1, 2 replies per handler | no send on a closed channel, no call reads another's reply, no double execution, 503 means never run, replies find their inbox; the provider implements `Rpc` |
| `subscription` | 2 connections, 3 messages, channel of 1, 2 unsubscribing goroutines | nothing accepted is lost, nothing arrives after, the goroutine ends |
| `conn_pool` | 3 providers, also open at once, 2 rings of 2, each connection given out twice, 2 users, also during and after a Close | an open provider gives working connections, none leaks, even use, unless a Close crossed others and came upon the ring |
| `v2_process` | 2 handlers, 2 monitors, 2 validators, 2 starts, 1 refused subscription; 1 HTTP request; bursts of 3 and a TestAccess with 2 kinds of mocks | a request accepted while started is told of no service only where the broker refused one; Stop withdraws the last attempt's monitors and cancels last, and returns if the service answers; quiet after Shutdown; a burst's handlers find what the burst set, validators what TestAccess set, and the burst returns unless a callback ended a goroutine |
| `socket_session` | 2 sessions, the id of one and the empty one for clients, 2 connections, 2 monitor messages, 1 event | an event once per id, or per copy of the empty one, one announcement while a token is kept, a closed session leaves nothing, nobody waits for ever for the mutex |
| `call_pipeline` | 2 calls of any kind, 1 validator, 2 replies, validators that deny with a code of denial | the provider implements `GuardedCall` with no excuses; what is refused is never handled; only an event's validation panics the process; every call returns |
| `v1_calls` | 2 calls, 1 of them to an authenticated method, 2 replies, errors with and without text | v1 implements `GuardedCall` with its excuses and its silence, nil means that the handler said so or that its reader could not tell, every call returns and every wrapper gets through its checks |
| `migration` | 3 goroutines, 2 of them with one service key, 1 of these the route service's, 2 versions, lease 2, hold 1, the lock's row there, 1 failure nobody looks at | the lock, while no query of TryLock fails: one holder, Unlock panics only of what it could not read, takeover only when due; the migrations: in order, once, nobody stuck |
| `v1_process` | 2 services, the route service absent, started once, or listed again as the first or the second; the process and another one, 1 version, lease 2, hold 1, 1 failure | HTTP when all services have started and the tables are migrated, only those after a listed route service not yet told, and, for a route service started once, never fatal; one server at a time; a signal stops everything or the process has died |
| `db_lock_first` (violated) | 2 processes, no row yet | two processes hold the lock and one panics in Unlock |
| `call_denied` (violated) | 1 call, validators that deny with any code | a denied publication is handled |
| `http_listens` (violated) | 1 endpoint of each kind | ListenAndServe returns nil though nothing listens |

**Why the bounds are enough.** The interesting cases need two of a kind: two
calls to confuse their replies, two instances to run a request twice, two
connections to reorder, two closers to close twice, two goroutines in
`requestConn`. Channels of one element are full as soon as something waits;
three messages on two connections give one queued, one in flight and one to
come. A hold one shorter than the lease leaves one tick between the longest
work and the takeover; of three goroutines one holds or has died, one of the
same process and one of another compete, so that a lock that were told apart by
its key alone would be unlocked by the wrong one. Two versions have an order. `MaxReplies`, `MaxStarts`,
`MaxRefused`, `MaxFailures`, `MaxMonitors` (of all sessions together), `MaxRings`
and `MaxUses` cap what the code leaves unbounded, each at a value at which the
properties' mutants are found and the exceptions they state occur: a second
StartService after a failed one, a second ring after a dropped one, one failed
call, which is of any of the kinds above. `call_pipeline` has two calls because a panic or a crash during one ends the
other; `v1_calls` has two because the message of an error goes from one to the
other's recover. A burst of three has a request that is first, one in the middle
that receives and passes the order, and a last one; `v2_process` has two
handlers and two monitors so that a StartService fails half-way through each.
`v1_process` has two services, so that the signal finds the process before, in
the middle of and after each of its loops, and the other service does not start
before the first is through its migration; its other process makes it wait for
the lock, also when that one died with it.

**Deadlock** is checked in `request_reply`, `call_pipeline`, `call_denied` and
`v1_calls`. The other systems stop
by design (everything closed, every process done or dead, every burst returned)
and say so.

**Fairness.** Goroutines that can step do (weak fairness on each one's steps
together, never on one branch of a select): callers, unsubscribers and the
dispatcher, sessions, processes that migrate. Mutexes and database locks get
strong fairness, because Go's mutex and the database serve waiters in turn
(`LockMonitor`, `SelectMigration`, `SaveMigration`). The goroutines that end a
session's subscriptions run. In `V1Process` the starts of a process's services are
steps of one goroutine (`Starters`) and fair together. Time passes. Messages,
crashes, clients, the owner's calls and the NATS server get none, with two
assumptions about an outsider: the constant `Answers` (the service answers
`Stop`), and in `V1Process` that the owner receives from `connected`, as every
caller in the repository does. A validation returns because
`RequestRaw` does (`EventuallyReturns` of `CallPipeline`). `MigrationSpec` and `ProxySpec`, which `V1Process` composes,
state no fairness: `FairMigrationSpec` and `V1Spec` do. In `CallPipeline` and
`V1Calls` a waiting caller's steps are fair together, so its timer fires at last
unless it is extended, and the extensions are bounded by `MaxReplies`, as a
handler's calls of Timeout are finite; a wrapper that waits for the route service
is fair because its own requests are such callers. `BurstFairness` is the fairness
of the scheduler to the goroutines of a burst, taken together.

**Findings.** The violated runs are disagreements between the code and what its
comments or assertions say; `PROJECT.json` quotes both sides.

**Other observations** made while modelling, which the properties leave room
for rather than assert:

- Live (`api-service-impl.go:79`) is subscribed before the monitors, the
  validation endpoints and `Service.Start`, and never unsubscribed, so it also
  answers for a service that is not ready, has failed or has stopped
  (`rids/base.go:59` says it "responds when service is ready").
- Providers of a process share one ring: `Close` of one closes the connections
  of all (`provider.go:114-130`), and a `requestConn` under way at its end writes
  the closed ring back for the next provider to find. That is the exception
  (`crossed`) of `OpenWorks` and `NoLeak`.
- `SubscribeRaw` logs what each connection refuses and returns no error
  (`provider.go:93-111`): a service may be started with an endpoint nobody
  serves. `ServedOnceStarted` has these endpoints as its exception.
- A client may give its session an empty id (`messagetoken.go:24`), for which
  `Monitor` makes no queue group: an event is then written once for each of the
  20 connections and each monitor (`OncePerId` counts the copies). One whose
  validation yields an empty token is announced again with its next one
  (`messagetoken.go:22`, `AnnouncedOnce`).
- `TestAccess` drops `Mocks.Repository` (`api-test-service-impl.go:116-117`
  assigns the nil parameter), in favour of which `api-test-service.go:25`
  deprecates that parameter: its validators find no repository then. `MocksOfTest`
  says which they find, not that it is the one promised.
- A callback of a burst's request that ends its goroutine, as testify's `require`
  does, sends no result, and the burst waits for ever
  (`api-test-service-impl.go:196, 208-216`): an exception of `BurstEnds`.
- The lock ignores what its queries return (`base-service.go:125, 186`). A failed
  one lets a second holder in, or makes Unlock panic over its own lock, and a
  failed transaction leaves the lock taken (line 184). The lock's properties end
  with the first, except the second and hold with the third.
- A route service listed before other services serves HTTP before those know that
  all have started (`main.go:131-133`); all have started and seen their
  dependencies by then. `ServesLast` has these services as its exception.
- The answer to v1's request for a permission may be empty, or an error without a
  message (`nats-provider.go:228-232, 433`): the call is then handled as if it
  were permitted. `GuardedCall` calls this a silence.
- `getTimeout`'s errors (`provider.go:326-338`), for a `timeout:` reply that is no
  number, are left out of `RequestReply`: `callBase.Timeout` formats one
  (`callbase.go:179`).
- The panic of an event's validator (`api-service-impl.go:106-140`) is
  recovered neither there nor in the goroutine of `provider.go:263`: it ends the
  process. `PanicContained` says that nothing else does.
- `StartService` replaces `monitorSubs` (`api-service-impl.go:87`): after a
  failed attempt and another one, Stop logs that it unsubscribed from all
  monitors (line 162) and leaves those of the first. `OrderlyStop` speaks of
  the last attempt only.
- `Stop` (`api-service-impl.go:167`) waits for the service without a timeout,
  although `service/service.go:17-18` says 30 seconds. `StopReturns` holds with
  `Answers = TRUE`; with `FALSE` TLC shows a Stop that never returns. Handlers,
  Live and the validation endpoints stay subscribed after Stop.
- A burst that fails leaves its other requests running, one of them perhaps
  blocked on the order for ever (`api-test-service-impl.go:196-212`); what they
  find afterwards may be another test's, so `MocksOfTest` ends with the error. An
  empty burst panics at `order[0]`.
- `http.Server.Shutdown` does not wait for hijacked connections: web sockets
  outlive it. A second ListenAndServe makes chi panic, since middleware must
  precede routes.
- v1 `Close` leaves the ring in `globalConnections` with its connections closed
  (`nats-provider.go:136`).
- v1 takes an empty answer, and an error without a text, for a success
  (`nats-provider.go:433`): the excuses of `V1Calls`.
- A socket that breaks without a close frame (`socket/ws.go:78`) is read until
  gorilla's reader panics; its context is not cancelled and its end is not
  announced. `ClosedReleases` speaks of closed links only.
- A restarted v1 HTTP server may find the port still taken, and `log.Fatal`
  (`pkg/route/route-http-server.go:99`) ends the process; and without the route
  service a signal makes `routerService.Stop` (`main.go:144`) use a nil
  provider. Both are in `ProxyServer`, as the variable `process`; `ServesLast`
  says, too, that a process that runs the route service once never dies of them.
- `ServesReady` needs neither the row of the lock nor the lease: a process that
  shares its lock with another still serves only when all versions are recorded,
  though perhaps migrated twice.
- After the last `Stop` of a v1 process nobody receives from `terminated`
  (`route-http-server.go:104`), so the HTTP server listens until the process
  ends.
- A failed query for the schema version counts as version 0
  (`migration/base.go:37`), so recorded versions are migrated again: `misread`
  in `Migration` remembers it, and `AllRead` ends the promises of `AppliedOnce` and
  `NeverMigratedAgain` with it.

## 4. Proofs

All proofs are checked by TLAPS for arbitrary constants that satisfy the named
assumptions of the modules.

*RequestReplyProofs.* `TypeCorrect`, then `Invariant`, whose inductive
invariant has three parts: `CallerInv` ties a call's program counter to its
inbox, subscription and channel (an inbox belongs to one call, for inboxes are
fresh); `RequestInv` says a request is in exactly one place, on its way, queued
or started once, and that a call whose request was answered by "nobody" was
never routed; `MessageInv` says every message in the network or in a channel
was published for the call whose inbox it names, and is an answer some handler
gave. The five safety properties follow (`NeverSendsOnClosed`,
`ReadsOwnReplies`, `RunsAtMostOnce`, `UnavailableNeverRuns`,
`RepliesFindInbox`), and so does `Refinement`: each step is a step of `Rpc` or
a stutter. None of the safety properties is inductive alone; `AtMostOnce`, for
one, needs that a started request is nowhere else.

*SubscriptionProofs.* `NeverSendsOnClosed` and `SilentAfterUnsubscribe`, from
the invariant that a caller at position k of its loop has every subscription
below k gone.

*CallPipelineProofs.* `ChecksBeforeHandling`, `RefusesForGood`,
`SucceedsOnlyHandled`, `ContainsPanics` and `Refinement` (it implements
`GuardedCall` without excuses; the run `call_pipeline` checks that, and the first and
third theorem say the same of its variables), assuming `DenialsDeny`: validators
deny with errors whose code is neither 503 nor 2xx; without it `call_denied` is
a counterexample. The invariant `CallInv` has a part for each place a call can
be in: with its caller, on its way, at a stage, judged, answered. It says that
a call is in one place at a time, that each stage has the earlier checks behind
it, and that an answer in the inbox means what the caller takes it for. A step
of one call leaves `CallInv` of the others alone (`OthersSame`, `Elsewhere`).

*V1CallsProofs.* `TypeCorrect`, `NilIsSaid` and `Refinement`: every step of a
v1 call is a step of `GuardedCall` or a stutter. The invariant `CallInv` has the
parts of `CallPipeline`'s, and says besides that an answer that passes for a
success was given to this call, and one without a message only after some handler
had such an error (`TextInv`); that a wrapper past a check has noted it, or, for
the permission, the silence it got; and that only a permission is answered hollowly
(`TokenInv`). Without `Silences` TLC refutes the refinement.

*V2ProcessProofs.* `NeverUnserved`, `StopInOrder`, `QuietAfterShutdown` and
`BurstMocks`, and the types of all variables (`ProcessTypeCorrect`), for any
number of handlers, monitors, StartServices, HTTP requests and requests of a
burst. `ServiceInv` says that past the loop of the handlers all of this
StartService are subscribed or refused, and that a monitor of it is in `monitorSubs`;
`HttpInv`, that a server once shut down stays closed; `BurstInv`, that from the
moment a request of the burst has set something until the burst ends, only
values of the burst are there, and that when the burst returns nil nothing of it
runs, so that the next test may set its own, and that the TestAccess under way
finds what it set.

*ConnPoolProofs.* `OpenProvidersWork` and `NothingLeaks`, for any providers, open
at once or not, any goroutines and rings of any size. The invariant `PoolInv` has
five parts: `LockInv` says who holds the mutex where; `RingInv`, that a ring no
Close has come upon is whole, its connections those linked, all open, those up to
the one in turn used once more than those after it, which is what makes the use
even; `ProviderInv`, which ring a provider that is open or closes has to do with;
`UserInv`, that a goroutine in requestConn holds the mutex and has read the next
of its ring; and `CrossInv`, that as long as nothing has crossed, a provider that
closes is alone and nobody is in requestConn. It is the last that makes the
exception of both properties no wider than it is.

*SocketSessionProofs.* `TypeCorrect`, `WritesOncePerId`, `AnnouncesOnce`,
`MonitorsOneByOne` and `ReleasesClosed`, for any sessions, ids, tokens and
monitors. `MutexInv` says that who holds the provider's mutex is validating or
subscribing, and nobody else is; `ShareInv`, that the shares of a subscription are
among those its session has had; `WrittenInv`, that what a session was written of a
publication and what is still on its way to it are no more than these shares,
which counts sets of copies; `AnnounceInv`, that a session with an empty token has
not been announced since and that the announcement of the end belongs to the last
turn of the loop. `WatchInv` says that every subscription of a session has a goroutine that
will end it, or its Monitor is about to start one, and that a session whose
client closed has its context cancelled; `ReleasesClosed` is the safety half of
`ClosedReleases`: nothing but those goroutines' turns is missing.

*V1ProcessProofs, the lock.* `ExcludesEachOther`, `UnlocksOwnLock`,
`TakesWhenDue`, for any assignment of service keys and any number of failures,
assuming `Seeded`: the row exists and `MaxHold < Lease`. All three are promises
until a query of TryLock fails (`~blind`). Without the first the run `db_lock_first` is a
counterexample, without the second a slow holder is overtaken. The invariant
`LockInv` says who may be between SELECT and Save, that a holder's key is the
one the row names, and that the row is exactly as old as its holder's clock.
Mutual exclusion is a part of it and not a consequence: where goroutines share
a key the row does not tell which of them holds it.

*V1ProcessProofs, the migrations.* `UsesLock` (every execution is one of
`DBLock`, so its theorems carry over), `RecordsInOrder`, `MigrationTypeCorrect`,
and under `Seeded` `AppliesOnce` and `NeverMigratesAgain`. The invariant
`WorkInv` says that only the holder is between reading and unlocking, and that
what it read is still what is recorded; it holds as long as no query for the
lock's row or the version has failed (`AllRead`), which the two properties assume.

*V1ProcessProofs, the HTTP servers.* `ProxyTypeCorrect`, `ServesAfterAllStarted`,
`OneServerWaits` and `HandshakesAnswered`, for any number of services. `ProxyInv`
says what the place of NewProxyServer's goroutine means for the services
(`StepsInv`), for how many servers there are (`ServersInv`) and for what their
goroutines do (`GoroutineInv`): the last one waits for its context unless it is
being made, replaced or stopped, and those before it have told their end. That a
process whose route service runs once never finds its port taken follows from
there being one server.

*V1ProcessProofs, the process.* `RunsMigrations` and `RunsProxy`: every
execution of `V1Process` is one of `Migration` and one of `ProxyServer`, so that
all of the above holds of it (`ProcessHasOneServer`, `ProcessMigratesOnce`).
`ServesWhenReady` relates the two: by `CompleteInv` who leaves Base.Init without
an error has found all versions recorded, a process past its first service has
left it so, and one that listens is past it. It assumes nothing about the lock.

The type invariants of `RequestReply`, `SocketSession`, `Migration`,
`ProxyServer`, `CallPipeline`, `V1Calls` and `V2Process` are proved
(`TypeCorrect`, `MigrationTypeCorrect`, `ProxyTypeCorrect`,
`ProcessTypeCorrect`), those of `Subscription`, `ConnPool` and `DBLock` as a part
of their invariants.

**Only model-checked:** every liveness property (`EventuallyReturns`,
`CallerReturns`, `ChecksEnd`, `AcceptedIsHandled`, `DispatcherEnds`,
`EveryoneGetsThrough`, `StopReturns`, `BurstEnds`, `ClosedReleases`,
`MonitorReturns`, `SignalStops`), which needs fairness and is out of the
prover's reach. Every safety property and action property of a passing run is
proved.

## 5. Not modelled

Encodings (JSON, RawData, URLs), logging, metrics, HTTP middleware other than
AuthMiddleware, tokens' contents and permissions (an authenticator's answer is a
choice), reconnection inside the NATS client library, the database beyond its
row locks. Besides:

- `v2/pkg/rids` and `pkg/rids`: names, parameters and wildcards of endpoints are
  strings put together and taken apart without state; calls carry the kind of
  their method only.
- `testProvider` beyond what the test API calls: its Monitor and its response
  handlers have no caller there.
- The subscriptions, the pool and the sockets' sessions of v1: their code is the
  ancestor of the v2 code that `Subscription`, `ConnPool` and `SocketSession`
  model.
- Handlers of the route service, other than the two checks `V1Calls` asks of it.
- A second ListenAndServe, and web sockets during Shutdown.
- The embedded NATS server: a library call. Kafka and Spike providers: the
  branches that make them are commented out (`pkg/service/base-service.go:238-247`).

## 6. Plan

Done, the most important behaviour first: requests and their abstraction,
subscriptions, the lock with goroutines that share keys and the migrations, the
service API, sessions, the v1 process with the migrations its start waits for,
the pool, the pipeline of a call and its abstraction, the calls of v1,
the HTTP server and the test API in one process with the service. What is left:

1. The v1 pool with its ring that is never dropped, and v1 sessions.
2. `Rids`: endpoint names, parameters and wildcards as operators.
3. Proofs: a refinement of `DBLock` by an abstract lease, and of `Subscription`
   by an abstract queue.
