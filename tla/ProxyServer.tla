----------------------------- MODULE ProxyServer -----------------------------
(***************************************************************************)
(* The process of the v1 broker: NewProxyServer's goroutine (main.go:64-   *)
(* 152) starts the route service and the others one after the other, has   *)
(* the route service serve HTTP, tells its owner, waits for the context a  *)
(* signal cancels, and stops them.  Serving                                *)
(* (pkg/route/route-http-server.go:19-109) replaces the HTTP server that   *)
(* runs: the old one is cancelled and says so on the channel terminated    *)
(* before it shuts down.  A process may not start the route service at     *)
(* all, and a developer's process may start it twice: when                 *)
(* route.NewService is also one of the services handed to NewProxyServer,  *)
(* wherever the caller has put it, it serves as one of them, in its turn,  *)
(* and then once more.  The owner, the signal and the operating system's   *)
(* port are external.                                                      *)
(***************************************************************************)
EXTENDS Naturals, FiniteSets

CONSTANT Services   \* services handed to NewProxyServer, 1..Services in order

ASSUME ProxyAssumption == Services \in Nat \ {0}

Service == 1..Services
Server == 1..2   \* calls of serve

VARIABLES
  route,     \* how the process runs the route service: not at all ("absent"),
             \* as its options name it ("named"), or also as one of the
             \* services ("listed")
  place,     \* which of the services it is, 0 if it is not listed
  process,   \* "alive", "dead" of its own HTTP server (log.Fatal, a provider
             \* that is nil), or "killed": from outside, or by a service's panic
  at,        \* where NewProxyServer's goroutine is
  turn,      \* the service its loop is at
  ready,     \* ready[s]: what has been called on service s
  servers,   \* calls of serve so far
  current,   \* the server s.Cancel cancels, 0 when it is nil
  goroutine, \* goroutine[j]: the goroutine that ends server j
  listener,  \* listener[j]: its ListenAndServe
  signal     \* "none", "received", "cancelled" (the context)

proxyVars == <<route, place, process, at, turn, ready, servers, current, goroutine,
             listener, signal>>

serving == <<servers, current, goroutine, listener>>

ProxyTypeOK ==
  /\ route \in {"absent", "named", "listed"}
  /\ place \in 0..Services /\ (place > 0 <=> route = "listed")
  /\ process \in {"alive", "dead", "killed"}
  /\ at \in {"route", "start", "deps", "all", "handlers", "serve", "replace",
             "spawn", "spawned", "connect", "run", "router", "stop", "stopped"}
  /\ turn \in 1..(Services + 1)
  /\ ready \in [Service -> {"new", "started", "deps", "all", "stopped"}]
  /\ servers \in 0..2
  /\ current \in 0..servers
  /\ goroutine \in [Server -> {"none", "new", "waiting", "telling", "shutting",
                               "ended"}]
  /\ listener \in [Server -> {"none", "starting", "listening", "closed"}]
  /\ signal \in {"none", "received", "cancelled"}

ProxyInit ==
  /\ route \in {"absent", "named", "listed"}
  /\ place \in IF route = "listed" THEN Service ELSE {0}
  /\ process = "alive"
  /\ at = "route" /\ turn = 1
  /\ ready = [s \in Service |-> "new"]
  /\ servers = 0 /\ current = 0
  /\ goroutine = [j \in Server |-> "none"]
  /\ listener = [j \in Server |-> "none"]
  /\ signal = "none"

-----------------------------------------------------------------------------
(* NewProxyServer's goroutine up to the wait for the context. *)

\* routerService.Start(), if the options name the route service.
StartRoute ==
  /\ at = "route"
  /\ at' = "start"
  /\ UNCHANGED <<route, place, process, turn, ready, serving, signal>>

\* One turn of the loop l (s.Start, processDependencies, AllServicesStarted),
\* or its end.
Turn(l, state, next) ==
  /\ at = l
  /\ IF turn \in Service
     THEN /\ ready' = [ready EXCEPT ![turn] = state]
          /\ turn' = turn + 1
          /\ UNCHANGED at
     ELSE at' = next /\ turn' = 1 /\ UNCHANGED ready
  /\ UNCHANGED <<route, place, process, serving, signal>>

StartService == Turn("start", "started", "deps")

ProcessDependencies == Turn("deps", "deps", "all")

\* One turn of the last loop, in which the service at `where` serves.
TurnServing(where) ==
  /\ at = "all"
  /\ IF turn \in Service
     THEN /\ ready' = [ready EXCEPT ![turn] = "all"]
          /\ turn' = turn + 1
          /\ at' = IF turn = where THEN "serve" ELSE at
     ELSE at' = "handlers" /\ turn' = 1 /\ UNCHANGED ready
  /\ UNCHANGED <<route, place, process, serving, signal>>

\* Mutant of AllServicesStarted: HTTP is served with the first service told.
AllServicesStartedServes == TurnServing(1)

\* s.AllServicesStarted() of each service; the route service's is to serve.
AllServicesStarted == TurnServing(place)

\* SetHandlerFunc, and routerService.AllServicesStarted() for the last time.
SetHandlers ==
  /\ at = "handlers"
  /\ at' = "serve"
  /\ UNCHANGED <<route, place, process, turn, ready, serving, signal>>

\* Mutant of Serve: the server that runs is not replaced.
ServeBeside ==
  /\ at = "serve"
  /\ at' = "spawn"
  /\ UNCHANGED <<route, place, process, turn, ready, serving, signal>>

\* serve: the routes, and s.Cancel() of the server that runs.
Serve ==
  /\ at = "serve"
  /\ IF current = 0
     THEN at' = "spawn" /\ UNCHANGED goroutine
     ELSE /\ at' = "replace"
          /\ goroutine' = [goroutine EXCEPT
                             ![current] = IF @ = "waiting" THEN "telling" ELSE @]
  /\ UNCHANGED <<route, place, process, turn, ready, servers, current, listener,
                 signal>>

\* <-s.terminated, with the old server's s.terminated <- true.
Replace ==
  /\ at = "replace"
  /\ \E j \in Server :
       /\ goroutine[j] = "telling"
       /\ goroutine' = [goroutine EXCEPT ![j] = "shutting"]
  /\ at' = "spawn"
  /\ UNCHANGED <<route, place, process, turn, ready, servers, current, listener,
                 signal>>

\* The goroutine of the new server; AllServicesStarted waits for <-started.
Spawn ==
  /\ at = "spawn"
  /\ servers' = servers + 1
  /\ goroutine' = [goroutine EXCEPT ![servers + 1] = "new"]
  /\ at' = "spawned"
  /\ UNCHANGED <<route, place, process, turn, ready, current, listener, signal>>

\* It sets s.Cancel, starts ListenAndServe, and sends on started.
ServerStarts ==
  /\ at = "spawned"
  /\ goroutine[servers] = "new"
  /\ current' = servers
  /\ goroutine' = [goroutine EXCEPT ![servers] = "waiting"]
  /\ listener' = [listener EXCEPT ![servers] = "starting"]
  /\ at' = IF turn = 1 THEN "connect" ELSE "all"
  /\ UNCHANGED <<route, place, process, turn, ready, servers, signal>>

\* connected <- true, which waits for the owner.
Connected ==
  /\ at = "connect"
  /\ at' = "run"
  /\ UNCHANGED <<route, place, process, turn, ready, serving, signal>>

-----------------------------------------------------------------------------
(* The signal and the way down. *)

Signal ==
  /\ signal = "none"
  /\ signal' = "received"
  /\ UNCHANGED <<route, place, process, at, turn, ready, serving>>

\* Mutant of CancelContext: a signal that arrives early is lost.
CancelContextLate ==
  /\ signal = "received"
  /\ signal' = IF at = "run" THEN "cancelled" ELSE "none"
  /\ UNCHANGED <<route, place, process, at, turn, ready, serving>>

\* StopTimeout after the signal.
CancelContext ==
  /\ signal = "received"
  /\ signal' = "cancelled"
  /\ UNCHANGED <<route, place, process, at, turn, ready, serving>>

ContextDone ==
  /\ at = "run"
  /\ signal = "cancelled"
  /\ at' = "router"
  /\ UNCHANGED <<route, place, process, turn, ready, serving, signal>>

\* The cancelled context of a server wakes its goroutine.
Cancelled == [goroutine EXCEPT
                ![current] = IF @ = "waiting" THEN "telling" ELSE @]

\* routerService.Stop(): s.Cancel(), and Base.Stop, whose provider is nil in
\* a process that has not started the route service: nobody recovers.
StopRouter ==
  /\ at = "router"
  /\ goroutine' = Cancelled
  /\ at' = "stop"
  /\ process' = IF route = "absent" THEN "dead" ELSE process
  /\ UNCHANGED <<route, place, turn, ready, servers, current, listener, signal>>

\* s.Stop() of each service: Base.Stop, or the route service's own.
StopService ==
  /\ at = "stop"
  /\ IF turn \in Service
     THEN /\ ready' = [ready EXCEPT ![turn] = "stopped"]
          /\ turn' = turn + 1
          /\ UNCHANGED at
     ELSE at' = "stopped" /\ UNCHANGED <<turn, ready>>
  /\ UNCHANGED <<route, place, process, serving, signal>>

-----------------------------------------------------------------------------
(* The goroutines of the HTTP servers. *)

\* srv.ListenAndServe() binds ":3333"; any error but ErrServerClosed is fatal.
Listen(j) ==
  /\ listener[j] = "starting"
  /\ IF \E i \in Server : listener[i] = "listening"
     THEN process' = "dead" /\ UNCHANGED listener
     ELSE /\ listener' = [listener EXCEPT ![j] = "listening"]
          /\ UNCHANGED process
  /\ UNCHANGED <<route, place, at, turn, ready, servers, current, goroutine, signal>>

\* srv.Shutdown(ctx), once terminated has been received.
Shutdown(j) ==
  /\ goroutine[j] = "shutting"
  /\ goroutine' = [goroutine EXCEPT ![j] = "ended"]
  /\ listener' = [listener EXCEPT ![j] = "closed"]
  /\ UNCHANGED <<route, place, process, at, turn, ready, servers, current, signal>>

\* The process ends from outside, or a panic in Start of a service ends it.
Killed ==
  /\ process' = "killed"
  /\ UNCHANGED <<route, place, at, turn, ready, serving, signal>>

-----------------------------------------------------------------------------
Boot == \/ StartRoute \/ StartService \/ ProcessDependencies
        \/ AllServicesStarted \/ SetHandlers
        \/ Serve \/ Replace \/ Spawn \/ ServerStarts

Down == ContextDone \/ StopRouter \/ StopService

HttpServer(j) == Listen(j) \/ Shutdown(j)

ProxyNext ==
  /\ process = "alive"
  /\ \/ Boot \/ Connected \/ Down
     \/ Signal \/ CancelContext
     \/ \E j \in Server : HttpServer(j)
     \/ Killed

ProxySpec == ProxyInit /\ [][ProxyNext]_proxyVars

-----------------------------------------------------------------------------
(* Properties. *)

\* HTTP is not served before every service has started and has seen its
\* dependencies, nor, but for those that follow a listed route service, before
\* it knows that all have started; and starting and stopping a process that runs
\* the route service once is never fatal: its port is free, its channels are
\* answered, its provider is there.  (Listed, the restarted server may find the
\* port taken, log.Fatal of route-http-server.go:99; absent,
\* routerService.Stop uses a nil provider.)
ServesLast ==
  /\ \A j \in Server, s \in Service : listener[j] # "none" =>
       /\ ready[s] \in {"deps", "all", "stopped"}
       /\ ready[s] = "deps" => route = "listed" /\ s > place
  /\ process = "dead" => route # "named"

\* A new server is made only when the old one was told to end and answered:
\* two servers never wait for their contexts at once.
OneServer ==
  Cardinality({j \in Server : goroutine[j] \in {"new", "waiting"}}) <= 1
=============================================================================
