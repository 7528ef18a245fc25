------------------------------ MODULE V1Process ------------------------------
(***************************************************************************)
(* A v1 process among others on one database: its goroutine (ProxyServer)  *)
(* starts the services one after the other, and Start of a service runs    *)
(* Base.Init (pkg/service/base-service.go:222-263), which migrates the     *)
(* service's tables under the lock all processes share (Migration): that   *)
(* of the route service, which has nothing to migrate, that of the first   *)
(* other service, which has, and, if the route service is listed, its own  *)
(* once more.  A panic in it, the lock's, a migration's or that of an      *)
(* error, ends the process.  Composes Migration and ProxyServer.           *)
(***************************************************************************)
EXTENDS Migration, ProxyServer

CONSTANTS
  RouteInit,   \* the process's goroutine in Start of the route service,
  Self,        \* of the first other service,
  RouteAgain   \* and of the listed route service

Own == {RouteInit, Self, RouteAgain}

ASSUME SelfAssumption ==
  /\ Own \subseteq Proc
  /\ Own \cap Route = {RouteInit, RouteAgain} /\ RouteInit # RouteAgain
  /\ Self \notin Route
  /\ \A p \in Own : ServiceKey[p] = ServiceKey[Self]
  /\ Services > 1

processVars == <<vars, proxyVars>>

V1Init == MigrationInit /\ ProxyInit

-----------------------------------------------------------------------------
\* The first service that is not the route service.
FirstOther == IF place = 1 THEN 2 ELSE 1

\* s.Start() of p's service has come to Base.Init and is not through it.
Starting(p) ==
  /\ step[p] # "done"
  /\ \/ p = RouteInit /\ at = "route" /\ route # "absent"
     \/ p = RouteAgain /\ at = "start" /\ turn = place
     \/ p = Self /\ at = "start" /\ turn = FirstOther

\* Mutant of Proceeds: NewProxyServer starts the services in goroutines.
ProceedsAtOnce == TRUE

\* s.Start() returns before the next service is started.
Proceeds == (\E p \in Own : Starting(p)) => UNCHANGED <<at, turn>>

\* Init of p ends the process: Unlock panics, or it does of an error.
Panics(p) ==
  \/ pc'[p] \in {"panicked", "dead"}
  \/ step[p] = "error" /\ step'[p] = "done"

\* A step of p in Base.Init, which the process's own goroutine takes in
\* s.Start().
Takes(p) ==
  IF p \in Own
  THEN /\ process = "alive" /\ Starting(p)
       /\ IF Panics(p) THEN Killed ELSE UNCHANGED proxyVars
  ELSE UNCHANGED proxyVars

Initialises(p) == InitService(p) /\ Takes(p)

\* The process dies wherever it is, another one in Base.Init.
SelfDies ==
  /\ process = "alive"
  /\ Killed
  /\ IF \E p \in Own : Starting(p)
     THEN \E p \in Own : Starting(p) /\ Die(p)
     ELSE UNCHANGED vars

OtherDies(p) ==
  /\ p \notin Own
  /\ Die(p)
  /\ UNCHANGED proxyVars

TimeGoesBy == TimePasses /\ UNCHANGED proxyVars

\* NewProxyServer's goroutine, the signal's and those of the HTTP servers.
Runs == process = "alive" /\ (Boot \/ Connected \/ Down) /\ Proceeds
        /\ UNCHANGED vars

Signals == process = "alive" /\ (Signal \/ CancelContext) /\ UNCHANGED vars

Serves(j) == process = "alive" /\ HttpServer(j) /\ UNCHANGED vars

V1Next ==
  \/ \E p \in Proc : Initialises(p) \/ OtherDies(p)
  \/ SelfDies
  \/ TimeGoesBy
  \/ Runs \/ Signals
  \/ \E j \in Server : Serves(j)

\* Who runs Base.Init: the process's goroutine, in one service after the other,
\* and the other processes.
Starters == {Own} \cup {{p} : p \in Proc \ Own}

\* As in Migration; goroutines run, the timer of the signal fires, and the owner
\* receives from connected, as all callers in the repository do.
V1Fairness ==
  /\ \A P \in Starters :
       /\ WF_processVars(\E p \in P : Initialises(p))
       /\ SF_processVars(\E p \in P : SelectMigration(p) /\ Takes(p))
       /\ SF_processVars(\E p \in P : SaveMigration(p) /\ Takes(p))
  /\ WF_processVars(TimeGoesBy)
  /\ WF_processVars(Runs)
  /\ WF_processVars(process = "alive" /\ CancelContext /\ UNCHANGED vars)
  /\ \A j \in Server : WF_processVars(Serves(j))

V1Spec == V1Init /\ [][V1Next]_processVars /\ V1Fairness

-----------------------------------------------------------------------------
(* Properties. *)

\* HTTP comes last: when a server listens, ServesLast holds of the services and
\* the tables are at the last version, also when other processes migrate them,
\* die between the steps of a migration or hold the lock of a dead one.
ServesReady ==
  /\ ServesLast
  /\ (\E j \in Server : listener[j] # "none") => recorded = Version

\* A signal stops all services in order, whenever it arrives, also while the
\* server is being replaced or another process holds the lock, unless the
\* process has died.
SignalStops == signal = "received" ~> at = "stopped" \/ process # "alive"
=============================================================================
