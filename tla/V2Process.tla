------------------------------ MODULE V2Process ------------------------------
(***************************************************************************)
(* A process of the v2 API.  Its owner takes one of the two                *)
(* implementations of APIService: api-service-impl.go, beside which it     *)
(* runs the HTTP server, as test/v2/nats_test.go:33-104 does, or           *)
(* api-test-service-impl.go, whose HTTP server does nothing                *)
(* (test-http-server.go).  What a client of the HTTP server gets depends   *)
(* on what the service has subscribed.                                     *)
(***************************************************************************)
EXTENDS ServiceLifecycle, HttpServer, TestBurst

VARIABLES
  api,   \* the implementation taken
  ready  \* the HTTP requests accepted while the service was started

processVars == <<vars, httpVars, burstVars, api, ready>>

ProcessTypeOK ==
  /\ TypeOK /\ HttpTypeOK /\ BurstTypeOK
  /\ api \in {"production", "test"}
  /\ ready \subseteq HttpRequest

ProcessInit ==
  /\ Init /\ HttpInit /\ BurstInit
  /\ api \in {"production", "test"}
  /\ api = "production" => params = [i \in Index |-> StartMock]
  /\ ready = {}

-----------------------------------------------------------------------------
\* StartService and Stop of api-service-impl.go.
ServiceStep ==
  /\ api = "production"
  /\ Next
  /\ UNCHANGED <<httpVars, burstVars, api, ready>>

\* The owner's calls of the HTTP server and what its goroutines do.
HttpStep ==
  /\ api = "production"
  /\ HttpOwner \/ Serving
  /\ UNCHANGED <<vars, burstVars, api, ready>>

AcceptRequest(r) ==
  /\ api = "production"
  /\ Accept(r)
  /\ ready' = IF service = "started" THEN ready \cup {r} ELSE ready
  /\ UNCHANGED <<vars, burstVars, api>>

\* A queue group of the NATS server has the endpoint as soon as any of the
\* StartServices has subscribed it; nothing unsubscribes it.
Served(h) == \E n \in 1..starts : <<h, n>> \in subscribed

\* httpHandler: a body that cannot be read is an error; Broker.Request has the
\* handler's answer, or 503 if nobody is subscribed.
HandleHttp(r) ==
  /\ api = "production"
  /\ \E h \in Handler, answer \in Response :
       /\ answer = "unavailable" => ~Served(h)
       /\ answer = "ok" => Served(h)
       /\ HttpHandler(r, answer)
  /\ UNCHANGED <<vars, burstVars, api, ready>>

TestStep ==
  /\ api = "test"
  /\ BurstNext
  /\ UNCHANGED <<vars, httpVars, api, ready>>

ProcessNext ==
  \/ ServiceStep \/ HttpStep \/ TestStep
  \/ \E r \in HttpRequest : AcceptRequest(r) \/ HandleHttp(r)

ProcessSpec ==
  /\ ProcessInit /\ [][ProcessNext]_processVars
  /\ Fairness /\ BurstFairness

-----------------------------------------------------------------------------
(* Properties. *)

\* A client whose request comes while the service is started is told that there
\* is no service only if a handler's subscription was refused by all connections
\* (provider.go:93-99), whether Stop or Shutdown overtakes it and however many
\* StartServices failed before (service.go:13).
ServedOnceStarted ==
  \A r \in ready : request[r] = "unavailable" =>
    \E h \in Handler : ~Served(h) /\ <<h, starts>> \in refused
=============================================================================
